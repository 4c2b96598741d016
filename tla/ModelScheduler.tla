--------------------------- MODULE ModelScheduler ---------------------------
(***************************************************************************)
(* mtplx/model_scheduler.py: ModelWorkScheduler, the single thread that    *)
(* owns the model.  Any thread submits work in one of three bands          *)
(* (foreground > idle_postcommit > idle_persistence); one owner thread     *)
(* takes an item, runs it, records its completion and comes back, or waits *)
(* on the condition variable until somebody notifies it or a timer it      *)
(* computed before waiting runs out.                                       *)
(*                                                                         *)
(* Every action below is one critical section of the scheduler's condition *)
(* or one step of the owner thread outside it.  A deque is the set of its  *)
(* items; its order is the order of their sequence numbers, which the code *)
(* assigns in the same critical section as the append.  A monotonic time   *)
(* is the number of ticks left until it is reached.                        *)
(***************************************************************************)
EXTENDS Naturals, FiniteSets, FiniteSetsExt

CONSTANTS
  Foreground, Postcommit, Persistence,  \* the work items of the three bands
  NoItem,
  CoalesceKey,         \* Persistence -> key, or NoKey for a job without one
  NoKey,
  PinnedBytes,         \* Persistence -> bytes the job alone holds once its entry left the bank
  MaxPendingBytes,     \* persistence_max_pending_bytes; 0 disables the budget
  IdleGrace,           \* idle_grace_s, in ticks
  QuietGrace,          \* persistence_quiet_grace_s, in ticks
  OwnerIdleGrace,      \* owner_idle_grace_s, in ticks
  KeepaliveInterval,   \* the keepalive's interval_s, in ticks; 0: it is never armed
  AttentiveWindow,     \* the keepalive's attentive_s, in ticks
  PumpBudgets          \* the budgets pump_persistence is called with

Items == Foreground \cup Postcommit \cup Persistence
PumpCap == 8

ASSUME BandsAssumption ==
  /\ Foreground \cap Postcommit = {}
  /\ Foreground \cap Persistence = {}
  /\ Postcommit \cap Persistence = {}
  /\ NoItem \notin Items
  /\ IsFiniteSet(Items)

ASSUME NumbersAssumption ==
  /\ MaxPendingBytes \in Nat /\ IdleGrace \in Nat /\ QuietGrace \in Nat
  /\ OwnerIdleGrace \in Nat /\ KeepaliveInterval \in Nat /\ AttentiveWindow \in Nat
  /\ PumpBudgets \subseteq Nat
  /\ PinnedBytes \in [Persistence -> Nat]

VARIABLES
  future,       \* the state of each item's Future; "new" before it is submitted
  seq,          \* the item's sequence number, 0 before it is queued
  sequence,     \* _sequence
  foreground, idle, persistence,   \* the three deques
  banked,       \* persistence jobs whose entry the session bank still holds
  pumpBudget,   \* _persistence_pump_budget
  shutdown,     \* _shutdown
  pc,           \* where the owner thread is
  item,         \* the item the owner thread has taken
  activeKind,   \* _active_kind
  ownerWorked,  \* _owner_worked
  beatFn,       \* _keepalive_fn is set
  beatErrors,   \* _keepalive_consecutive_errors
  due,          \* item -> ticks until its earliest_start_s
  left          \* ticks left on the owner's clocks, see Clocks

Clocks == {"quiet",      \* until _last_quiet_anchor_s + the quiet grace
           "beat",       \* until _last_owner_activity_s + the keepalive interval
           "attentive",  \* until the keepalive's attentive window closes
           "ownerIdle",  \* until _owner_last_done_s + the owner-idle grace
           "wake"}       \* until the timed condition wait returns

queues == <<foreground, idle, persistence>>
submitted == <<future, seq, sequence, banked>>
beatVars == <<beatFn, beatErrors>>
ownerVars == <<pc, item, activeKind, ownerWorked>>
vars == <<future, seq, sequence, foreground, idle, persistence, banked, pumpBudget,
          shutdown, pc, item, activeKind, ownerWorked, beatFn, beatErrors, due, left>>

Kind(i) == IF i \in Foreground THEN "foreground"
           ELSE IF i \in Postcommit THEN "idle_postcommit" ELSE "idle_persistence"

Queued == foreground \cup idle \cup persistence

(* Mutant: a deque is served from its tail. *)
Newest(q) == CHOOSE i \in q : \A j \in q : seq[j] <= seq[i]

(* The head of a deque. *)
Oldest(q) == CHOOSE i \in q : \A j \in q : seq[i] <= seq[j]

Init ==
  /\ future = [i \in Items |-> "new"]
  /\ seq = [i \in Items |-> 0]
  /\ sequence = 0
  /\ foreground = {} /\ idle = {} /\ persistence = {}
  /\ banked = Persistence
  /\ pumpBudget = 0
  /\ shutdown = FALSE
  /\ pc = "take_next" /\ item = NoItem /\ activeKind = "none"
  /\ ownerWorked = FALSE
  /\ beatFn = FALSE /\ beatErrors = 0
  /\ due = [i \in Items |-> 0]
  /\ left = [c \in Clocks |-> IF c = "quiet" THEN QuietGrace ELSE 0]

-----------------------------------------------------------------------------
(* Callers.                                                                *)

(* Mutant: a caller changes the queues and wakes nobody. *)
NotifyNobody == pc' = pc

(* condition.notify_all(): a waiting owner thread looks at the queues again. *)
Notify == pc' = IF pc \in {"waiting", "parked"} THEN "take_next" ELSE pc

(* Mutant: an item leaves its deque and its future stays pending. *)
CancelNone(S) == future

(* future.cancel() on every item of S; a future that is already cancelled stays so. *)
CancelAll(S) == [i \in Items |-> IF i \in S THEN "cancelled" ELSE future[i]]

(* _submit after shutdown: the future carries RuntimeError. *)
SubmitRefused(i) ==
  /\ shutdown /\ future[i] = "new"
  /\ future' = [future EXCEPT ![i] = "refused"]
  /\ UNCHANGED <<seq, sequence, banked, queues, pumpBudget, shutdown, ownerVars, beatVars,
                 due, left>>

(* The part of _submit common to the three bands. *)
Admit(i) ==
  /\ ~shutdown /\ future[i] = "new"
  /\ sequence' = sequence + 1
  /\ seq' = [seq EXCEPT ![i] = sequence + 1]
  /\ Notify
  /\ UNCHANGED <<banked, shutdown, item, activeKind, ownerWorked, beatVars, left>>

SubmitForeground(i) ==
  /\ i \in Foreground
  /\ Admit(i)
  /\ future' = [future EXCEPT ![i] = "pending"]
  /\ foreground' = foreground \cup {i}
  /\ pumpBudget' = 0
  /\ UNCHANGED <<idle, persistence, due>>

(* earliest_start_s is computed before the condition is taken: some of the
   grace may be over when the item is queued. *)
SubmitIdlePostcommit(i) ==
  /\ i \in Postcommit
  /\ Admit(i)
  /\ future' = [future EXCEPT ![i] = "pending"]
  /\ idle' = idle \cup {i}
  /\ \E g \in 0..IdleGrace : due' = [due EXCEPT ![i] = g]
  /\ UNCHANGED <<foreground, persistence, pumpBudget>>

(* _pinned_bytes: the bank's callable says 0 while the bank holds the entry. *)
Pinned(i) == IF i \in banked THEN 0 ELSE PinnedBytes[i]
PinnedTotal(S) == MapThenSumSet(Pinned, S)

(* Mutant: the budget drops whatever is oldest, banked or not. *)
DropAnyOldest(q, keep) ==
  LET afterOlder(i) == PinnedTotal(q \ {j \in q \ {keep} : seq[j] < seq[i]})
  IN IF MaxPendingBytes = 0 THEN {}
     ELSE {i \in q \ {keep} : afterOlder(i) > MaxPendingBytes}

(* Mutant: the budget stops one drop too early. *)
StopDropEarly(q, keep) ==
  LET droppable == {i \in q : i # keep /\ Pinned(i) > 0}
      afterThis(i) == PinnedTotal(q \ {j \in droppable : seq[j] <= seq[i]})
  IN IF MaxPendingBytes = 0 THEN {} ELSE {i \in droppable : afterThis(i) > MaxPendingBytes}

(* _enforce_persistence_budget_locked: the oldest queued jobs that hold memory
   nothing else holds go first, until the rest fit; keep is never dropped. *)
OverBudget(q, keep) ==
  LET droppable == {i \in q : i # keep /\ Pinned(i) > 0}
      afterOlder(i) == PinnedTotal(q \ {j \in droppable : seq[j] < seq[i]})
  IN IF MaxPendingBytes = 0 THEN {} ELSE {i \in droppable : afterOlder(i) > MaxPendingBytes}

SameKey(i, j) == CoalesceKey[i] # NoKey /\ CoalesceKey[i] = CoalesceKey[j]

(* Mutant: a key collects every closure submitted under it. *)
SupersedeNone(i) == {}

(* The queued jobs a newer submission of their key replaces. *)
Superseded(i) == {j \in persistence : SameKey(i, j)}

SubmitIdlePersistence(i) ==
  LET stale == Superseded(i)
      queue == (persistence \ stale) \cup {i}
      dropped == OverBudget(queue, i)
  IN /\ i \in Persistence
     /\ Admit(i)
     /\ persistence' = queue \ dropped
     /\ future' = [CancelAll(stale \cup dropped) EXCEPT ![i] = "pending"]
     /\ \E g \in 0..IdleGrace : due' = [due EXCEPT ![i] = g]
     /\ UNCHANGED <<foreground, idle, pumpBudget>>

CancelIdlePersistence(k) ==
  LET stale == {j \in persistence : CoalesceKey[j] = k}
  IN /\ k # NoKey /\ stale # {}
     /\ persistence' = persistence \ stale
     /\ future' = CancelAll(stale)
     /\ Notify
     /\ UNCHANGED <<seq, sequence, banked, foreground, idle, pumpBudget, shutdown, item,
                    activeKind, ownerWorked, beatVars, due, left>>

(* A holder of the future cancels it: the item stays in its deque.  The session
   bank, which holds those of the persistence band, never does. *)
CancelFuture(i) ==
  /\ i \notin Persistence /\ future[i] = "pending"
  /\ future' = [future EXCEPT ![i] = "cancelled"]
  /\ UNCHANGED <<seq, sequence, banked, queues, pumpBudget, shutdown, ownerVars, beatVars,
                 due, left>>

(* The session bank evicts the entry of a queued job: the job pins it alone now. *)
BankReleases(i) ==
  /\ i \in persistence \cap banked
  /\ banked' = banked \ {i}
  /\ UNCHANGED <<future, seq, sequence, queues, pumpBudget, shutdown, ownerVars, beatVars,
                 due, left>>

PumpPersistence(b) ==
  /\ ~shutdown /\ persistence # {}
  /\ pumpBudget' = Max({pumpBudget, Min({b, PumpCap})})
  /\ Notify
  /\ UNCHANGED <<submitted, queues, shutdown, item, activeKind, ownerWorked, beatVars,
                 due, left>>

ArmIdleKeepalive ==
  /\ KeepaliveInterval > 0
  /\ beatFn' = TRUE /\ beatErrors' = 0
  /\ left' = [left EXCEPT !["beat"] = KeepaliveInterval, !["attentive"] = AttentiveWindow]
  /\ Notify
  /\ UNCHANGED <<submitted, queues, pumpBudget, shutdown, item, activeKind, ownerWorked, due>>

DisarmIdleKeepalive ==
  /\ beatFn
  /\ beatFn' = FALSE
  /\ Notify
  /\ UNCHANGED <<submitted, queues, pumpBudget, shutdown, item, activeKind, ownerWorked,
                 beatErrors, due, left>>

Shutdown(cancelFutures) ==
  /\ ~shutdown \/ cancelFutures
  /\ shutdown' = TRUE
  /\ IF cancelFutures
     THEN /\ future' = CancelAll(Queued)
          /\ foreground' = {} /\ idle' = {} /\ persistence' = {}
     ELSE UNCHANGED <<future, queues>>
  /\ Notify
  /\ UNCHANGED <<seq, sequence, banked, pumpBudget, item, activeKind, ownerWorked, beatVars,
                 due, left>>

-----------------------------------------------------------------------------
(* The owner thread: _take_next, one critical section per return or wait.  *)

NothingQueued == foreground = {} /\ idle = {} /\ persistence = {}
IdleDue == idle # {} /\ due[Oldest(idle)] = 0

(* Mutant: an encode may pass a queued postcommit with no slot armed. *)
ReachableAlways == persistence # {}

PersistenceReachable == persistence # {} /\ (idle = {} \/ pumpBudget > 0)

(* Mutant: the grace of the submission, without the quiet after a completion. *)
ReadyAfterSubmit == due[Oldest(persistence)]

PersistenceReadyIn == Max({due[Oldest(persistence)], left["quiet"]})
PersistenceDue == PersistenceReachable /\ PersistenceReadyIn = 0

(* No item can be taken now. *)
NoneDue == foreground = {} /\ ~IdleDue /\ ~PersistenceDue

(* Mutant: shutdown ends the thread with work queued. *)
ExitAtOnce == shutdown

(* Mutant: an armed keepalive holds the thread. *)
ExitWhenDisarmed == shutdown /\ NothingQueued /\ ~beatFn

MayExit == shutdown /\ NothingQueued
BeatOwed == beatFn /\ ~shutdown /\ left["attentive"] > 0
BeatDue == BeatOwed /\ left["beat"] = 0
OwnerIdleDue == ownerWorked /\ left["ownerIdle"] = 0

Take(i) ==
  /\ pc = "take_next"
  /\ pc' = "taken" /\ item' = i
  /\ UNCHANGED <<submitted, shutdown, activeKind, ownerWorked, beatVars, due, left>>

TakeForeground ==
  /\ foreground # {}
  /\ Take(Oldest(foreground))
  /\ foreground' = foreground \ {Oldest(foreground)}
  /\ UNCHANGED <<idle, persistence, pumpBudget>>

TakeIdle ==
  /\ foreground = {} /\ IdleDue
  /\ Take(Oldest(idle))
  /\ idle' = idle \ {Oldest(idle)}
  /\ UNCHANGED <<foreground, persistence, pumpBudget>>

(* Mutant: every pop spends a slot, one that bridges nothing too. *)
TakeSpendingSlot ==
  /\ foreground = {} /\ ~IdleDue /\ PersistenceDue
  /\ Take(Oldest(persistence))
  /\ persistence' = persistence \ {Oldest(persistence)}
  /\ pumpBudget' = pumpBudget - 1
  /\ UNCHANGED <<foreground, idle>>

(* With a postcommit queued that is not due, the pop bridges it on one armed slot. *)
TakePersistence ==
  /\ foreground = {} /\ ~IdleDue /\ PersistenceDue
  /\ Take(Oldest(persistence))
  /\ persistence' = persistence \ {Oldest(persistence)}
  /\ pumpBudget' = IF idle # {} THEN pumpBudget - 1 ELSE pumpBudget
  /\ UNCHANGED <<foreground, idle>>

Exit ==
  /\ pc = "take_next" /\ MayExit
  /\ pc' = "exited"
  /\ UNCHANGED <<submitted, queues, pumpBudget, shutdown, item, activeKind, ownerWorked,
                 beatVars, due, left>>

TakeKeepalive ==
  /\ pc = "take_next" /\ ~MayExit /\ NoneDue /\ BeatDue
  /\ pc' = "keepalive"
  /\ UNCHANGED <<submitted, queues, pumpBudget, shutdown, item, activeKind, ownerWorked,
                 beatVars, due, left>>

TakeOwnerIdle ==
  /\ pc = "take_next" /\ ~MayExit /\ NoneDue /\ ~BeatDue /\ OwnerIdleDue
  /\ pc' = "owner_idle" /\ ownerWorked' = FALSE
  /\ UNCHANGED <<submitted, queues, pumpBudget, shutdown, item, activeKind, beatVars, due, left>>

(* Mutant: the timer counts the queues and forgets what an idle owner owes. *)
DeadlinesOfWork ==
  (IF idle # {} THEN {due[Oldest(idle)]} ELSE {})
  \cup (IF PersistenceReachable THEN {PersistenceReadyIn} ELSE {})

(* The times the owner thread has to wake at by itself. *)
Deadlines ==
  (IF idle # {} THEN {due[Oldest(idle)]} ELSE {})
  \cup (IF PersistenceReachable THEN {PersistenceReadyIn} ELSE {})
  \cup (IF BeatOwed THEN {left["beat"]} ELSE {})
  \cup (IF ownerWorked THEN {left["ownerIdle"]} ELSE {})

(* condition.wait(timeout) until the nearest deadline, condition.wait() without one. *)
Wait ==
  /\ pc = "take_next" /\ ~MayExit /\ NoneDue /\ ~BeatDue /\ ~OwnerIdleDue
  /\ IF Deadlines = {} THEN pc' = "parked" /\ UNCHANGED left
     ELSE pc' = "waiting" /\ left' = [left EXCEPT !["wake"] = Min(Deadlines)]
  /\ UNCHANGED <<submitted, queues, pumpBudget, shutdown, item, activeKind, ownerWorked,
                 beatVars, due>>

(* The timed wait returns unnotified. *)
WaitTimesOut ==
  /\ pc = "waiting" /\ left["wake"] = 0
  /\ pc' = "take_next"
  /\ UNCHANGED <<submitted, queues, pumpBudget, shutdown, item, activeKind, ownerWorked,
                 beatVars, due, left>>

-----------------------------------------------------------------------------
(* The owner thread: _run_loop outside _take_next.                         *)

OwnerOnly == UNCHANGED <<seq, sequence, banked, queues, pumpBudget, shutdown, due>>

(* set_running_or_notify_cancel returns False: cancelled_before_start. *)
SkipCancelled ==
  /\ pc = "taken" /\ future[item] = "cancelled"
  /\ pc' = "take_next" /\ item' = NoItem
  /\ UNCHANGED <<future, activeKind, ownerWorked, beatVars, left>> /\ OwnerOnly

(* set_running_or_notify_cancel returns True: nobody can cancel it any more. *)
StartItem ==
  /\ pc = "taken" /\ future[item] = "pending"
  /\ pc' = "claimed"
  /\ future' = [future EXCEPT ![item] = "running"]
  /\ UNCHANGED <<item, activeKind, ownerWorked, beatVars, left>> /\ OwnerOnly

(* The critical section that publishes _active_kind, before the work runs. *)
PublishActive ==
  /\ pc = "claimed"
  /\ pc' = "running" /\ activeKind' = Kind(item)
  /\ UNCHANGED <<future, item, ownerWorked, beatVars, left>> /\ OwnerOnly

(* item.fn returns or raises; its result or its exception goes to the future. *)
FinishItem ==
  /\ pc = "running"
  /\ pc' = "recording"
  /\ future' = [future EXCEPT ![item] = "finished"]
  /\ UNCHANGED <<item, activeKind, ownerWorked, beatVars, left>> /\ OwnerOnly

(* The critical section after the work: every clock an item's end restarts. *)
RecordCompletion ==
  /\ pc = "recording"
  /\ pc' = "take_next" /\ item' = NoItem /\ activeKind' = "none"
  /\ ownerWorked' = TRUE
  /\ left' = [c \in Clocks |->
       CASE c = "quiet" /\ item \notin Persistence -> QuietGrace
         [] c = "beat" -> KeepaliveInterval
         [] c = "attentive" /\ item \in Foreground -> AttentiveWindow
         [] c = "ownerIdle" -> OwnerIdleGrace
         [] OTHER -> left[c]]
  /\ UNCHANGED <<future, beatVars>> /\ OwnerOnly

(* _run_keepalive reads the beat function outside the lock... *)
StartBeat ==
  /\ pc = "keepalive"
  /\ pc' = IF beatFn THEN "beating" ELSE "take_next"
  /\ UNCHANGED <<future, item, activeKind, ownerWorked, beatVars, left>> /\ OwnerOnly

(* ... and counts the beat, or disarms the keepalive at the third failure in a row. *)
FinishBeat(ok) ==
  /\ pc = "beating"
  /\ pc' = "take_next"
  /\ beatErrors' = IF ok THEN 0 ELSE beatErrors + 1
  /\ beatFn' = (beatFn /\ beatErrors' < 3)
  /\ left' = [left EXCEPT !["beat"] = KeepaliveInterval]
  /\ UNCHANGED <<future, item, activeKind, ownerWorked>> /\ OwnerOnly

RunOwnerIdle ==
  /\ pc = "owner_idle"
  /\ pc' = "take_next"
  /\ UNCHANGED <<future, item, activeKind, ownerWorked, beatVars, left>> /\ OwnerOnly

-----------------------------------------------------------------------------

Down(n) == IF n > 0 THEN n - 1 ELSE 0

(* One tick of time.monotonic() on every clock. *)
Tick ==
  /\ due' = [i \in Items |-> Down(due[i])]
  /\ left' = [c \in Clocks |-> Down(left[c])]
  /\ UNCHANGED <<submitted, queues, pumpBudget, shutdown, ownerVars, beatVars>>

TakeNext ==
  \/ TakeForeground \/ TakeIdle \/ TakePersistence
  \/ Exit \/ TakeKeepalive \/ TakeOwnerIdle \/ Wait

Owner ==
  \/ TakeNext \/ WaitTimesOut
  \/ SkipCancelled \/ StartItem \/ PublishActive \/ FinishItem \/ RecordCompletion
  \/ StartBeat \/ (\E ok \in BOOLEAN : FinishBeat(ok)) \/ RunOwnerIdle

Callers ==
  \/ \E i \in Items : SubmitRefused(i) \/ SubmitForeground(i) \/ SubmitIdlePostcommit(i)
                      \/ SubmitIdlePersistence(i) \/ CancelFuture(i) \/ BankReleases(i)
  \/ \E i \in Persistence : CancelIdlePersistence(CoalesceKey[i])
  \/ \E b \in PumpBudgets : PumpPersistence(b)
  \/ ArmIdleKeepalive \/ DisarmIdleKeepalive
  \/ \E cancelFutures \in BOOLEAN : Shutdown(cancelFutures)

Next == Callers \/ Owner \/ Tick

(* The owner thread keeps running, the work it runs ends, and time passes. *)
Fairness == WF_vars(Owner) /\ WF_vars(Tick)

Spec == Init /\ [][Next]_vars
FairSpec == Spec /\ Fairness

-----------------------------------------------------------------------------

(* Every field keeps its type; the pump budget, the counters and the deadlines
   stay natural numbers. *)
TypeOK ==
  /\ future \in [Items -> {"new", "refused", "pending", "cancelled", "running", "finished"}]
  /\ seq \in [Items -> Nat] /\ sequence \in Nat
  /\ foreground \subseteq Foreground /\ idle \subseteq Postcommit
  /\ persistence \subseteq Persistence /\ banked \subseteq Persistence
  /\ pumpBudget \in Nat
  /\ shutdown \in BOOLEAN /\ ownerWorked \in BOOLEAN /\ beatFn \in BOOLEAN
  /\ beatErrors \in Nat
  /\ pc \in {"take_next", "waiting", "parked", "taken", "claimed", "running", "recording",
             "keepalive", "beating", "owner_idle", "exited"}
  /\ item \in Items \cup {NoItem}
  /\ activeKind \in {"none", "foreground", "idle_postcommit", "idle_persistence"}
  /\ due \in [Items -> Nat] /\ left \in [Clocks -> Nat]

(* No work is lost: a future that is still pending is in a deque or is the
   item the owner thread has just taken, and a running one is the item it
   runs.  Coalescing, key cancels, the budget and shutdown all take items out
   of a deque from other threads: each has to resolve the future it drops. *)
NoLostWork ==
  \A i \in Items :
    /\ future[i] = "pending" => i \in Queued \/ (pc = "taken" /\ item = i)
    /\ future[i] = "running" => pc \in {"claimed", "running"} /\ item = i
    /\ i \in Queued => future[i] \in {"pending", "cancelled"} /\ item # i

(* Newest wins: a queued job with a coalesce key is the latest job that was
   submitted under that key, so a key never holds two closures and the drop
   never takes the newer one. *)
NewestWins ==
  \A i \in persistence, j \in Persistence :
    SameKey(i, j) => seq[j] <= seq[i]

(* Foreground requests start in the order they were submitted, whatever was
   cancelled or taken in between. *)
ForegroundInOrder ==
  \A i, j \in Foreground :
    /\ 0 < seq[i] /\ seq[i] < seq[j]
    /\ future[j] \in {"running", "finished"}
    => future[i] \in {"finished", "cancelled"}

(* The scheduler keeps the promise of WorkQueue: band order at the moment an
   item is taken, one item at a time, no cancel of a running item, bridges that
   do not survive a foreground arrival. *)
Queue == INSTANCE WorkQueue WITH
  waiting <- Queued, taken <- item, open <- ~shutdown, bridges <- pumpBudget
ImplementsWorkQueue == Queue!WSpec

(* Once the owner thread has gone, nobody waits on a future it will never
   resolve, whichever way shutdown raced the last submissions. *)
ExitLeavesNothing ==
  pc = "exited" => shutdown /\ \A i \in Items : future[i] \notin {"pending", "running"}

(* Queued persistence jobs leave their deque for one of five reasons: taken,
   superseded by a newer job of their key, cancelled by key, shut down, or
   dropped by the budget; and the budget drops only a job that pins memory the
   bank has let go of, the oldest of those first, and only while the rest with
   that job does not fit. *)
Supersedes(j, i) == j \notin persistence /\ SameKey(i, j)
BudgetDropsOnlyPinned ==
  [][\A i \in persistence \ persistence' :
       \/ item' = i \/ shutdown'
       \/ \E j \in persistence' : Supersedes(j, i)
       \/ persistence' = {j \in persistence : CoalesceKey[j] # CoalesceKey[i]}
       \/ LET newer == {j \in persistence : seq[j] > seq[i]
                                           /\ \A k \in persistence' : ~Supersedes(k, j)}
          IN /\ Pinned(i) > 0
             /\ \A j \in persistence' \cap persistence : seq[j] < seq[i] => Pinned(j) = 0
             /\ PinnedTotal(persistence' \cup {i} \cup newer) > MaxPendingBytes]_vars

(* After a persistence submit the deque fits the budget, or nothing but the
   new job pins memory in it. *)
BudgetFits ==
  [][\A i \in persistence' \ persistence :
       \/ MaxPendingBytes = 0 \/ PinnedTotal(persistence') <= MaxPendingBytes
       \/ \A j \in persistence' \ {i} : Pinned(j) = 0]_vars

(* The owner thread never oversleeps: while it waits, and until the timer it
   computed before waiting runs out, there is nothing it could take.  Work
   that becomes takable by somebody's call comes with a notify, and what
   becomes due by the passing of time was on the timer. *)
OwnerNeverOversleeps ==
  pc \in {"waiting", "parked"} =>
    /\ foreground = {} /\ ~MayExit
    /\ pc = "parked" \/ left["wake"] > 0 => NoneDue /\ ~BeatDue /\ ~OwnerIdleDue

(* Every accepted future resolves: the owner thread never sleeps through work
   it should run, at shutdown too. *)
EveryFutureResolves ==
  \A i \in Items : future[i] = "pending" ~> future[i] \in {"finished", "cancelled"}

(* After shutdown the owner thread ends: nothing it waits for is refused to it. *)
OwnerEnds == shutdown ~> pc = "exited"

-----------------------------------------------------------------------------
(* What makes the invariants above inductive: which future each place of the
   owner thread goes with, ... *)
OwnerBookkeeping ==
  /\ item = NoItem <=>
       pc \in {"take_next", "waiting", "parked", "keepalive", "beating", "owner_idle", "exited"}
  /\ pc = "taken" => future[item] \in {"pending", "cancelled"}
  /\ pc \in {"claimed", "running"} => future[item] = "running"
  /\ pc = "recording" => future[item] = "finished"
  /\ pc = "exited" => shutdown /\ NothingQueued

(* ... that sequence numbers are drawn once and in order, ... *)
Numbered ==
  /\ \A i \in Items : seq[i] <= sequence /\ (seq[i] = 0 <=> future[i] \in {"new", "refused"})
  /\ \A i, j \in Items : seq[i] = seq[j] /\ seq[i] > 0 => i = j

(* ... and that whatever was submitted after an unresolved foreground item is
   still queued behind it, unless shutdown dropped it. *)
ForegroundBehind ==
  \A i, j \in Foreground :
    /\ 0 < seq[i] /\ seq[i] < seq[j]
    /\ future[i] \in {"pending", "running"}
    => j \in foreground \/ future[j] = "cancelled"

(* Why the owner does not oversleep: its timer runs out no later than any of
   the deadlines there are by now, not only those there were. *)
TimerCovers ==
  /\ pc \in {"waiting", "parked"} => foreground = {} /\ ~MayExit
  /\ pc = "parked" => Deadlines = {}
  /\ pc = "waiting" => \A t \in Deadlines : left["wake"] <= t

IInv ==
  /\ TypeOK /\ NoLostWork /\ NewestWins
  /\ OwnerBookkeeping /\ Numbered /\ ForegroundBehind
=============================================================================
