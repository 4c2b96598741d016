---------------------------- MODULE EngineSession ----------------------------
(***************************************************************************)
(* The generation slot of a conversation (mtplx/engine_session.py): the    *)
(* registry of session records, the lock each record carries, the requests *)
(* that take it, wait for a cancelled holder, fork or are refused, the     *)
(* memory release that holds it while it evicts the session's entries, and *)
(* the sweep and the clear that drop records.  One session id is modelled; *)
(* other ids share nothing with it but the registry lock.                  *)
(***************************************************************************)
EXTENDS Naturals, FiniteSets

CONSTANTS
  Request,     \* the requests that come for the session
  Named,       \* those whose client named it; the others only matched its prefix
  Records,     \* EngineSession objects the registry may create
  Polls,       \* polls within _cancelled_holder_handoff_wait_s
  Clearing,    \* whether an operator may clear the session
  NoOne

ASSUME SessionAssumption ==
  /\ Named \subseteq Request /\ Polls \in Nat /\ Clearing \in BOOLEAN
  /\ Records \in Nat /\ NoOne \notin Request /\ "release" \notin Request /\ NoOne # "release"

Record == 1..Records
NoRecord == 0

VARIABLES
  registry,    \* the record filed under the session id, or NoRecord
  made,        \* how many records have been created; they are numbered
  owner,       \* record -> who holds its _lock
  flag,        \* record -> in_flight
  signal,      \* record -> whose cancel event _holder_cancel_event is
  stale,       \* the record filed is untouched for longer than its TTL
  pc, ref,     \* where a request is, and the record it looked up
  polls,       \* how often it has polled the slot
  cancelled,   \* the requests whose cancel event is set
  release,     \* where the memory release is
  held,        \* the record it looked up
  sweep,       \* evict_stale: "dropping" between its check and its pop
  cleared,     \* history: the records an operator dropped
  met          \* history: the requests a generation, or a long release, kept out

slot == <<owner, flag, signal>>
request == <<pc, ref, polls>>
vars == <<registry, made, slot, stale, request, cancelled, release, held, sweep, cleared, met>>

Init ==
  /\ registry = NoRecord /\ made = 0 /\ stale = FALSE /\ cancelled = {}
  /\ owner = [r \in Record |-> NoOne] /\ flag = [r \in Record |-> FALSE]
  /\ signal = [r \in Record |-> NoOne]
  /\ pc = [q \in Request |-> "new"] /\ ref = [q \in Request |-> NoRecord]
  /\ polls = [q \in Request |-> 0]
  /\ release = "idle" /\ held = NoRecord /\ sweep = "idle"
  /\ cleared = {} /\ met = {}

(* The manager's _lock: the sweep keeps it from its check to its pop, and a
   release of a session without a record keeps it while it evicts. *)
RegistryFree == sweep = "idle" /\ release # "registry"

(* The record's _release_guard, which the sweep holds from check to pop. *)
GuardFree(r) == ~(sweep = "dropping" /\ r = registry)

Goto(q, place) == pc' = [pc EXCEPT ![q] = place]

(* touch(); a record no longer filed is not looked at for its age. *)
Touch(r) == stale' = (stale /\ r # registry)

(* The request is over and lets go of the record. *)
Leave(q, place) ==
  /\ Goto(q, place) /\ ref' = [ref EXCEPT ![q] = NoRecord] /\ polls' = [polls EXCEPT ![q] = 0]

-----------------------------------------------------------------------------
(* A request.                                                              *)

(* get_or_create *)
Lookup(q) ==
  /\ pc[q] = "new" /\ RegistryFree
  /\ IF registry # NoRecord
     THEN UNCHANGED <<registry, made>>
     ELSE made < Records /\ made' = made + 1 /\ registry' = made'
  /\ ref' = [ref EXCEPT ![q] = registry'] /\ stale' = FALSE /\ Goto(q, "looked")
  /\ UNCHANGED <<slot, polls, cancelled, release, held, sweep, cleared, met>>

(* _hold_for_generation, and the touch after it. *)
HoldFor(q) ==
  /\ signal' = [signal EXCEPT ![ref[q]] = q] /\ flag' = [flag EXCEPT ![ref[q]] = TRUE]
  /\ Touch(ref[q]) /\ Goto(q, "generating")

(* try_begin_generation without waiting: the slot and its flag in one step,
   under the guard. *)
TryFree(q) ==
  /\ pc[q] = "looked" /\ GuardFree(ref[q]) /\ owner[ref[q]] = NoOne
  /\ owner' = [owner EXCEPT ![ref[q]] = q] /\ HoldFor(q)
  /\ UNCHANGED <<registry, made, ref, polls, cancelled, release, held, sweep, cleared, met>>

(* What a request does that did not get the slot: one that named the session
   looks whether its holder is cancelled, the others fork. *)
Denied(q) ==
  IF q \in Named THEN Goto(q, "waiting") /\ UNCHANGED <<ref, polls>> ELSE Leave(q, "forked")

(* Mutant: a slot a release holds is a busy slot. *)
TryDenied(q) ==
  /\ pc[q] = "looked" /\ GuardFree(ref[q]) /\ owner[ref[q]] # NoOne
  /\ met' = IF owner[ref[q]] \in Request THEN met \cup {q} ELSE met
  /\ Denied(q)
  /\ UNCHANGED <<registry, made, slot, stale, cancelled, release, held, sweep, cleared>>

(* The slot is taken: by a release, which is waited for, or by a request. *)
TryTaken(q) ==
  /\ pc[q] = "looked" /\ GuardFree(ref[q]) /\ owner[ref[q]] # NoOne
  /\ met' = IF owner[ref[q]] \in Request THEN met \cup {q} ELSE met
  /\ IF owner[ref[q]] = "release" THEN Goto(q, "awaiting") /\ UNCHANGED <<ref, polls>> ELSE Denied(q)
  /\ UNCHANGED <<registry, made, slot, stale, cancelled, release, held, sweep, cleared>>

(* Mutant: an acquire that succeeds at its deadline is taken for a failure. *)
AcquireIgnored(q) ==
  /\ pc[q] \in {"awaiting", "polling"} /\ owner[ref[q]] = NoOne
  /\ owner' = [owner EXCEPT ![ref[q]] = q] /\ Goto(q, "waiting")
  /\ UNCHANGED <<registry, made, flag, signal, stale, ref, polls, cancelled, release, held,
                 sweep, cleared, met>>

(* A waiting acquire: the slot first, without the guard, the flag later. *)
Acquire(q) ==
  /\ pc[q] \in {"awaiting", "polling"} /\ owner[ref[q]] = NoOne
  /\ owner' = [owner EXCEPT ![ref[q]] = q] /\ Goto(q, "taken")
  /\ UNCHANGED <<registry, made, flag, signal, stale, ref, polls, cancelled, release, held,
                 sweep, cleared, met>>

AwaitTimeout(q) ==
  /\ pc[q] = "awaiting" /\ Denied(q) /\ met' = met \cup {q}
  /\ UNCHANGED <<registry, made, slot, stale, cancelled, release, held, sweep, cleared>>

Hold(q) ==
  /\ pc[q] = "taken" /\ GuardFree(ref[q]) /\ HoldFor(q)
  /\ UNCHANGED <<registry, made, owner, ref, polls, cancelled, release, held, sweep, cleared, met>>

(* holder_cancel_requested *)
HolderCancelled(r) == signal[r] \in cancelled

(* wait_for_cancelled_holder: refused at once unless the holder's signal is
   set, then when its own is, then at the deadline. *)
Refuse(q) ==
  /\ pc[q] = "waiting" /\ Leave(q, "busy")
  /\ ~HolderCancelled(ref[q]) \/ q \in cancelled \/ polls[q] = Polls
  /\ UNCHANGED <<registry, made, slot, stale, cancelled, release, held, sweep, cleared, met>>

Poll(q) ==
  /\ pc[q] = "waiting" /\ HolderCancelled(ref[q]) /\ q \notin cancelled /\ polls[q] < Polls
  /\ polls' = [polls EXCEPT ![q] = @ + 1] /\ Goto(q, "polling")
  /\ UNCHANGED <<registry, made, slot, stale, ref, cancelled, release, held, sweep, cleared, met>>

PollTimeout(q) ==
  /\ pc[q] = "polling" /\ Goto(q, "waiting")
  /\ UNCHANGED <<registry, made, slot, stale, ref, polls, cancelled, release, held, sweep,
                 cleared, met>>

(* end_generation, without the guard: the flag, then the lock. *)
Unflag(q) ==
  /\ pc[q] = "generating" /\ Goto(q, "ending")
  /\ flag' = [flag EXCEPT ![ref[q]] = FALSE] /\ Touch(ref[q])
  /\ UNCHANGED <<registry, made, owner, signal, ref, polls, cancelled, release, held, sweep,
                 cleared, met>>

GiveBack(q) ==
  /\ pc[q] = "ending" /\ Leave(q, "done")
  /\ owner' = [owner EXCEPT ![ref[q]] = NoOne]
  /\ UNCHANGED <<registry, made, flag, signal, stale, cancelled, release, held, sweep,
                 cleared, met>>

(* The user presses Stop. *)
Stop(q) ==
  /\ pc[q] \notin {"done", "busy", "forked"} /\ cancelled' = cancelled \cup {q} /\ q \notin cancelled
  /\ UNCHANGED <<registry, made, slot, stale, request, release, held, sweep, cleared, met>>

-----------------------------------------------------------------------------
(* release_idle_sessions, for this session: hold(), the eviction of its    *)
(* entries, and the releaser.                                              *)

ReleaseLook ==
  /\ release = "idle" /\ RegistryFree
  /\ release' = IF registry = NoRecord THEN "registry" ELSE "looked"
  /\ held' = registry
  /\ UNCHANGED <<registry, made, slot, stale, request, cancelled, sweep, cleared, met>>

(* begin_release_hold: one step under the guard, or the session is busy. *)
ReleaseHold ==
  /\ release = "looked" /\ GuardFree(held) /\ owner[held] = NoOne
  /\ owner' = [owner EXCEPT ![held] = "release"] /\ flag' = [flag EXCEPT ![held] = TRUE]
  /\ release' = "holding"
  /\ UNCHANGED <<registry, made, signal, stale, request, cancelled, held, sweep, cleared, met>>

ReleaseSkip ==
  /\ release = "looked" /\ GuardFree(held) /\ owner[held] # NoOne
  /\ release' = "idle" /\ held' = NoRecord
  /\ UNCHANGED <<registry, made, slot, stale, request, cancelled, sweep, cleared, met>>

(* Mutant: aborting the session's postcommit raises, and the hold stays. *)
ReleaseLeaks ==
  /\ release = "holding"
  /\ \/ /\ GuardFree(held)
        /\ owner' = [owner EXCEPT ![held] = NoOne] /\ flag' = [flag EXCEPT ![held] = FALSE]
     \/ UNCHANGED <<owner, flag>>
  /\ release' = "idle" /\ held' = NoRecord
  /\ UNCHANGED <<registry, made, signal, stale, request, cancelled, sweep, cleared, met>>

(* end_release_hold, after the eviction or when aborting the session's
   pending postcommit raised. *)
ReleaseEnd ==
  /\ release = "holding" /\ GuardFree(held)
  /\ owner' = [owner EXCEPT ![held] = NoOne] /\ flag' = [flag EXCEPT ![held] = FALSE]
  /\ release' = "idle" /\ held' = NoRecord
  /\ UNCHANGED <<registry, made, signal, stale, request, cancelled, sweep, cleared, met>>

ReleaseRegistry ==
  /\ release = "registry" /\ release' = "idle"
  /\ UNCHANGED <<registry, made, slot, stale, request, cancelled, held, sweep, cleared, met>>

-----------------------------------------------------------------------------
(* Records age and are dropped.                                            *)

PreSlot == {"looked", "awaiting", "waiting", "polling"}
Owning == {"taken", "generating", "ending"}

(* The TTL, an hour, passes.  A request gets from its lookup to the slot, or
   is refused, well within it. *)
Age ==
  /\ registry # NoRecord /\ ~stale
  /\ \A q \in Request : ref[q] = registry => pc[q] \notin PreSlot
  /\ stale' = TRUE
  /\ UNCHANGED <<registry, made, slot, request, cancelled, release, held, sweep, cleared, met>>

(* Mutant: a slot whose flag has not landed yet counts as free. *)
FlaggedOnly(r) == flag[r]

(* slot_in_use *)
InUse(r) == flag[r] \/ owner[r] # NoOne

SweepCheck ==
  /\ RegistryFree /\ stale /\ ~InUse(registry)
  /\ sweep' = "dropping"
  /\ UNCHANGED <<registry, made, slot, stale, request, cancelled, release, held, cleared, met>>

SweepDrop ==
  /\ sweep = "dropping" /\ sweep' = "idle" /\ registry' = NoRecord /\ stale' = FALSE
  /\ UNCHANGED <<made, slot, request, cancelled, release, held, cleared, met>>

(* clear_session and clear_all: whoever holds the slot. *)
Clear ==
  /\ Clearing /\ RegistryFree /\ registry # NoRecord
  /\ registry' = NoRecord /\ cleared' = cleared \cup {registry} /\ stale' = FALSE
  /\ UNCHANGED <<made, slot, request, cancelled, release, held, sweep, met>>

-----------------------------------------------------------------------------
Step(q) ==
  \/ Lookup(q) \/ TryFree(q) \/ TryTaken(q) \/ Acquire(q) \/ AwaitTimeout(q) \/ Hold(q)
  \/ Refuse(q) \/ Poll(q) \/ PollTimeout(q) \/ Unflag(q) \/ GiveBack(q)

Release == ReleaseLook \/ ReleaseHold \/ ReleaseSkip \/ ReleaseEnd \/ ReleaseRegistry
Sweep == SweepCheck \/ SweepDrop

Next ==
  \/ \E q \in Request : Step(q) \/ Stop(q)
  \/ Release \/ Sweep \/ Clear \/ Age

Spec == Init /\ [][Next]_vars

(* Every thread runs on, a generation ends, and a release evicts its entries
   and gives the slot back; nobody need come, stop a request or clear. *)
Fairness ==
  /\ \A q \in Request : WF_vars(Step(q) /\ pc[q] # "new")
  /\ WF_vars(release # "idle" /\ Release) /\ WF_vars(SweepDrop)

FairSpec == Spec /\ Fairness

-----------------------------------------------------------------------------
Places == {"new", "done", "busy", "forked"} \cup PreSlot \cup Owning

Types ==
  /\ registry \in Record \cup {NoRecord} /\ made \in 0..Records /\ stale \in BOOLEAN
  /\ owner \in [Record -> Request \cup {"release", NoOne}] /\ flag \in [Record -> BOOLEAN]
  /\ signal \in [Record -> Request \cup {NoOne}]
  /\ pc \in [Request -> Places] /\ ref \in [Request -> Record \cup {NoRecord}]
  /\ polls \in [Request -> 0..Polls] /\ cancelled \subseteq Request
  /\ release \in {"idle", "looked", "holding", "registry"} /\ held \in Record \cup {NoRecord}
  /\ sweep \in {"idle", "dropping"} /\ cleared \subseteq Record /\ met \subseteq Request

Ownership ==
  \A q \in Request : \A r \in Record : (owner[r] = q) = (pc[q] \in Owning /\ ref[q] = r)

(* Type correctness; and a request owns the slot of the record it looked up
   exactly while it is between its acquire and its end_generation. *)
TypeOK == Types /\ Ownership

(* A generation's record is in flight. *)
FlaggedWhileGenerating == \A q \in Request : pc[q] = "generating" => flag[ref[q]]

(* Two generations of one session never hold a slot at once, clears aside:
   whatever the sweep finds stale, it drops no record a request owns, by an
   acquire under the guard or by a waiting one whose flag has yet to land.
   And a generation's record is in flight until the generation itself ends,
   for the admin view and the memory release to see: no handover lets the end
   of one holder clear the flag of the next. *)
OneGeneration ==
  /\ \A r1, r2 \in Record \ cleared :
       owner[r1] \in Request /\ owner[r2] \in Request => r1 = r2
  /\ FlaggedWhileGenerating

(* "Never a busy refusal" because of a release: a request refused was kept
   out by another generation, or by a release that outlasted its wait. *)
RefusedByAGeneration == \A q \in Request : pc[q] \in {"busy", "forked"} => q \in met

(* "Held, no request can restore from the session's entries while they are
   evicted": the release and a generation of the session exclude each other. *)
ReleaseExcludesGeneration ==
  release = "holding" => \A q \in Request : pc[q] # "generating"

(* Whoever takes the slot, a release that fails included, gives it back. *)
SlotComesBack == \A r \in Record : owner[r] # NoOne ~> owner[r] = NoOne
-----------------------------------------------------------------------------
(* The inductive invariant behind them.                                    *)

(* A request between its lookup and its end has a record that was made, the
   one filed unless it was cleared; records are numbered as they are made. *)
LiveRecords ==
  /\ registry <= made /\ \A r \in cleared : r <= made
  /\ \A q \in Request : pc[q] \in PreSlot \cup Owning =>
       /\ ref[q] \in Record /\ ref[q] <= made
       /\ ref[q] \notin cleared => ref[q] = registry

(* A stale record is filed and on no request's way to its slot; while the
   sweep is between its check and its pop, nobody owns it either. *)
StaleIsIdle ==
  /\ stale => /\ registry # NoRecord
              /\ \A q \in Request : ref[q] = registry => pc[q] \notin PreSlot
  /\ sweep = "dropping" => stale /\ owner[registry] = NoOne

(* A release that holds a slot owns it. *)
ReleaseOwns ==
  /\ release \in {"looked", "holding"} => held \in Record
  /\ release = "holding" => owner[held] = "release"

(* Whoever waits for a holder has met one. *)
WaitersMet ==
  \A q \in Request : pc[q] \in {"waiting", "polling", "busy", "forked"} => q \in met

IInv ==
  /\ TypeOK /\ LiveRecords /\ StaleIsIdle
  /\ ReleaseOwns /\ FlaggedWhileGenerating /\ WaitersMet
=============================================================================
