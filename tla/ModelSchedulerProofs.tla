------------------------ MODULE ModelSchedulerProofs ------------------------
(***************************************************************************)
(* Theorems about ModelScheduler, for any sets of work items, any budget   *)
(* and any graces.                                                         *)
(***************************************************************************)
EXTENDS ModelScheduler, FiniteSetTheorems, TLAPS

-----------------------------------------------------------------------------
(* Lemmas about the operators of the model.                                *)

(* A nonempty set of naturals has a least element. *)
LEMMA LeastExists ==
  ASSUME NEW S, S \subseteq Nat, S # {}
  PROVE  \E m \in S : \A n \in S : m <= n
<1> DEFINE T == {0..n : n \in S}
           R == StrictSubsetOrdering(Nat)
<1>1. T \subseteq FiniteSubsetsOf(Nat) /\ T # {}
  <2>1. \A n \in Nat : 0..n \subseteq Nat /\ IsFiniteSet(0..n)
    BY FS_Interval
  <2> QED BY <2>1 DEF FiniteSubsetsOf
<1>2. IsWellFoundedOn(R, FiniteSubsetsOf(Nat))
  BY FS_StrictSubsetOrderingWellFounded
<1> HIDE DEF T, R
<1>3. PICK x \in T : \A y \in T : <<y, x>> \notin R
  BY <1>1, <1>2, WFMin
<1>4. PICK m \in S : x = 0..m
  BY DEF T
<1>5. ASSUME NEW n \in S, n < m PROVE FALSE
  <2>1. 0..n \subseteq 0..m /\ 0..n # 0..m
    <3>1. m \in 0..m /\ m \notin 0..n
      BY <1>5
    <3>2. 0..n \subseteq 0..m
      BY <1>5
    <3> QED BY <3>1, <3>2
  <2>2. <<0..n, 0..m>> \in R
    <3>1. 0..n \in SUBSET Nat /\ 0..m \in SUBSET Nat
      OBVIOUS
    <3> QED BY <2>1, <3>1 DEF R, StrictSubsetOrdering
  <2>3. 0..n \in T
    BY DEF T
  <2> QED BY <1>3, <1>4, <2>2, <2>3
<1> QED BY <1>5

(* The head of a nonempty deque is in it, and nothing in it is older. *)
LEMMA OldestIsHead ==
  ASSUME TypeOK, NEW q, q \subseteq Items, q # {}
  PROVE  Oldest(q) \in q /\ \A j \in q : seq[Oldest(q)] <= seq[j]
<1> DEFINE S == {seq[i] : i \in q}
<1>1. S \subseteq Nat /\ S # {}
  BY DEF TypeOK
<1>2. PICK m \in S : \A n \in S : m <= n
  <2> HIDE DEF S
  <2> QED BY <1>1, LeastExists
<1>3. PICK i \in q : m = seq[i]
  OBVIOUS
<1>4. \E k \in q : \A j \in q : seq[k] <= seq[j]
  BY <1>2, <1>3
<1> QED BY <1>4 DEF Oldest

(* Min picks a member of a nonempty set of naturals. *)
LEMMA MinIsMember ==
  ASSUME NEW S, S \subseteq Nat, S # {}
  PROVE  Min(S) \in S
BY LeastExists DEF Min

LEMMA MaxOfTwo ==
  ASSUME NEW a \in Nat, NEW b \in Nat
  PROVE  Max({a, b}) \in Nat /\ Max({a, b}) >= a
<1>1. \E x \in {a, b} : \A y \in {a, b} : x >= y
  OBVIOUS
<1> QED BY <1>1 DEF Max

(* The budget never drops the job it is making room for. *)
LEMMA BudgetKeepsNewest ==
  ASSUME NEW q, NEW keep
  PROVE  OverBudget(q, keep) \subseteq q \ {keep}
BY DEF OverBudget

-----------------------------------------------------------------------------
(* The inductive invariant.                                                *)

LEMMA InitIInv == Init => IInv
<1> SUFFICES ASSUME Init PROVE IInv
  OBVIOUS
<1>1. TypeOK
  BY NumbersAssumption DEF Init, TypeOK, Items, Clocks
<1>2. NoLostWork /\ NewestWins
  BY DEF Init, NoLostWork, NewestWins, Queued
<1>3. OwnerBookkeeping
  BY DEF Init, OwnerBookkeeping
<1>4. Numbered
  BY DEF Init, Numbered
<1>5. ForegroundBehind
  BY DEF Init, ForegroundBehind, Items
<1> QED BY <1>1, <1>2, <1>3, <1>4, <1>5 DEF IInv

(* Type correctness is preserved by every step. *)
LEMMA TypeStep ==
  ASSUME TypeOK, OwnerBookkeeping, [Next]_vars
  PROVE  TypeOK'
<1> USE DEF TypeOK, queues, submitted, beatVars, ownerVars, Items
<1>1. ASSUME NEW i \in Items, SubmitRefused(i) PROVE TypeOK'
  BY <1>1 DEF SubmitRefused
<1>2. ASSUME NEW i \in Items, SubmitForeground(i) PROVE TypeOK'
  BY <1>2 DEF SubmitForeground, Admit, Notify
<1>3. ASSUME NEW i \in Items, SubmitIdlePostcommit(i) PROVE TypeOK'
  BY <1>3, NumbersAssumption DEF SubmitIdlePostcommit, Admit, Notify
<1>4. ASSUME NEW i \in Items, SubmitIdlePersistence(i) PROVE TypeOK'
  <2>1. persistence' \subseteq Persistence
    BY <1>4, BudgetKeepsNewest DEF SubmitIdlePersistence, Superseded
  <2>2. future' \in [Items -> {"new", "refused", "pending", "cancelled", "running", "finished"}]
    BY <1>4 DEF SubmitIdlePersistence, Superseded, CancelAll
  <2>3. due' \in [Items -> Nat]
    BY <1>4, NumbersAssumption DEF SubmitIdlePersistence, Superseded
  <2> QED BY <1>4, <2>1, <2>2, <2>3 DEF SubmitIdlePersistence, Superseded, Admit, Notify
<1>5. ASSUME NEW i \in Items, CancelFuture(i) PROVE TypeOK'
  BY <1>5 DEF CancelFuture
<1>6. ASSUME NEW i \in Items, BankReleases(i) PROVE TypeOK'
  BY <1>6 DEF BankReleases
<1>7. ASSUME NEW k, CancelIdlePersistence(k) PROVE TypeOK'
  BY <1>7 DEF CancelIdlePersistence, CancelAll, Notify
<1>8. ASSUME NEW b \in PumpBudgets, PumpPersistence(b) PROVE TypeOK'
  <2>1. Min({b, PumpCap}) \in Nat
    BY NumbersAssumption, MinIsMember DEF PumpCap
  <2>2. pumpBudget' \in Nat
    BY <1>8, <2>1, MaxOfTwo DEF PumpPersistence
  <2> QED BY <1>8, <2>2 DEF PumpPersistence, Notify
<1>9. ASSUME ArmIdleKeepalive \/ DisarmIdleKeepalive PROVE TypeOK'
  <2>1. CASE ArmIdleKeepalive
    BY <2>1, NumbersAssumption DEF ArmIdleKeepalive, Notify, Clocks
  <2>2. CASE DisarmIdleKeepalive
    BY <2>2 DEF DisarmIdleKeepalive, Notify
  <2> QED BY <1>9, <2>1, <2>2
<1>10. ASSUME NEW c \in BOOLEAN, Shutdown(c) PROVE TypeOK'
  BY <1>10 DEF Shutdown, CancelAll, Notify
<1>11. ASSUME TakeNext PROVE TypeOK'
  <2>1. CASE TakeForeground
    BY <2>1, OldestIsHead DEF TakeForeground, Take
  <2>2. CASE TakeIdle
    BY <2>2, OldestIsHead DEF TakeIdle, IdleDue, Take
  <2>3. CASE TakePersistence
    BY <2>3, OldestIsHead DEF TakePersistence, PersistenceDue, PersistenceReachable, Take
  <2>4. CASE Exit \/ TakeKeepalive \/ TakeOwnerIdle
    BY <2>4 DEF Exit, TakeKeepalive, TakeOwnerIdle
  <2>5. CASE Wait
    <3>1. Deadlines # {} => Min(Deadlines) \in Nat
      <4>1. PersistenceReachable => PersistenceReadyIn \in Nat
        BY OldestIsHead, MaxOfTwo DEF PersistenceReachable, PersistenceReadyIn, Clocks
      <4>2. idle # {} => due[Oldest(idle)] \in Nat
        BY OldestIsHead
      <4>3. Deadlines \subseteq Nat
        BY <4>1, <4>2 DEF Deadlines, Clocks
      <4> QED BY <4>3, MinIsMember
    <3> QED BY <2>5, <3>1 DEF Wait, Clocks
  <2> QED BY <1>11, <2>1, <2>2, <2>3, <2>4, <2>5 DEF TakeNext
<1>12. ASSUME WaitTimesOut \/ SkipCancelled \/ StartItem \/ PublishActive \/ FinishItem
       PROVE  TypeOK'
  BY <1>12 DEF WaitTimesOut, SkipCancelled, StartItem, PublishActive, FinishItem, OwnerOnly,
       OwnerBookkeeping, Kind
<1>13. ASSUME RecordCompletion PROVE TypeOK'
  BY <1>13, NumbersAssumption DEF RecordCompletion, OwnerOnly, Clocks
<1>14. ASSUME StartBeat \/ RunOwnerIdle PROVE TypeOK'
  BY <1>14 DEF StartBeat, RunOwnerIdle, OwnerOnly
<1>15. ASSUME NEW ok \in BOOLEAN, FinishBeat(ok) PROVE TypeOK'
  BY <1>15, NumbersAssumption DEF FinishBeat, OwnerOnly, Clocks
<1>16. ASSUME Tick PROVE TypeOK'
  BY <1>16 DEF Tick, Down, Clocks
<1>17. ASSUME UNCHANGED vars PROVE TypeOK'
  BY <1>17 DEF vars
<1> QED
  BY <1>1, <1>2, <1>3, <1>4, <1>5, <1>6, <1>7, <1>8, <1>9, <1>10, <1>11, <1>12, <1>13, <1>14,
     <1>15, <1>16, <1>17 DEF Next, Callers, Owner

(* A step that leaves the futures, the deques and the sequence numbers alone
   and does not move the owner thread between the places where it holds an
   item. *)
Holding == {"taken", "claimed", "running", "recording"}

LEMMA QuietStep ==
  ASSUME IInv,
         UNCHANGED <<future, seq, sequence, foreground, idle, persistence, item>>,
         pc \in Holding => pc' = pc,
         pc \notin Holding => pc' \notin Holding,
         pc' = "exited" => shutdown' /\ NothingQueued,
         pc' \in {"take_next", "waiting", "parked", "taken", "claimed", "running",
                  "recording", "keepalive", "beating", "owner_idle", "exited"}
  PROVE  /\ NoLostWork' /\ NewestWins' /\ OwnerBookkeeping' /\ Numbered' /\ ForegroundBehind'
<1> USE DEF Holding
<1>1. NoLostWork'
  BY DEF IInv, NoLostWork, Queued
<1>2. NewestWins' /\ Numbered' /\ ForegroundBehind'
  BY DEF IInv, NewestWins, SameKey, Numbered, ForegroundBehind
<1>3. OwnerBookkeeping'
  BY DEF IInv, OwnerBookkeeping, NothingQueued, TypeOK
<1> QED BY <1>1, <1>2, <1>3

(* The steps of that kind. *)
LEMMA QuietActions ==
  ASSUME IInv,
         \/ (\E i \in Items : BankReleases(i)) \/ (\E b \in PumpBudgets : PumpPersistence(b))
         \/ ArmIdleKeepalive \/ DisarmIdleKeepalive \/ Shutdown(FALSE)
         \/ Exit \/ TakeKeepalive \/ TakeOwnerIdle \/ Wait \/ WaitTimesOut
         \/ StartBeat \/ (\E ok \in BOOLEAN : FinishBeat(ok)) \/ RunOwnerIdle
         \/ Tick \/ UNCHANGED vars
  PROVE  /\ NoLostWork' /\ NewestWins' /\ OwnerBookkeeping' /\ Numbered' /\ ForegroundBehind'
<1> USE DEF Holding, queues, submitted, ownerVars
<1>1. /\ UNCHANGED <<future, seq, sequence, foreground, idle, persistence, item>>
      /\ pc \in Holding => pc' = pc
      /\ pc \notin Holding => pc' \notin Holding
  BY DEF BankReleases, PumpPersistence, ArmIdleKeepalive, DisarmIdleKeepalive, Shutdown, Exit,
         TakeKeepalive, TakeOwnerIdle, Wait, WaitTimesOut, StartBeat, FinishBeat, RunOwnerIdle,
         Tick, OwnerOnly, Notify, vars
<1>2. pc' = "exited" => shutdown' /\ NothingQueued
  BY DEF BankReleases, PumpPersistence, ArmIdleKeepalive, DisarmIdleKeepalive, Shutdown, Exit,
         TakeKeepalive, TakeOwnerIdle, Wait, WaitTimesOut, StartBeat, FinishBeat, RunOwnerIdle,
         Tick, OwnerOnly, Notify, vars, IInv, OwnerBookkeeping, MayExit
<1>3. pc' \in {"take_next", "waiting", "parked", "taken", "claimed", "running",
               "recording", "keepalive", "beating", "owner_idle", "exited"}
  BY DEF BankReleases, PumpPersistence, ArmIdleKeepalive, DisarmIdleKeepalive, Shutdown, Exit,
         TakeKeepalive, TakeOwnerIdle, Wait, WaitTimesOut, StartBeat, FinishBeat, RunOwnerIdle,
         Tick, OwnerOnly, Notify, vars, IInv, TypeOK
<1> QED BY <1>1, <1>2, <1>3, QuietStep

(* Submissions. *)
LEMMA SubmitStep ==
  ASSUME IInv, TypeOK', NEW i \in Items,
         SubmitRefused(i) \/ SubmitForeground(i) \/ SubmitIdlePostcommit(i)
  PROVE  /\ NoLostWork' /\ NewestWins' /\ OwnerBookkeeping' /\ Numbered' /\ ForegroundBehind'
<1> USE DEF queues, ownerVars
<1>1. CASE SubmitRefused(i)
  <2> USE <1>1 DEF SubmitRefused
  <2>1. NoLostWork' BY DEF IInv, TypeOK, NoLostWork, Queued
  <2>2. NewestWins' BY DEF IInv, NewestWins, SameKey
  <2>3. OwnerBookkeeping' BY DEF IInv, TypeOK, OwnerBookkeeping, NothingQueued
  <2>4. Numbered' BY DEF IInv, TypeOK, Numbered
  <2>5. ForegroundBehind' BY DEF IInv, TypeOK, ForegroundBehind, Numbered
  <2> QED BY <2>1, <2>2, <2>3, <2>4, <2>5
<1>2. ASSUME Admit(i), future' = [future EXCEPT ![i] = "pending"],
             \/ i \in Foreground /\ foreground' = foreground \cup {i} /\ UNCHANGED <<idle, persistence>>
             \/ i \in Postcommit /\ idle' = idle \cup {i} /\ UNCHANGED <<foreground, persistence>>
      PROVE  /\ NoLostWork' /\ NewestWins' /\ OwnerBookkeeping' /\ Numbered' /\ ForegroundBehind'
  <2> USE <1>2 DEF Admit, Notify
  <2>0. item # i
    BY BandsAssumption DEF IInv, OwnerBookkeeping, TypeOK
  <2>1. NoLostWork' BY <2>0 DEF IInv, TypeOK, NoLostWork, Queued
  <2>2. NewestWins'
    BY BandsAssumption DEF IInv, TypeOK, NewestWins, SameKey, Items
  <2>3. OwnerBookkeeping' BY <2>0 DEF IInv, TypeOK, OwnerBookkeeping, NothingQueued
  <2>4. Numbered' BY DEF IInv, TypeOK, Numbered
  <2>5. ForegroundBehind'
    BY BandsAssumption DEF IInv, TypeOK, ForegroundBehind, Numbered, Items
  <2> QED BY <2>1, <2>2, <2>3, <2>4, <2>5
<1>3. CASE SubmitForeground(i)
  BY <1>2, <1>3 DEF SubmitForeground
<1>4. CASE SubmitIdlePostcommit(i)
  BY <1>2, <1>4 DEF SubmitIdlePostcommit
<1> QED BY <1>1, <1>3, <1>4

(* Submission of a persistence job: what it supersedes and what the budget
   drops leave the deque with their futures resolved. *)
LEMMA SubmitPersistenceStep ==
  ASSUME IInv, TypeOK', NEW i \in Items, SubmitIdlePersistence(i)
  PROVE  /\ NoLostWork' /\ NewestWins' /\ OwnerBookkeeping' /\ Numbered' /\ ForegroundBehind'
<1> DEFINE stale == {j \in persistence : SameKey(i, j)}
           queue == (persistence \ stale) \cup {i}
           gone == stale \cup OverBudget(queue, i)
<1>1. /\ Admit(i) /\ i \in Persistence
      /\ persistence' = (persistence \cup {i}) \ gone
      /\ i \notin gone /\ gone \subseteq persistence
      /\ \A j \in persistence : SameKey(i, j) => j \in gone
      /\ future' = [j \in Items |-> IF j = i THEN "pending"
                                    ELSE IF j \in gone THEN "cancelled" ELSE future[j]]
      /\ UNCHANGED <<foreground, idle>>
  <2>1. future[i] = "new" /\ i \notin persistence
    BY DEF SubmitIdlePersistence, Superseded, Admit, IInv, NoLostWork, Queued, TypeOK
  <2>2. OverBudget(queue, i) \subseteq queue \ {i}
    BY BudgetKeepsNewest
  <2> HIDE DEF stale
  <2>3. stale \subseteq persistence /\ i \notin stale
    BY <2>1 DEF stale
  <2>4. \A j \in persistence : SameKey(i, j) => j \in gone
    BY DEF stale
  <2>5. persistence' = queue \ OverBudget(queue, i)
    BY DEF SubmitIdlePersistence, Superseded, stale
  <2>6. future' = [CancelAll(stale \cup OverBudget(queue, i)) EXCEPT ![i] = "pending"]
    BY DEF SubmitIdlePersistence, Superseded, stale
  <2>7. future' = [j \in Items |-> IF j = i THEN "pending"
                                    ELSE IF j \in gone THEN "cancelled" ELSE future[j]]
    BY <2>6, <2>3, <2>2 DEF CancelAll
  <2>8. i \notin gone /\ gone \subseteq persistence
    BY <2>2, <2>3
  <2>9. queue \ OverBudget(queue, i) = (persistence \cup {i}) \ gone
    BY <2>2, <2>3
  <2>10. Admit(i) /\ i \in Persistence /\ UNCHANGED <<foreground, idle>>
    BY DEF SubmitIdlePersistence
  <2> HIDE DEF gone, queue
  <2> QED BY <2>4, <2>5, <2>7, <2>8, <2>9, <2>10
<1> HIDE DEF gone
<1> USE <1>1 DEF Admit, Notify
<1>2. item # i /\ seq[i] = 0
  BY BandsAssumption DEF IInv, OwnerBookkeeping, TypeOK, Numbered
<1>3. item \notin gone
  BY DEF IInv, NoLostWork, TypeOK, Queued, Items
<1>4. NoLostWork'
  BY <1>2 DEF IInv, TypeOK, NoLostWork, Queued
<1>5. NewestWins'
  BY <1>2 DEF IInv, TypeOK, NewestWins, SameKey, Numbered, Items
<1>6. OwnerBookkeeping'
  BY <1>2, <1>3 DEF IInv, TypeOK, OwnerBookkeeping, NothingQueued
<1>7. Numbered'
  <2>1. \A j \in gone : future[j] \notin {"new", "refused"}
    BY DEF IInv, NoLostWork, Queued, TypeOK, Items
  <2> QED BY <1>2, <2>1 DEF IInv, TypeOK, Numbered
<1>8. ForegroundBehind'
  BY <1>2, BandsAssumption DEF IInv, TypeOK, ForegroundBehind, Numbered, Items
<1> QED BY <1>4, <1>5, <1>6, <1>7, <1>8

(* Cancels: by key, by the holder of a future, and by shutdown. *)
LEMMA CancelStep ==
  ASSUME IInv, TypeOK',
         NEW gone, gone \subseteq Queued,
         future' = CancelAll(gone),
         foreground' = foreground \ gone, idle' = idle \ gone,
         persistence' = persistence \ gone,
         gone \cap Foreground \in {{}, foreground},
         UNCHANGED <<seq, sequence, item>>, shutdown => shutdown', Notify
  PROVE  /\ NoLostWork' /\ NewestWins' /\ OwnerBookkeeping' /\ Numbered' /\ ForegroundBehind'
<1> USE DEF CancelAll, Notify
<1>1. item \notin gone /\ gone \subseteq Items
  BY DEF IInv, NoLostWork, TypeOK, Queued, Items
<1>2. NoLostWork'
  BY <1>1 DEF IInv, TypeOK, NoLostWork, Queued
<1>3. NewestWins'
  BY DEF IInv, TypeOK, NewestWins, SameKey
<1>4. OwnerBookkeeping'
  BY <1>1 DEF IInv, TypeOK, OwnerBookkeeping, NothingQueued
<1>5. Numbered'
  <2>1. \A j \in gone : future[j] \notin {"new", "refused"}
    BY <1>1 DEF IInv, NoLostWork
  <2> QED BY <1>1, <2>1 DEF IInv, TypeOK, Numbered
<1>6. ForegroundBehind'
  <2>1. ASSUME NEW i \in Foreground, NEW j \in Foreground,
               0 < seq[i], seq[i] < seq[j], future'[i] \in {"pending", "running"}
        PROVE  j \in foreground' \/ future'[j] = "cancelled"
    <3>1. i \notin gone /\ future[i] \in {"pending", "running"}
      BY <2>1, <1>1 DEF IInv, TypeOK, Items
    <3>2. j \in foreground \/ future[j] = "cancelled"
      BY <2>1, <3>1 DEF IInv, ForegroundBehind
    <3> QED BY <3>2 DEF Items, IInv, TypeOK
  <2> QED BY <2>1 DEF ForegroundBehind
<1> QED BY <1>2, <1>3, <1>4, <1>5, <1>6

LEMMA CancelActions ==
  ASSUME IInv, TypeOK',
         \/ \E k : CancelIdlePersistence(k)
         \/ \E i \in Items : CancelFuture(i)
         \/ Shutdown(TRUE)
  PROVE  /\ NoLostWork' /\ NewestWins' /\ OwnerBookkeeping' /\ Numbered' /\ ForegroundBehind'
<1>0. foreground \subseteq Foreground /\ idle \subseteq Postcommit /\ persistence \subseteq Persistence
  BY DEF IInv, TypeOK
<1>1. ASSUME NEW k, CancelIdlePersistence(k)
      PROVE  /\ NoLostWork' /\ NewestWins' /\ OwnerBookkeeping' /\ Numbered' /\ ForegroundBehind'
  <2> DEFINE gone == {j \in persistence : CoalesceKey[j] = k}
  <2>1. /\ gone \subseteq Queued
        /\ future' = CancelAll(gone)
        /\ foreground' = foreground \ gone /\ idle' = idle \ gone
        /\ persistence' = persistence \ gone
        /\ gone \cap Foreground = {}
        /\ UNCHANGED <<seq, sequence, item, shutdown>> /\ Notify
    BY <1>0, <1>1, BandsAssumption DEF CancelIdlePersistence, Queued
  <2> HIDE DEF gone
  <2> QED BY <2>1, CancelStep
<1>2. CASE Shutdown(TRUE)
  <2>1. /\ future' = CancelAll(Queued)
        /\ foreground' = foreground \ Queued /\ idle' = idle \ Queued
        /\ persistence' = persistence \ Queued
        /\ Queued \cap Foreground = foreground
        /\ UNCHANGED <<seq, sequence, item>> /\ (shutdown => shutdown') /\ Notify
    BY <1>0, <1>2, BandsAssumption DEF Shutdown, Queued
  <2> QED BY <2>1, CancelStep
<1>3. ASSUME NEW i \in Items, CancelFuture(i)
      PROVE  /\ NoLostWork' /\ NewestWins' /\ OwnerBookkeeping' /\ Numbered' /\ ForegroundBehind'
  <2> USE <1>3 DEF CancelFuture, queues, ownerVars
  <2>1. NoLostWork' BY DEF IInv, TypeOK, NoLostWork, Queued
  <2>2. NewestWins' BY DEF IInv, TypeOK, NewestWins, SameKey
  <2>3. OwnerBookkeeping' BY DEF IInv, TypeOK, OwnerBookkeeping, NothingQueued
  <2>4. Numbered' BY DEF IInv, TypeOK, Numbered
  <2>5. ForegroundBehind' BY DEF IInv, TypeOK, ForegroundBehind, Items
  <2> QED BY <2>1, <2>2, <2>3, <2>4, <2>5
<1> QED BY <1>1, <1>2, <1>3

(* The owner thread takes the head of a deque. *)
LEMMA TakeStep ==
  ASSUME IInv, TypeOK', TakeForeground \/ TakeIdle \/ TakePersistence
  PROVE  /\ NoLostWork' /\ NewestWins' /\ OwnerBookkeeping' /\ Numbered' /\ ForegroundBehind'
<1>1. PICK i \in Queued :
        /\ pc = "take_next" /\ pc' = "taken" /\ item' = i
        /\ UNCHANGED <<future, seq, sequence, shutdown>>
        /\ foreground' = foreground \ {i} /\ idle' = idle \ {i}
        /\ persistence' = persistence \ {i}
        /\ i \in foreground => \A j \in foreground : seq[i] <= seq[j]
  <2> USE DEF Take, submitted, Queued
  <2>0. /\ foreground \subseteq Items /\ idle \subseteq Items /\ persistence \subseteq Items
        /\ foreground \cap idle = {} /\ foreground \cap persistence = {}
        /\ idle \cap persistence = {}
    BY BandsAssumption DEF IInv, TypeOK, Items
  <2>1. CASE TakeForeground
    BY <2>0, <2>1, OldestIsHead DEF TakeForeground, IInv
  <2>2. CASE TakeIdle
    BY <2>0, <2>2, OldestIsHead DEF TakeIdle, IdleDue, IInv
  <2>3. CASE TakePersistence
    BY <2>0, <2>3, OldestIsHead DEF TakePersistence, PersistenceDue, PersistenceReachable, IInv
  <2> QED BY <2>1, <2>2, <2>3
<1>2. i \in Items /\ item = NoItem
  BY <1>1 DEF Queued, IInv, TypeOK, Items, OwnerBookkeeping
<1>3. NoLostWork'
  BY <1>1, <1>2, BandsAssumption DEF IInv, TypeOK, NoLostWork, Queued
<1>4. NewestWins'
  BY <1>1 DEF IInv, TypeOK, NewestWins, SameKey
<1>5. OwnerBookkeeping'
  BY <1>1, <1>2, BandsAssumption DEF IInv, OwnerBookkeeping, NoLostWork, TypeOK
<1>6. Numbered'
  BY <1>1 DEF IInv, Numbered
<1>7. ForegroundBehind'
  <2>1. ASSUME NEW a \in Foreground, NEW b \in Foreground,
               0 < seq[a], seq[a] < seq[b], future[a] \in {"pending", "running"},
               b \in foreground, b \notin foreground'
        PROVE  FALSE
    <3>1. b = i /\ i \in foreground
      BY <1>1, <2>1
    <3>2. a \in foreground
      BY <1>1, <1>2, <2>1, BandsAssumption
         DEF IInv, NoLostWork, TypeOK, Queued, Items
    <3>3. seq[a] \in Nat /\ seq[b] \in Nat
      BY DEF IInv, TypeOK, Items
    <3> QED BY <1>1, <2>1, <3>1, <3>2, <3>3
  <2> QED BY <1>1, <2>1 DEF IInv, ForegroundBehind
<1> QED BY <1>3, <1>4, <1>5, <1>6, <1>7

(* The owner thread runs the item it has taken. *)
LEMMA RunStep ==
  ASSUME IInv, TypeOK',
         SkipCancelled \/ StartItem \/ PublishActive \/ FinishItem \/ RecordCompletion
  PROVE  /\ NoLostWork' /\ NewestWins' /\ OwnerBookkeeping' /\ Numbered' /\ ForegroundBehind'
<1> USE DEF OwnerOnly, queues
<1>0. item \in Items /\ item # NoItem /\ item \notin Queued
  BY BandsAssumption DEF SkipCancelled, StartItem, PublishActive, FinishItem, RecordCompletion,
     IInv, OwnerBookkeeping, TypeOK, NoLostWork
<1>1. UNCHANGED <<seq, sequence, foreground, idle, persistence, shutdown>>
  BY DEF SkipCancelled, StartItem, PublishActive, FinishItem, RecordCompletion
<1>2. \A i \in Items : i # item => future'[i] = future[i]
  BY DEF SkipCancelled, StartItem, PublishActive, FinishItem, RecordCompletion, IInv, TypeOK
<1>3. /\ item' \in {item, NoItem}
      /\ future[item] \in {"pending", "running", "finished", "cancelled"}
      /\ future'[item] \in {"running", "finished", "cancelled"}
      /\ future'[item] = "running" =>
           item' = item /\ pc' \in {"claimed", "running"} /\ future[item] \in {"pending", "running"}
  BY <1>0 DEF SkipCancelled, StartItem, PublishActive, FinishItem, RecordCompletion, IInv, TypeOK,
     OwnerBookkeeping
<1>4. NoLostWork'
  BY <1>0, <1>1, <1>2, <1>3, BandsAssumption DEF IInv, NoLostWork, Queued
<1>5. NewestWins'
  BY <1>1 DEF IInv, NewestWins, SameKey
<1>6. OwnerBookkeeping'
  BY <1>0, <1>3 DEF SkipCancelled, StartItem, PublishActive, FinishItem, RecordCompletion, IInv,
     TypeOK, OwnerBookkeeping, NothingQueued
<1>7. Numbered'
  BY <1>0, <1>1, <1>2, <1>3 DEF IInv, Numbered
<1>8. ForegroundBehind'
  <2>1. ASSUME NEW a \in Foreground, NEW b \in Foreground,
               0 < seq[a], seq[a] < seq[b], future'[a] \in {"pending", "running"}
        PROVE  b \in foreground \/ future'[b] = "cancelled"
    <3>1. a \in Items /\ b \in Items
      BY DEF Items
    <3>2. future[a] \in {"pending", "running"}
      BY <1>2, <1>3, <2>1, <3>1
    <3>3. b \in foreground \/ future[b] = "cancelled"
      BY <2>1, <3>2 DEF IInv, ForegroundBehind
    <3>4. b = item /\ future[b] = "cancelled" => future'[b] = "cancelled"
      BY DEF SkipCancelled, StartItem, PublishActive, FinishItem, RecordCompletion, IInv,
         OwnerBookkeeping
    <3> QED BY <1>2, <3>1, <3>3, <3>4
  <2> QED BY <1>1, <2>1 DEF ForegroundBehind
<1> QED BY <1>4, <1>5, <1>6, <1>7, <1>8

LEMMA NextIInv == IInv /\ [Next]_vars => IInv'
<1> SUFFICES ASSUME IInv, [Next]_vars PROVE IInv'
  OBVIOUS
<1>1. TypeOK'
  BY TypeStep DEF IInv
<1>2. NoLostWork' /\ NewestWins' /\ OwnerBookkeeping' /\ Numbered' /\ ForegroundBehind'
  <2>1. CASE Callers
    <3>1. ASSUME NEW i \in Items, SubmitIdlePersistence(i)
          PROVE  /\ NoLostWork' /\ NewestWins' /\ OwnerBookkeeping' /\ Numbered'
                 /\ ForegroundBehind'
      BY <1>1, <3>1, SubmitPersistenceStep
    <3>2. ASSUME NEW i \in Items,
                 SubmitRefused(i) \/ SubmitForeground(i) \/ SubmitIdlePostcommit(i)
          PROVE  /\ NoLostWork' /\ NewestWins' /\ OwnerBookkeeping' /\ Numbered'
                 /\ ForegroundBehind'
      BY <1>1, <3>2, SubmitStep
    <3>3. ASSUME \/ \E k : CancelIdlePersistence(k)
                 \/ \E i \in Items : CancelFuture(i)
                 \/ Shutdown(TRUE)
          PROVE  /\ NoLostWork' /\ NewestWins' /\ OwnerBookkeeping' /\ Numbered'
                 /\ ForegroundBehind'
      BY <1>1, <3>3, CancelActions
    <3>4. ASSUME \/ \E i \in Items : BankReleases(i)
                 \/ \E b \in PumpBudgets : PumpPersistence(b)
                 \/ ArmIdleKeepalive \/ DisarmIdleKeepalive \/ Shutdown(FALSE)
          PROVE  /\ NoLostWork' /\ NewestWins' /\ OwnerBookkeeping' /\ Numbered'
                 /\ ForegroundBehind'
      BY <3>4, QuietActions
    <3> QED BY <2>1, <3>1, <3>2, <3>3, <3>4 DEF Callers
  <2>2. CASE Owner
    BY <2>2, <1>1, TakeStep, RunStep, QuietActions DEF Owner, TakeNext
  <2>3. CASE Tick \/ UNCHANGED vars
    BY <2>3, QuietActions
  <2> QED BY <2>1, <2>2, <2>3 DEF Next
<1> QED BY <1>1, <1>2 DEF IInv

-----------------------------------------------------------------------------
(* The theorems.                                                           *)

THEOREM SpecIInv == Spec => []IInv
BY InitIInv, NextIInv, PTL DEF Spec

(* Type correctness of the scheduler's state. *)
THEOREM TypeCorrect == Spec => []TypeOK
<1>1. IInv => TypeOK
  BY DEF IInv
<1> QED BY SpecIInv, <1>1, PTL

(* No submitted work is lost, for any number of items in any band: coalescing,
   key cancels, budget drops and shutdown included. *)
THEOREM WorkIsNeverLost == Spec => []NoLostWork
<1>1. IInv => NoLostWork
  BY DEF IInv
<1> QED BY SpecIInv, <1>1, PTL

(* Coalescing keeps the newest job of every key. *)
THEOREM CoalescingKeepsNewest == Spec => []NewestWins
<1>1. IInv => NewestWins
  BY DEF IInv
<1> QED BY SpecIInv, <1>1, PTL

(* Foreground requests start in submission order. *)
THEOREM ForegroundFifo == Spec => []ForegroundInOrder
<1>1. IInv => ForegroundInOrder
  <2> SUFFICES ASSUME IInv, NEW i \in Foreground, NEW j \in Foreground,
                      0 < seq[i], seq[i] < seq[j], future[j] \in {"running", "finished"}
               PROVE  future[i] \in {"finished", "cancelled"}
    BY DEF ForegroundInOrder
  <2>1. i \in Items /\ j \in Items
    BY DEF Items
  <2>2. j \notin foreground
    BY <2>1 DEF IInv, NoLostWork, Queued
  <2>3. future[i] \notin {"pending", "running"}
    BY <2>2 DEF IInv, ForegroundBehind
  <2>4. future[i] \notin {"new", "refused"}
    BY <2>1 DEF IInv, Numbered, TypeOK
  <2> QED BY <2>1, <2>3, <2>4 DEF IInv, TypeOK
<1> QED BY SpecIInv, <1>1, PTL

(* The owner thread leaves nobody waiting when it ends. *)
THEOREM ExitIsClean == Spec => []ExitLeavesNothing
<1>1. IInv => ExitLeavesNothing
  <2> SUFFICES ASSUME IInv, pc = "exited"
               PROVE  shutdown /\ \A i \in Items : future[i] \notin {"pending", "running"}
    BY DEF ExitLeavesNothing
  <2>1. shutdown /\ NothingQueued
    BY DEF IInv, OwnerBookkeeping
  <2> QED BY <2>1 DEF IInv, NoLostWork, Queued, NothingQueued
<1> QED BY SpecIInv, <1>1, PTL

-----------------------------------------------------------------------------
(* The scheduler implements WorkQueue.                                     *)

WStep == [Queue!WNext]_<<future, Queued, item, ~shutdown, pumpBudget>>

LEMMA SameItems == Queue!Items = Items
BY DEF Queue!Items, Items

LEMMA CallersImplement ==
  ASSUME IInv, TypeOK', Callers
  PROVE  WStep
<1> USE SameItems DEF WStep, queues, ownerVars, submitted
<1>0. /\ foreground \subseteq Foreground /\ idle \subseteq Postcommit
      /\ persistence \subseteq Persistence /\ pumpBudget \in Nat
  BY DEF IInv, TypeOK
<1>1. ASSUME NEW i \in Items, SubmitRefused(i) PROVE WStep
  <2>1. Queue!Refuse(i)
    BY <1>1 DEF SubmitRefused, Queue!Refuse, Queued
  <2> QED BY <2>1 DEF Queue!WNext
<1>2. ASSUME NEW i \in Items, SubmitForeground(i) \/ SubmitIdlePostcommit(i) PROVE WStep
  <2>1. Queue!Cancelled({}) = future
    BY DEF Queue!Cancelled, IInv, TypeOK
  <2>2. /\ ~shutdown /\ future[i] = "new" /\ i \notin Persistence
        /\ future' = [Queue!Cancelled({}) EXCEPT ![i] = "pending"]
        /\ Queued' = (Queued \cup {i}) \ {}
        /\ pumpBudget' = IF i \in Foreground THEN 0 ELSE pumpBudget
        /\ UNCHANGED <<item, ~shutdown>>
    BY <1>2, <2>1, BandsAssumption DEF SubmitForeground, SubmitIdlePostcommit, Admit, Queued
  <2>3. Queue!Accept(i)
    BY <2>2 DEF Queue!Accept
  <2> QED BY <2>3 DEF Queue!WNext
<1>3. ASSUME NEW i \in Items, SubmitIdlePersistence(i) PROVE WStep
  <2> DEFINE stale == {j \in persistence : SameKey(i, j)}
             queue == (persistence \ stale) \cup {i}
             out == stale \cup OverBudget(queue, i)
  <2>1. i \notin persistence /\ OverBudget(queue, i) \subseteq queue \ {i}
    BY <1>3, BudgetKeepsNewest DEF SubmitIdlePersistence, Superseded, Admit, IInv, NoLostWork, Queued, TypeOK
  <2>2. i \notin Queued
    BY <1>3, <2>1, <1>0, BandsAssumption DEF SubmitIdlePersistence, Superseded, Queued
  <2>3. out \in SUBSET (Queued \cap Persistence)
    BY <2>1, <1>0 DEF Queued
  <2>4. Queued' = (Queued \cup {i}) \ out
    <3>1. persistence' = (persistence \cup {i}) \ out
      BY <1>3, <2>1 DEF SubmitIdlePersistence, Superseded
    <3>2. foreground' = foreground /\ idle' = idle
      BY <1>3 DEF SubmitIdlePersistence, Superseded
    <3>3. out \cap (foreground \cup idle) = {}
      BY <1>0, <2>3, BandsAssumption
    <3> HIDE DEF out
    <3> QED BY <3>1, <3>2, <3>3 DEF Queued
  <2>5. future' = [Queue!Cancelled(out) EXCEPT ![i] = "pending"]
    BY <1>3 DEF SubmitIdlePersistence, Superseded, CancelAll, Queue!Cancelled
  <2>6. ~shutdown /\ future[i] = "new" /\ i \in Persistence
    BY <1>3 DEF SubmitIdlePersistence, Superseded, Admit
  <2>7. pumpBudget' = (IF i \in Foreground THEN 0 ELSE pumpBudget) /\ UNCHANGED <<item, ~shutdown>>
    BY <1>3, <2>6, BandsAssumption DEF SubmitIdlePersistence, Superseded, Admit
  <2> HIDE DEF out
  <2>8. Queue!Accept(i)
    BY <2>3, <2>4, <2>5, <2>6, <2>7 DEF Queue!Accept
  <2> QED BY <2>8 DEF Queue!WNext
<1>4. ASSUME NEW i \in Items, CancelFuture(i) PROVE WStep
  <2>1. Queue!Abandon(i)
    BY <1>4 DEF CancelFuture, Queue!Abandon, Queued
  <2> QED BY <2>1 DEF Queue!WNext
<1>5. ASSUME NEW k, CancelIdlePersistence(k) PROVE WStep
  <2> DEFINE stale == {j \in persistence : CoalesceKey[j] = k}
  <2>1. /\ stale \in SUBSET Persistence /\ stale \subseteq Queued \cap Persistence
        /\ Queued' = Queued \ stale
    BY <1>0, <1>5, BandsAssumption DEF CancelIdlePersistence, Queued
  <2>2. future' = Queue!Cancelled(stale) /\ UNCHANGED <<item, ~shutdown, pumpBudget>>
    BY <1>5 DEF CancelIdlePersistence, CancelAll, Queue!Cancelled
  <2> HIDE DEF stale
  <2>3. Queue!Withdraw(stale)
    BY <2>1, <2>2 DEF Queue!Withdraw
  <2> QED BY <2>1, <2>3 DEF Queue!WNext
<1>6. ASSUME NEW b \in PumpBudgets, PumpPersistence(b) PROVE WStep
  <2>1. Min({b, PumpCap}) \in Nat
    BY NumbersAssumption, MinIsMember DEF PumpCap
  <2>2. pumpBudget' \in Nat /\ pumpBudget' >= pumpBudget
    BY <1>0, <1>6, <2>1, MaxOfTwo DEF PumpPersistence
  <2>3. Queue!GrantBridges
    BY <1>6, <2>2 DEF PumpPersistence, Queue!GrantBridges, Queued
  <2> QED BY <2>3 DEF Queue!WNext
<1>7. ASSUME NEW c \in BOOLEAN, Shutdown(c) PROVE WStep
  <2>1. Queue!Close
    BY <1>7 DEF Shutdown, Queue!Close, Queued, CancelAll, Queue!Cancelled
  <2> QED BY <2>1 DEF Queue!WNext
<1>8. ASSUME (\E i \in Items : BankReleases(i)) \/ ArmIdleKeepalive \/ DisarmIdleKeepalive
      PROVE  WStep
  BY <1>8 DEF BankReleases, ArmIdleKeepalive, DisarmIdleKeepalive, Queued
<1> QED BY <1>1, <1>2, <1>3, <1>4, <1>5, <1>6, <1>7, <1>8 DEF Callers

LEMMA OwnerImplements ==
  ASSUME IInv, Owner
  PROVE  WStep
<1> USE SameItems DEF WStep, queues, ownerVars, submitted, OwnerOnly
<1>0. /\ foreground \subseteq Foreground /\ idle \subseteq Postcommit
      /\ persistence \subseteq Persistence /\ pumpBudget \in Nat
      /\ pc = "take_next" => item = NoItem
      /\ pc \in {"taken", "claimed", "running", "recording"} => item # NoItem
  BY DEF IInv, TypeOK, OwnerBookkeeping
<1>1. ASSUME NEW i \in Queued, Take(i), foreground' = foreground \ {i},
             idle' = idle \ {i}, persistence' = persistence \ {i},
             i \notin Foreground => foreground = {},
             IF i \in Persistence /\ idle # {}
             THEN pumpBudget > 0 /\ pumpBudget' = pumpBudget - 1
             ELSE pumpBudget' = pumpBudget
      PROVE  WStep
  <2>1. Queued \cap Foreground = foreground /\ Queued \cap Postcommit = idle /\ i \in Items
    BY <1>0, BandsAssumption DEF Queued, Items
  <2>2. Queued' = Queued \ {i}
    BY <1>1 DEF Queued
  <2>3. Queue!TakeItem(i)
    BY <1>0, <1>1, <2>1, <2>2 DEF Queue!TakeItem, Take
  <2> QED BY <2>1, <2>3 DEF Queue!WNext
<1>2. CASE TakeForeground
  <2>1. Oldest(foreground) \in foreground
    BY <1>0, <1>2, OldestIsHead DEF TakeForeground, IInv, Items
  <2> QED BY <1>0, <1>1, <1>2, <2>1, BandsAssumption DEF TakeForeground, Queued
<1>3. CASE TakeIdle
  <2>1. Oldest(idle) \in idle
    BY <1>0, <1>3, OldestIsHead DEF TakeIdle, IdleDue, IInv, Items
  <2> QED BY <1>0, <1>1, <1>3, <2>1, BandsAssumption DEF TakeIdle, Queued
<1>4. CASE TakePersistence
  <2>1. Oldest(persistence) \in persistence
    BY <1>0, <1>4, OldestIsHead
       DEF TakePersistence, PersistenceDue, PersistenceReachable, IInv, Items
  <2>2. idle # {} => pumpBudget > 0
    BY <1>4 DEF TakePersistence, PersistenceDue, PersistenceReachable
  <2> QED BY <1>0, <1>1, <1>4, <2>1, <2>2, BandsAssumption DEF TakePersistence, Queued
<1>5. CASE SkipCancelled
  <2>1. Queue!PutDown
    BY <1>0, <1>5 DEF SkipCancelled, Queue!PutDown, Queued
  <2> QED BY <2>1 DEF Queue!WNext
<1>6. CASE StartItem
  <2>1. Queue!Run
    BY <1>0, <1>6 DEF StartItem, Queue!Run, Queued
  <2> QED BY <2>1 DEF Queue!WNext
<1>7. CASE FinishItem
  <2>1. Queue!Resolve
    BY <1>0, <1>7 DEF FinishItem, Queue!Resolve, Queued, IInv, OwnerBookkeeping
  <2> QED BY <2>1 DEF Queue!WNext
<1>8. CASE RecordCompletion
  <2>1. Queue!PutDown
    BY <1>0, <1>8 DEF RecordCompletion, Queue!PutDown, Queued, IInv, OwnerBookkeeping
  <2> QED BY <2>1 DEF Queue!WNext
<1>9. CASE \/ Exit \/ TakeKeepalive \/ TakeOwnerIdle \/ Wait \/ WaitTimesOut \/ PublishActive
           \/ StartBeat \/ (\E ok \in BOOLEAN : FinishBeat(ok)) \/ RunOwnerIdle
  BY <1>9 DEF Exit, TakeKeepalive, TakeOwnerIdle, Wait, WaitTimesOut, PublishActive, StartBeat,
     FinishBeat, RunOwnerIdle, Queued
<1> QED BY <1>2, <1>3, <1>4, <1>5, <1>6, <1>7, <1>8, <1>9 DEF Owner, TakeNext

(* The scheduler's promise to its callers: band order, one item at a time, no
   preemption, bridges that do not outlive a foreground arrival. *)
THEOREM SchedulerImplementsWorkQueue == Spec => ImplementsWorkQueue
<1>1. Init => Queue!WInit
  BY SameItems DEF Init, Queue!WInit, Queued
<1>2. IInv /\ [Next]_vars => WStep
  <2> SUFFICES ASSUME IInv, [Next]_vars PROVE WStep
    OBVIOUS
  <2>1. TypeOK'
    BY TypeStep DEF IInv
  <2>2. CASE Callers
    BY <2>1, <2>2, CallersImplement
  <2>3. CASE Owner
    BY <2>3, OwnerImplements
  <2>4. CASE Tick \/ UNCHANGED vars
    BY <2>4 DEF Tick, WStep, vars, submitted, queues, ownerVars, Queued
  <2> QED BY <2>2, <2>3, <2>4 DEF Next
<1> QED
  BY <1>1, <1>2, SpecIInv, PTL DEF Spec, ImplementsWorkQueue, Queue!WSpec, WStep, Queue!wvars

-----------------------------------------------------------------------------
(* The sum of the pinned bytes.  PinnedTotal folds a set with a recursive
   function on its subsets: a sum over U is a function g with IsSum(g, U).
   What the sum of a set is follows by induction on the set, done here by
   taking a smallest counterexample.                                       *)

First(s) == CHOOSE x \in s : TRUE
IsSum(g, U) == g = [s \in SUBSET U |-> IF s = {} THEN 0
                                       ELSE Pinned(First(s)) + g[s \ {First(s)}]]
SumOver(U) == CHOOSE g : IsSum(g, U)

LEMMA TotalIsSum ==
  ASSUME NEW U PROVE PinnedTotal(U) = SumOver(U)[U]
BY DEF PinnedTotal, MapThenSumSet, MapThenFoldSet, SumOver, IsSum, First

(* A nonempty family of subsets of a finite set has a smallest member. *)
LEMMA SmallestSet ==
  ASSUME NEW U, IsFiniteSet(U), NEW F, F \subseteq SUBSET U, F # {}
  PROVE  \E m \in F : \A n \in F : n \subseteq m => n = m
<1> DEFINE R == StrictSubsetOrdering(U)
<1>1. F \subseteq FiniteSubsetsOf(U)
  BY FS_Subset DEF FiniteSubsetsOf
<1>2. IsWellFoundedOn(R, FiniteSubsetsOf(U))
  BY FS_StrictSubsetOrderingWellFounded
<1> HIDE DEF R
<1>3. PICK m \in F : \A n \in F : <<n, m>> \notin R
  BY <1>1, <1>2, WFMin
<1>4. ASSUME NEW n \in F, n \subseteq m, n # m PROVE <<n, m>> \in R
  BY <1>4 DEF R, StrictSubsetOrdering
<1>5. \A n \in F : n \subseteq m => n = m
  BY <1>3, <1>4
<1> QED BY <1>5

LEMMA FirstIsMember ==
  ASSUME NEW s, s # {} PROVE First(s) \in s
BY DEF First

(* What a sum says of one set. *)
LEMMA SumAt ==
  ASSUME NEW U, NEW g, IsSum(g, U), NEW s, s \subseteq U
  PROVE  g[s] = IF s = {} THEN 0 ELSE Pinned(First(s)) + g[s \ {First(s)}]
<1> DEFINE e(x) == IF x = {} THEN 0 ELSE Pinned(First(x)) + g[x \ {First(x)}]
<1>1. g = [x \in SUBSET U |-> e(x)]
  BY DEF IsSum
<1>2. s \in SUBSET U
  OBVIOUS
<1> HIDE DEF e
<1>3. g[s] = e(s)
  BY <1>1, <1>2
<1> QED BY <1>3 DEF e

(* Two sums agree where both are defined. *)
LEMMA SumsAgree ==
  ASSUME NEW U, IsFiniteSet(U), NEW V, V \subseteq U,
         NEW g, NEW h, IsSum(g, U), IsSum(h, V),
         NEW s, s \subseteq V
  PROVE  g[s] = h[s]
<1> DEFINE Bad == {x \in SUBSET V : g[x] # h[x]}
<1> SUFFICES ASSUME Bad # {} PROVE FALSE
  OBVIOUS
<1>1. PICK m \in Bad : \A n \in Bad : n \subseteq m => n = m
  <2>1. Bad \subseteq SUBSET U
    OBVIOUS
  <2> HIDE DEF Bad
  <2> QED BY <2>1, SmallestSet
<1>2. m # {}
  BY SumAt
<1>3. First(m) \in m
  BY <1>2, FirstIsMember
<1>4. g[m \ {First(m)}] = h[m \ {First(m)}]
  BY <1>1, <1>3
<1>5. /\ g[m] = Pinned(First(m)) + g[m \ {First(m)}]
      /\ h[m] = Pinned(First(m)) + h[m \ {First(m)}]
  <2>1. m \subseteq V /\ m \subseteq U
    OBVIOUS
  <2> QED BY <2>1, <1>2, SumAt
<1> QED BY <1>4, <1>5

(* Every finite set has a sum. *)
LEMMA SumExists ==
  ASSUME NEW U, IsFiniteSet(U)
  PROVE  IsSum(SumOver(U), U)
<1> DEFINE Has(V) == \E g : IsSum(g, V)
           Bad == {V \in SUBSET U : ~Has(V)}
<1>1. ASSUME Bad # {} PROVE FALSE
  <2>1. PICK T \in Bad : \A n \in Bad : n \subseteq T => n = T
    <3>1. Bad \subseteq SUBSET U
      OBVIOUS
    <3> HIDE DEF Bad
    <3> QED BY <3>1, <1>1, SmallestSet
  <2>2. \A V : V \subseteq T /\ V # T => IsSum(SumOver(V), V)
    <3>1. ASSUME NEW V, V \subseteq T, V # T PROVE Has(V)
      BY <2>1, <3>1
    <3> QED BY <3>1 DEF SumOver
  <2> DEFINE at(s) == SumOver(s)[s]
             e(s) == IF s = {} THEN 0 ELSE Pinned(First(s)) + at(s \ {First(s)})
             g == [s \in SUBSET T |-> e(s)]
  <2>3. ASSUME NEW s, s \subseteq T, s # T PROVE e(s) = at(s)
    <3>1. IsSum(SumOver(s), s)
      BY <2>2, <2>3
    <3>2. at(s) = IF s = {} THEN 0 ELSE Pinned(First(s)) + SumOver(s)[s \ {First(s)}]
      <4>1. s \subseteq s
        OBVIOUS
      <4> QED BY <3>1, <4>1, SumAt
    <3>3. ASSUME s # {} PROVE SumOver(s)[s \ {First(s)}] = at(s \ {First(s)})
      <4> DEFINE r == s \ {First(s)}
      <4>1. r \subseteq s /\ r \subseteq T /\ r # T /\ r \subseteq r
        BY <2>3
      <4>2. IsSum(SumOver(r), r)
        BY <4>1, <2>2
      <4>3. IsFiniteSet(s)
        BY <2>3, FS_Subset
      <4> HIDE DEF r
      <4>4. SumOver(s)[r] = SumOver(r)[r]
        BY <4>1, <4>2, <4>3, <3>1, SumsAgree
      <4> QED BY <4>4 DEF r
    <3> QED BY <3>2, <3>3
  <2>4. ASSUME NEW s \in SUBSET T, s # {} PROVE g[s \ {First(s)}] = at(s \ {First(s)})
    <3> DEFINE r == s \ {First(s)}
    <3>1. r \in SUBSET T /\ r \subseteq T /\ r # T
      BY <2>4, FirstIsMember
    <3>2. g[r] = e(r)
      <4> HIDE DEF e, r
      <4> QED BY <3>1
    <3>3. e(r) = at(r)
      <4> HIDE DEF e, r, at
      <4> QED BY <3>1, <2>3
    <3> QED BY <3>2, <3>3
  <2>5. IsSum(g, T)
    <3> DEFINE f(s) == IF s = {} THEN 0 ELSE Pinned(First(s)) + g[s \ {First(s)}]
    <3>1. \A s \in SUBSET T : e(s) = f(s)
      <4> HIDE DEF at, g
      <4> QED BY <2>4
    <3>2. g = [s \in SUBSET T |-> f(s)]
      <4>1. g = [s \in SUBSET T |-> e(s)]
        OBVIOUS
      <4> HIDE DEF e, f, g
      <4> QED BY <3>1, <4>1
    <3> HIDE DEF g
    <3> QED BY <3>2 DEF IsSum
  <2> QED BY <2>1, <2>5
<1>2. Has(U)
  BY <1>1
<1> QED BY <1>2 DEF SumOver

(* The equation the fold unrolls by. *)
LEMMA TotalUnrolls ==
  ASSUME NEW S, IsFiniteSet(S)
  PROVE  PinnedTotal(S) = IF S = {} THEN 0
                          ELSE Pinned(First(S)) + PinnedTotal(S \ {First(S)})
<1> DEFINE r == S \ {First(S)}
<1>1. r \subseteq S /\ r \subseteq r /\ S \subseteq S /\ IsFiniteSet(r)
  BY FS_Subset
<1>2. IsSum(SumOver(S), S) /\ IsSum(SumOver(r), r)
  <2> HIDE DEF r
  <2> QED BY <1>1, SumExists
<1>3. SumOver(S)[r] = SumOver(r)[r]
  <2> HIDE DEF r
  <2> QED BY <1>1, <1>2, SumsAgree
<1>4. SumOver(S)[S] = IF S = {} THEN 0 ELSE Pinned(First(S)) + SumOver(S)[r]
  BY <1>1, <1>2, SumAt
<1> QED BY <1>3, <1>4, TotalIsSum

LEMMA PersistenceFinite ==
  ASSUME NEW S, S \subseteq Persistence PROVE IsFiniteSet(S)
BY BandsAssumption, FS_Subset DEF Items

LEMMA PinnedType ==
  ASSUME NEW i \in Persistence PROVE Pinned(i) \in Nat
BY NumbersAssumption DEF Pinned

(* The bytes pinned by queued jobs are a natural number. *)
LEMMA TotalType ==
  ASSUME NEW S, S \subseteq Persistence PROVE PinnedTotal(S) \in Nat
<1> DEFINE Bad == {x \in SUBSET S : PinnedTotal(x) \notin Nat}
<1> SUFFICES ASSUME Bad # {} PROVE FALSE
  OBVIOUS
<1>1. PICK m \in Bad : \A n \in Bad : n \subseteq m => n = m
  <2>1. Bad \subseteq SUBSET S /\ IsFiniteSet(S)
    BY PersistenceFinite
  <2> HIDE DEF Bad
  <2> QED BY <2>1, SmallestSet
<1>2. m \subseteq Persistence /\ IsFiniteSet(m)
  BY PersistenceFinite
<1>3. m # {} /\ First(m) \in m
  BY <1>2, TotalUnrolls, FirstIsMember
<1>4. PinnedTotal(m \ {First(m)}) \in Nat
  BY <1>1, <1>3
<1>5. PinnedTotal(m) = Pinned(First(m)) + PinnedTotal(m \ {First(m)})
  BY <1>2, <1>3, TotalUnrolls
<1> QED BY <1>2, <1>3, <1>4, <1>5, PinnedType

(* Any member may be taken out of the sum first. *)
LEMMA TotalSplits ==
  ASSUME NEW S, S \subseteq Persistence, NEW x \in S
  PROVE  PinnedTotal(S) = Pinned(x) + PinnedTotal(S \ {x})
<1> DEFINE Good(s) == \A y \in s : PinnedTotal(s) = Pinned(y) + PinnedTotal(s \ {y})
           Bad == {s \in SUBSET S : ~Good(s)}
<1> SUFFICES ASSUME Bad # {} PROVE FALSE
  OBVIOUS
<1>1. PICK m \in Bad : \A n \in Bad : n \subseteq m => n = m
  <2>1. Bad \subseteq SUBSET S /\ IsFiniteSet(S)
    BY PersistenceFinite
  <2> HIDE DEF Bad
  <2> QED BY <2>1, SmallestSet
<1>2. PICK y \in m : PinnedTotal(m) # Pinned(y) + PinnedTotal(m \ {y})
  OBVIOUS
<1> DEFINE p == First(m)
<1>3. p \in m /\ PinnedTotal(m) = Pinned(p) + PinnedTotal(m \ {p})
  <2>1. IsFiniteSet(m) /\ m # {}
    BY PersistenceFinite, <1>2
  <2> QED BY <2>1, FirstIsMember, TotalUnrolls
<1> HIDE DEF p
<1>4. p # y
  BY <1>2, <1>3
<1>5. Good(m \ {p}) /\ Good(m \ {y})
  BY <1>1, <1>2, <1>3
<1>6. /\ PinnedTotal(m \ {p}) = Pinned(y) + PinnedTotal((m \ {p}) \ {y})
      /\ PinnedTotal(m \ {y}) = Pinned(p) + PinnedTotal((m \ {y}) \ {p})
  BY <1>2, <1>3, <1>4, <1>5
<1>7. (m \ {p}) \ {y} = (m \ {y}) \ {p}
  OBVIOUS
<1>8. Pinned(p) \in Nat /\ Pinned(y) \in Nat /\ PinnedTotal((m \ {y}) \ {p}) \in Nat
  <2>1. m \subseteq Persistence /\ ((m \ {y}) \ {p}) \subseteq Persistence
    OBVIOUS
  <2> QED BY <2>1, <1>2, <1>3, PinnedType, TotalType
<1> QED BY <1>2, <1>3, <1>6, <1>7, <1>8

(* More jobs never pin less. *)
LEMMA TotalGrows ==
  ASSUME NEW T, T \subseteq Persistence, NEW S, S \subseteq T
  PROVE  PinnedTotal(S) <= PinnedTotal(T)
<1> DEFINE Good(t) == PinnedTotal(S) <= PinnedTotal(t)
           Bad == {t \in SUBSET T : S \subseteq t /\ ~Good(t)}
<1> SUFFICES ASSUME Bad # {} PROVE FALSE
  OBVIOUS
<1>1. PICK m \in Bad : \A n \in Bad : n \subseteq m => n = m
  <2>1. Bad \subseteq SUBSET T /\ IsFiniteSet(T)
    BY PersistenceFinite
  <2> HIDE DEF Bad
  <2> QED BY <2>1, SmallestSet
<1>2. m \subseteq Persistence /\ S \subseteq Persistence
  OBVIOUS
<1>3. PinnedTotal(S) \in Nat /\ PinnedTotal(m) \in Nat
  BY <1>2, TotalType
<1>4. PICK x \in m : x \notin S
  BY <1>3
<1>5. Good(m \ {x})
  BY <1>1, <1>4
<1>6. /\ PinnedTotal(m) = Pinned(x) + PinnedTotal(m \ {x})
      /\ Pinned(x) \in Nat /\ PinnedTotal(m \ {x}) \in Nat
  <2>1. (m \ {x}) \subseteq Persistence
    BY <1>2
  <2> QED BY <2>1, <1>2, <1>4, TotalSplits, TotalType, PinnedType
<1> QED BY <1>3, <1>5, <1>6

-----------------------------------------------------------------------------
(* The budget of the persistence queue.                                    *)

Droppable(q, keep) == {i \in q : i # keep /\ Pinned(i) > 0}
AfterOlder(q, keep, i) == PinnedTotal(q \ {j \in Droppable(q, keep) : seq[j] < seq[i]})

(* Who is dropped, in the terms above. *)
LEMMA DroppedMeans ==
  ASSUME NEW q, NEW keep, MaxPendingBytes # 0
  PROVE  OverBudget(q, keep) =
           {i \in Droppable(q, keep) : AfterOlder(q, keep, i) > MaxPendingBytes}
BY DEF OverBudget, Droppable, AfterOlder

(* What is left after the older jobs are gone shrinks along the queue. *)
LEMMA AfterOlderFalls ==
  ASSUME TypeOK, NEW q, q \subseteq Persistence, NEW keep,
         NEW i \in q, NEW j \in q, seq[j] <= seq[i]
  PROVE  /\ AfterOlder(q, keep, i) \in Nat /\ AfterOlder(q, keep, j) \in Nat
         /\ AfterOlder(q, keep, i) <= AfterOlder(q, keep, j)
<1> DEFINE rest(k) == q \ {l \in Droppable(q, keep) : seq[l] < seq[k]}
<1>1. rest(i) \subseteq rest(j)
  BY DEF TypeOK, Droppable, Items
<1>2. rest(i) \subseteq Persistence /\ rest(j) \subseteq Persistence
  OBVIOUS
<1> HIDE DEF rest
<1>3. PinnedTotal(rest(i)) <= PinnedTotal(rest(j))
  BY <1>1, <1>2, TotalGrows
<1>4. PinnedTotal(rest(i)) \in Nat /\ PinnedTotal(rest(j)) \in Nat
  BY <1>2, TotalType
<1> QED BY <1>3, <1>4 DEF rest, AfterOlder

(* Of the droppable jobs the budget takes the oldest ones. *)
LEMMA DropsOldestFirst ==
  ASSUME TypeOK, NEW q, q \subseteq Persistence, NEW keep, MaxPendingBytes # 0,
         NEW i \in OverBudget(q, keep), NEW j \in q \ OverBudget(q, keep),
         j # keep, seq[j] < seq[i]
  PROVE  Pinned(j) = 0
<1> SUFFICES ASSUME Pinned(j) # 0 PROVE FALSE
  OBVIOUS
<1>1. Pinned(j) \in Nat
  BY PinnedType
<1>2. j \in Droppable(q, keep) /\ i \in Droppable(q, keep)
  BY <1>1, DroppedMeans DEF Droppable
<1>3. i \in q /\ seq[j] <= seq[i]
  BY <1>2 DEF Droppable, TypeOK, Items
<1>4. /\ AfterOlder(q, keep, i) \in Nat /\ AfterOlder(q, keep, j) \in Nat
      /\ AfterOlder(q, keep, i) <= AfterOlder(q, keep, j)
  BY <1>3, AfterOlderFalls
<1>5. AfterOlder(q, keep, i) > MaxPendingBytes
  BY DroppedMeans
<1>6. AfterOlder(q, keep, j) > MaxPendingBytes
  BY <1>4, <1>5, NumbersAssumption
<1> QED BY <1>2, <1>6, DroppedMeans

(* What the budget leaves fits, unless only the kept job pins memory. *)
LEMMA DropsEnough ==
  ASSUME TypeOK, NEW q, q \subseteq Persistence, NEW keep, MaxPendingBytes # 0
  PROVE  \/ PinnedTotal(q \ OverBudget(q, keep)) <= MaxPendingBytes
         \/ \A j \in (q \ OverBudget(q, keep)) \ {keep} : Pinned(j) = 0
<1> DEFINE pins == Droppable(q, keep) \ OverBudget(q, keep)
<1>1. CASE pins = {}
  <2>1. \A j \in q : Pinned(j) \in Nat
    BY PinnedType
  <2> QED BY <1>1, <2>1 DEF Droppable
<1>2. CASE pins # {}
  <2>1. pins \subseteq q /\ pins \subseteq Items
    BY DEF Droppable, Items
  <2> DEFINE j == Oldest(pins)
  <2>2. j \in pins /\ \A k \in pins : seq[j] <= seq[k]
    <3> HIDE DEF pins
    <3> QED BY <1>2, <2>1, OldestIsHead
  <2> HIDE DEF j
  <2> DEFINE rest == q \ {l \in Droppable(q, keep) : seq[l] < seq[j]}
  <2>3. (q \ OverBudget(q, keep)) \subseteq rest
    <3>1. \A k \in pins : ~(seq[k] < seq[j])
      BY <2>1, <2>2 DEF TypeOK
    <3> QED BY <3>1 DEF Droppable
  <2>4. PinnedTotal(q \ OverBudget(q, keep)) <= PinnedTotal(rest)
    <3>1. rest \subseteq Persistence
      OBVIOUS
    <3> HIDE DEF rest
    <3> QED BY <2>3, <3>1, TotalGrows
  <2>5. ~(PinnedTotal(rest) > MaxPendingBytes)
    BY <2>2, DroppedMeans DEF AfterOlder
  <2>6. PinnedTotal(rest) \in Nat /\ PinnedTotal(q \ OverBudget(q, keep)) \in Nat
    <3>1. rest \subseteq Persistence /\ (q \ OverBudget(q, keep)) \subseteq Persistence
      OBVIOUS
    <3> HIDE DEF rest
    <3> QED BY <3>1, TotalType
  <2> QED BY <2>4, <2>5, <2>6, NumbersAssumption
<1> QED BY <1>1, <1>2

(* Only a persistence submission adds to the queue, and it enforces the budget. *)
LEMMA BudgetFitsStep ==
  ASSUME IInv, [Next]_vars
  PROVE  \A i \in persistence' \ persistence :
           \/ MaxPendingBytes = 0 \/ PinnedTotal(persistence') <= MaxPendingBytes
           \/ \A j \in persistence' \ {i} : Pinned(j) = 0
<1> SUFFICES ASSUME NEW i \in persistence', i \notin persistence, MaxPendingBytes # 0
             PROVE  \/ PinnedTotal(persistence') <= MaxPendingBytes
                    \/ \A j \in persistence' \ {i} : Pinned(j) = 0
  OBVIOUS
<1>1. PICK k \in Items : SubmitIdlePersistence(k)
  <2> USE DEF queues, submitted
  <2>1. CASE UNCHANGED vars
    BY <2>1 DEF vars
  <2>2. CASE Tick
    BY <2>2 DEF Tick
  <2>3. CASE Owner
    BY <2>3 DEF Owner, TakeNext, TakeForeground, TakeIdle, TakePersistence, Exit, TakeKeepalive,
       TakeOwnerIdle, Wait, WaitTimesOut, SkipCancelled, StartItem, PublishActive, FinishItem,
       RecordCompletion, StartBeat, FinishBeat, RunOwnerIdle, OwnerOnly
  <2>4. CASE Callers
    <3>1. ASSUME NEW c \in BOOLEAN, Shutdown(c) PROVE FALSE
      BY <3>1 DEF Shutdown
    <3>2. ASSUME NEW c, CancelIdlePersistence(c) PROVE FALSE
      BY <3>2 DEF CancelIdlePersistence
    <3> QED BY <2>4, <3>1, <3>2 DEF Callers, SubmitRefused, SubmitForeground,
            SubmitIdlePostcommit, CancelFuture, BankReleases, PumpPersistence,
            ArmIdleKeepalive, DisarmIdleKeepalive
  <2> QED BY <2>1, <2>2, <2>3, <2>4 DEF Next
<1> DEFINE q == (persistence \ Superseded(k)) \cup {k}
<1>2. /\ persistence' = q \ OverBudget(q, k) /\ k \in Persistence
  BY <1>1 DEF SubmitIdlePersistence
<1>3. q \subseteq Persistence
  BY <1>2 DEF IInv, TypeOK
<1>4. i = k
  BY <1>2
<1> HIDE DEF q
<1>5. \/ PinnedTotal(q \ OverBudget(q, k)) <= MaxPendingBytes
      \/ \A j \in (q \ OverBudget(q, k)) \ {k} : Pinned(j) = 0
  BY <1>3, DropsEnough DEF IInv
<1> QED BY <1>2, <1>4, <1>5

(* _enforce_persistence_budget_locked keeps the budget: after a persistence
   submission the queue fits it, or only the new job pins memory in it. *)
THEOREM BudgetIsKept == Spec => BudgetFits
<1>1. IInv /\ [Next]_vars =>
        [\A i \in persistence' \ persistence :
           \/ MaxPendingBytes = 0 \/ PinnedTotal(persistence') <= MaxPendingBytes
           \/ \A j \in persistence' \ {i} : Pinned(j) = 0]_vars
  BY BudgetFitsStep
<1> QED BY <1>1, SpecIInv, PTL DEF Spec, BudgetFits

(* A new job supersedes those of its key. *)
LEMMA SupersedesMeans ==
  ASSUME NEW k, k \notin persistence, NEW j \in persistence
  PROVE  Supersedes(k, j) <=> j \in Superseded(k)
BY DEF Supersedes, Superseded, SameKey

(* The submission that drops i accounts for it. *)
LEMMA BudgetDropStep ==
  ASSUME IInv, NEW k \in Items, SubmitIdlePersistence(k),
         NEW i \in persistence, i \notin persistence'
  PROVE  \/ \E j \in persistence' : Supersedes(j, i)
         \/ LET newer == {j \in persistence : seq[j] > seq[i]
                                              /\ \A l \in persistence' : ~Supersedes(l, j)}
            IN /\ Pinned(i) > 0
               /\ \A j \in persistence' \cap persistence : seq[j] < seq[i] => Pinned(j) = 0
               /\ PinnedTotal(persistence' \cup {i} \cup newer) > MaxPendingBytes
<1> DEFINE q == (persistence \ Superseded(k)) \cup {k}
           newer == {j \in persistence : seq[j] > seq[i]
                                         /\ \A l \in persistence' : ~Supersedes(l, j)}
           room == persistence' \cup {i} \cup newer
           rest == q \ {j \in Droppable(q, k) : seq[j] < seq[i]}
<1>1. /\ persistence' = q \ OverBudget(q, k) /\ k \in Persistence
      /\ k \notin persistence
  BY DEF SubmitIdlePersistence, Admit, IInv, NoLostWork, Queued
<1>2. q \subseteq Persistence /\ persistence \subseteq Persistence
  BY <1>1 DEF IInv, TypeOK
<1>3. k \in persistence'
  BY <1>1, BudgetKeepsNewest
<1>4. CASE i \in Superseded(k)
  <2>1. Supersedes(k, i)
    BY <1>1, <1>4, SupersedesMeans
  <2> QED BY <1>3, <2>1
<1>5. CASE i \notin Superseded(k)
  <2>1. i \in OverBudget(q, k) /\ MaxPendingBytes # 0
    BY <1>1, <1>5 DEF OverBudget
  <2>2. i \in Droppable(q, k) /\ PinnedTotal(rest) > MaxPendingBytes
    <3> HIDE DEF q
    <3>1. i \in Droppable(q, k) /\ AfterOlder(q, k, i) > MaxPendingBytes
      BY <2>1, DroppedMeans
    <3> QED BY <3>1 DEF AfterOlder
  <2>3. \A j \in persistence' \cap persistence : seq[j] < seq[i] => Pinned(j) = 0
    <3> HIDE DEF q
    <3> QED BY <1>1, <1>2, <2>1, DropsOldestFirst DEF IInv
  <2>4. rest \subseteq room
    <3> SUFFICES ASSUME NEW x \in rest, x \notin persistence', x # i PROVE x \in newer
      OBVIOUS
    <3>1. x \in OverBudget(q, k) /\ x \in Droppable(q, k)
      BY <1>1, <2>1, DroppedMeans
    <3>2. x \in persistence /\ x \notin Superseded(k)
      BY <3>1 DEF Droppable
    <3>3. ~(seq[x] < seq[i])
      BY <3>1
    <3>4. seq[x] > seq[i]
      <4>1. x \in Items /\ i \in Items /\ seq[x] \in Nat /\ seq[i] \in Nat
        BY <3>2, <1>2 DEF IInv, TypeOK, Items
      <4>2. seq[i] # 0
        BY <4>1 DEF IInv, Numbered, NoLostWork, Queued
      <4>3. seq[x] # seq[i]
        BY <4>1, <4>2 DEF IInv, Numbered
      <4> QED BY <3>3, <4>1, <4>3
    <3>5. ASSUME NEW l \in persistence', Supersedes(l, x) PROVE FALSE
      <4>1. l = k
        BY <1>1, <3>5 DEF Supersedes
      <4>2. Supersedes(k, x)
        BY <3>5, <4>1
      <4> QED BY <1>1, <3>2, <4>2, SupersedesMeans
    <3> QED BY <3>2, <3>4, <3>5
  <2>5. room \subseteq Persistence
    BY <1>1, <1>2
  <2>6. PinnedTotal(rest) <= PinnedTotal(room) /\ PinnedTotal(rest) \in Nat
        /\ PinnedTotal(room) \in Nat
    <3>1. rest \subseteq Persistence
      BY <1>2
    <3> HIDE DEF rest, room
    <3> QED BY <2>4, <2>5, <3>1, TotalGrows, TotalType
  <2>7. PinnedTotal(room) > MaxPendingBytes
    <3> HIDE DEF rest, room
    <3> QED BY <2>2, <2>6, NumbersAssumption
  <2> QED BY <2>2, <2>3, <2>7 DEF Droppable
<1> QED BY <1>4, <1>5

(* Every other way out of the queue. *)
LEMMA LeaveStep ==
  ASSUME IInv, [Next]_vars, NEW i \in persistence, i \notin persistence'
  PROVE  \/ item' = i \/ shutdown'
         \/ persistence' = {j \in persistence : CoalesceKey[j] # CoalesceKey[i]}
         \/ \E k \in Items : SubmitIdlePersistence(k)
<1> USE DEF queues, submitted
<1>1. CASE UNCHANGED vars
  BY <1>1 DEF vars
<1>2. CASE Tick
  BY <1>2 DEF Tick
<1>3. CASE Owner
  <2>1. CASE TakePersistence
    BY <2>1 DEF TakePersistence, Take
  <2>2. CASE ~TakePersistence
    BY <1>3, <2>2 DEF Owner, TakeNext, TakeForeground, TakeIdle, Exit, TakeKeepalive,
       TakeOwnerIdle, Wait, WaitTimesOut, SkipCancelled, StartItem, PublishActive, FinishItem,
       RecordCompletion, StartBeat, FinishBeat, RunOwnerIdle, OwnerOnly
  <2> QED BY <2>1, <2>2
<1>4. CASE Callers
  <2>1. ASSUME NEW c \in BOOLEAN, Shutdown(c) PROVE shutdown'
    BY <2>1 DEF Shutdown
  <2>2. ASSUME NEW c, CancelIdlePersistence(c)
        PROVE  persistence' = {j \in persistence : CoalesceKey[j] # CoalesceKey[i]}
    BY <2>2 DEF CancelIdlePersistence
  <2> QED BY <1>4, <2>1, <2>2 DEF Callers, SubmitRefused, SubmitForeground,
          SubmitIdlePostcommit, CancelFuture, BankReleases, PumpPersistence,
          ArmIdleKeepalive, DisarmIdleKeepalive
<1> QED BY <1>1, <1>2, <1>3, <1>4 DEF Next

(* _enforce_persistence_budget_locked drops only a job that pins memory the
   bank has let go of, the oldest of those first, and only while the queue
   with it is over the budget; nothing else takes a queued job but the owner,
   a newer job of its key, a cancel of its key and shutdown. *)
THEOREM BudgetSparesBanked == Spec => BudgetDropsOnlyPinned
<1> DEFINE Step ==
      \A i \in persistence \ persistence' :
       \/ item' = i \/ shutdown'
       \/ \E j \in persistence' : Supersedes(j, i)
       \/ persistence' = {j \in persistence : CoalesceKey[j] # CoalesceKey[i]}
       \/ LET newer == {j \in persistence : seq[j] > seq[i]
                                           /\ \A k \in persistence' : ~Supersedes(k, j)}
          IN /\ Pinned(i) > 0
             /\ \A j \in persistence' \cap persistence : seq[j] < seq[i] => Pinned(j) = 0
             /\ PinnedTotal(persistence' \cup {i} \cup newer) > MaxPendingBytes
<1>1. IInv /\ [Next]_vars => Step
  BY LeaveStep, BudgetDropStep
<1> QED BY <1>1, SpecIInv, PTL DEF Spec, BudgetDropsOnlyPinned

-----------------------------------------------------------------------------
(* The owner's timer.                                                      *)

(* Where the owner thread waits on the condition. *)
Asleep == {"waiting", "parked"}

(* Min is below every member of a set of naturals. *)
LEMMA MinIsLeast ==
  ASSUME NEW S, S \subseteq Nat, S # {}
  PROVE  \A t \in S : Min(S) <= t
BY LeastExists DEF Min

(* Deadlines are times still to come, or over. *)
LEMMA DeadlinesType ==
  ASSUME TypeOK PROVE Deadlines \subseteq Nat
<1>1. PersistenceReachable => PersistenceReadyIn \in Nat
  BY OldestIsHead, MaxOfTwo DEF PersistenceReachable, PersistenceReadyIn, Clocks, TypeOK, Items
<1>2. idle # {} => due[Oldest(idle)] \in Nat
  BY OldestIsHead DEF TypeOK, Items
<1> QED BY <1>1, <1>2 DEF Deadlines, Clocks, TypeOK

(* What the deadlines are read from. *)
LEMMA DeadlinesStay ==
  ASSUME UNCHANGED <<seq, idle, persistence, pumpBudget, shutdown, ownerWorked, beatFn, due>>,
         \A c \in Clocks \ {"wake"} : left'[c] = left[c]
  PROVE  Deadlines' = Deadlines
BY DEF Deadlines, Oldest, PersistenceReachable, PersistenceReadyIn, BeatOwed, Clocks

(* The later of two deadlines stays the later one. *)
LEMMA MaxOfDown ==
  ASSUME NEW a \in Nat, NEW b \in Nat
  PROVE  Max({Down(a), Down(b)}) = Down(Max({a, b}))
<1>1. ASSUME NEW x \in Nat, NEW y \in Nat
      PROVE  Max({x, y}) = IF x >= y THEN x ELSE y
  <2>1. \A m \in {x, y} : (\A n \in {x, y} : m >= n) => m = IF x >= y THEN x ELSE y
    OBVIOUS
  <2>2. \E m \in {x, y} : \A n \in {x, y} : m >= n
    OBVIOUS
  <2> QED BY <2>1, <2>2 DEF Max
<1>2. Max({a, b}) = IF a >= b THEN a ELSE b
  BY <1>1
<1>3. Max({Down(a), Down(b)}) = IF Down(a) >= Down(b) THEN Down(a) ELSE Down(b)
  <2>1. Down(a) \in Nat /\ Down(b) \in Nat
    BY DEF Down
  <2> QED BY <1>1, <2>1
<1> QED BY <1>2, <1>3 DEF Down

(* A tick brings every deadline one nearer, and adds none. *)
LEMMA TickDeadlines ==
  ASSUME TypeOK, Tick, NEW t \in Deadlines'
  PROVE  \E d \in Deadlines : t = Down(d)
<1> USE DEF Tick, submitted, queues, ownerVars, beatVars
<1>1. Oldest(idle)' = Oldest(idle) /\ Oldest(persistence)' = Oldest(persistence)
  BY DEF Oldest
<1>2. CASE idle' # {} /\ t = due'[Oldest(idle)']
  <2>1. idle # {} /\ Oldest(idle) \in Items
    BY <1>2, OldestIsHead DEF TypeOK, Items
  <2>2. t = Down(due[Oldest(idle)]) /\ due[Oldest(idle)] \in Deadlines
    BY <1>1, <1>2, <2>1 DEF Deadlines
  <2> QED BY <2>2
<1>3. CASE PersistenceReachable' /\ t = PersistenceReadyIn'
  <2>1. PersistenceReachable /\ Oldest(persistence) \in Items
    BY <1>3, OldestIsHead DEF PersistenceReachable, TypeOK, Items
  <2>2. due[Oldest(persistence)] \in Nat /\ left["quiet"] \in Nat
    BY <2>1 DEF TypeOK, Clocks
  <2>3. t = Max({Down(due[Oldest(persistence)]), Down(left["quiet"])})
    BY <1>1, <1>3, <2>1 DEF PersistenceReadyIn, Clocks
  <2>4. t = Down(PersistenceReadyIn)
    BY <2>2, <2>3, MaxOfDown DEF PersistenceReadyIn
  <2> QED BY <2>1, <2>4 DEF Deadlines
<1>4. CASE BeatOwed' /\ t = left'["beat"]
  <2>1. BeatOwed
    BY <1>4 DEF BeatOwed, Down, Clocks, TypeOK
  <2>2. t = Down(left["beat"])
    BY <1>4 DEF Clocks
  <2> QED BY <2>1, <2>2 DEF Deadlines
<1>5. CASE ownerWorked' /\ t = left'["ownerIdle"]
  <2>1. ownerWorked /\ t = Down(left["ownerIdle"])
    BY <1>5 DEF Clocks
  <2> QED BY <2>1 DEF Deadlines
<1> QED BY <1>2, <1>3, <1>4, <1>5 DEF Deadlines

(* A step either wakes the owner, or leaves it something to wake for. *)
LEMMA TimerStep ==
  ASSUME IInv, TimerCovers, [Next]_vars
  PROVE  TimerCovers'
<1> USE DEF Asleep
<1>1. TypeOK
  BY DEF IInv
<1>2. CASE pc' \notin Asleep
  BY <1>2 DEF TimerCovers
<1>3. CASE Wait
  <2> USE <1>3 DEF Wait, queues, submitted, beatVars
  <2>1. Deadlines' = Deadlines
    <3>1. \A c \in Clocks \ {"wake"} : left'[c] = left[c]
      BY <1>1 DEF TypeOK
    <3> QED BY <3>1, DeadlinesStay
  <2>2. foreground' = {} /\ ~MayExit'
    BY DEF NoneDue, MayExit, NothingQueued
  <2>3. CASE Deadlines = {}
    BY <2>1, <2>2, <2>3 DEF TimerCovers
  <2>4. CASE Deadlines # {}
    <3>1. pc' = "waiting" /\ left'["wake"] = Min(Deadlines)
      BY <1>1, <2>4 DEF TypeOK, Clocks
    <3>2. \A t \in Deadlines : Min(Deadlines) <= t
      BY <1>1, <2>4, DeadlinesType, MinIsLeast
    <3> QED BY <2>1, <2>2, <3>1, <3>2 DEF TimerCovers
  <2> QED BY <2>3, <2>4
<1>4. CASE Tick /\ pc' \in Asleep
  <2>1. pc' = pc /\ foreground' = foreground /\ MayExit' = MayExit
    BY <1>4 DEF Tick, queues, ownerVars, MayExit, NothingQueued
  <2>2. left["wake"] \in Nat /\ left'["wake"] = Down(left["wake"]) /\ Deadlines \subseteq Nat
    BY <1>1, <1>4, DeadlinesType DEF Tick, TypeOK, Clocks
  <2>3. pc = "parked" => Deadlines' = {}
    BY <1>1, <1>4, TickDeadlines DEF TimerCovers
  <2>4. ASSUME pc = "waiting", NEW t \in Deadlines' PROVE left'["wake"] <= t
    <3>1. PICK d \in Deadlines : t = Down(d)
      BY <1>1, <1>4, TickDeadlines
    <3>2. left["wake"] <= d /\ d \in Nat
      BY <2>2, <2>4 DEF TimerCovers
    <3> QED BY <2>2, <3>1, <3>2 DEF Down
  <2> QED BY <1>4, <2>1, <2>3, <2>4 DEF TimerCovers
<1>5. ASSUME UNCHANGED <<pc, seq, foreground, idle, persistence, pumpBudget, shutdown,
                         ownerWorked, beatFn, due, left>>
      PROVE  TimerCovers'
  <2>1. Deadlines' = Deadlines
    BY <1>5, DeadlinesStay
  <2>2. MayExit' = MayExit
    BY <1>5 DEF MayExit, NothingQueued
  <2> QED BY <1>5, <2>1, <2>2 DEF TimerCovers
<1>6. CASE Owner /\ ~Wait
  <2>1. pc' \notin Asleep
    BY <1>6 DEF Owner, TakeNext, TakeForeground, TakeIdle, TakePersistence, Take, Exit,
       TakeKeepalive, TakeOwnerIdle, WaitTimesOut, SkipCancelled, StartItem, PublishActive,
       FinishItem, RecordCompletion, StartBeat, FinishBeat, RunOwnerIdle
  <2> QED BY <1>2, <2>1
<1>7. CASE Callers
  <2> USE DEF queues, submitted, ownerVars, beatVars
  <2>1. ASSUME NEW i \in Items, SubmitRefused(i) \/ CancelFuture(i) \/ BankReleases(i)
        PROVE  TimerCovers'
    BY <1>5, <2>1 DEF SubmitRefused, CancelFuture, BankReleases
  <2>2. ASSUME Notify PROVE TimerCovers'
    BY <1>2, <2>2 DEF Notify
  <2> QED BY <1>7, <2>1, <2>2 DEF Callers, SubmitForeground, SubmitIdlePostcommit,
          SubmitIdlePersistence, Admit, CancelIdlePersistence, PumpPersistence,
          ArmIdleKeepalive, DisarmIdleKeepalive, Shutdown
<1>8. CASE UNCHANGED vars
  BY <1>5, <1>8 DEF vars
<1> QED BY <1>2, <1>3, <1>4, <1>6, <1>7, <1>8 DEF Next

(* A timer that covers the deadlines leaves nothing to take before it ends. *)
LEMMA CoveredNeverOversleeps ==
  ASSUME TypeOK, TimerCovers PROVE OwnerNeverOversleeps
<1> SUFFICES ASSUME pc \in {"waiting", "parked"}, pc = "parked" \/ left["wake"] > 0
             PROVE  NoneDue /\ ~BeatDue /\ ~OwnerIdleDue
  BY DEF OwnerNeverOversleeps, TimerCovers
<1>1. ASSUME NEW t \in Deadlines PROVE t > 0
  <2>1. pc = "waiting" /\ left["wake"] <= t /\ t \in Nat /\ left["wake"] \in Nat
    BY <1>1, DeadlinesType DEF TimerCovers, TypeOK, Clocks
  <2> QED BY <2>1
<1>2. ~IdleDue
  BY <1>1 DEF IdleDue, Deadlines
<1>3. ~PersistenceDue
  BY <1>1 DEF PersistenceDue, Deadlines
<1>4. ~BeatDue /\ ~OwnerIdleDue
  BY <1>1 DEF BeatDue, OwnerIdleDue, Deadlines
<1> QED BY <1>2, <1>3, <1>4 DEF NoneDue, TimerCovers

(* _take_next's wait: no caller and no clock makes work takable while the owner
   thread is asleep with time left on its timer, or without a timer. *)
THEOREM OwnerSleepsSafely == Spec => []OwnerNeverOversleeps
<1>1. Init => TimerCovers
  BY DEF Init, TimerCovers
<1>2. IInv /\ TimerCovers /\ [Next]_vars => TimerCovers'
  BY TimerStep
<1>3. IInv /\ TimerCovers => OwnerNeverOversleeps
  BY CoveredNeverOversleeps DEF IInv
<1> QED BY <1>1, <1>2, <1>3, SpecIInv, PTL DEF Spec
=============================================================================
