-------------------------- MODULE BatchedARProofs --------------------------
(***************************************************************************)
(* Theorems about BatchedARService, for any set of jobs and any number of  *)
(* rows: its safety properties, from one inductive invariant.  One lemma   *)
(* per action, one step per part of the invariant it can disturb.          *)
(***************************************************************************)
EXTENDS BatchedARService, FiniteSetTheorems, WellFoundedInduction, TLAPS

-----------------------------------------------------------------------------
(* Lemmas about the operators of the model.                                *)

LEMMA SetsOfJobs ==
  ASSUME NEW S \in SUBSET Job
  PROVE  IsFiniteSet(S) /\ Cardinality(S) \in Nat
BY FS_Subset, FS_CardinalityType, BatchedARAssumption

LEMMA SmallerSets ==
  ASSUME NEW S \in SUBSET Job, NEW T \in SUBSET S
  PROVE  Cardinality(T) <= Cardinality(S)
BY SetsOfJobs, FS_Subset

(* A nonempty set of naturals has a least element. *)
LEMMA LeastExists ==
  ASSUME NEW S \in SUBSET Nat, S # {}
  PROVE  \E m \in S : \A n \in S : m <= n
<1>1. IsWellFoundedOn(OpToRel(<, Nat), Nat)
  BY NatLessThanWellFounded
<1>2. PICK m \in S : \A n \in S : <<n, m>> \notin OpToRel(<, Nat)
  BY <1>1, WFMin
<1>3. \A n \in S : ~(n < m)
  BY <1>2 DEF OpToRel
<1> QED BY <1>3

(* The first n jobs of a set are no more than n: the last of them has all the
   others before it. *)
LEMMA FirstIsBounded ==
  ASSUME TypeOK, Tickets, NEW S \in SUBSET Submitted, NEW n \in Nat
  PROVE  First(S, n) \subseteq S /\ Cardinality(First(S, n)) <= n
<1> DEFINE F == First(S, n)
           back(j) == Cardinality(Submitted) - ticket[j]
           B == {back(j) : j \in F}
<1>1. F \subseteq S /\ S \subseteq Job /\ Submitted \subseteq Job
  BY DEF First, Submitted
<1>2. CASE F = {}
  BY <1>1, <1>2, FS_EmptySet
<1>3. CASE F # {}
  <2>1. Cardinality(Submitted) \in Nat
    BY <1>1, SetsOfJobs
  <2>2. \A j \in F : back(j) \in Nat
    BY <1>1, <2>1 DEF Tickets, TypeOK
  <2>3. B \in SUBSET Nat /\ B # {}
    BY <1>3, <2>2
  <2>4. PICK b \in B : \A c \in B : b <= c
    <3> HIDE DEF B
    <3> QED BY <2>3, LeastExists
  <2>5. PICK m \in F : b = back(m)
    OBVIOUS
  <2>6. \A j \in F : back(m) <= back(j)
    BY <2>4, <2>5
  <2>7. \A j \in F : ticket[j] <= ticket[m]
    BY <1>1, <2>1, <2>6 DEF TypeOK
  <2>8. \A j \in F \ {m} : ticket[j] < ticket[m]
    BY <1>1, <2>7 DEF Tickets, TypeOK
  <2> DEFINE P == {k \in S : ticket[k] < ticket[m]}
  <2>9. F \ {m} \subseteq P /\ P \in SUBSET Job
    BY <1>1, <2>8
  <2>10. Cardinality(P) < n /\ Cardinality(P) \in Nat
    BY <2>9, SetsOfJobs DEF First
  <2>11. Cardinality(F \ {m}) <= Cardinality(P)
    BY <2>9, SmallerSets
  <2>12. Cardinality(F \ {m}) = Cardinality(F) - 1 /\ Cardinality(F) \in Nat
    BY <1>1, SetsOfJobs, FS_RemoveElement
  <2> QED BY <1>1, <2>10, <2>11, <2>12
<1> QED BY <1>2, <1>3

(* What answering the jobs of a list does to the futures. *)
LEMMA AnswerHeld ==
  ASSUME IInv, NEW S \in SUBSET Held, NEW how
  PROVE  \A j \in Job : Answer(S, how)[j] = IF j \in S THEN how ELSE future[j]
BY DEF Answer, IInv, HeldAreOpen, TypeOK, Held

LEMMA HeldIsJobs ==
  ASSUME IInv
  PROVE  Held \subseteq Job /\ Held \subseteq Submitted
BY DEF IInv, TypeOK, Held, HeldAreOpen, Tickets, Submitted

(* Jobs that leave their list answered, or open and lost, leave the rest. *)
LEMMA HeldLeave ==
  ASSUME IInv, NEW S \in SUBSET Held, NEW L \in SUBSET Held, S \cap L = {},
         NEW how \in {"failed", "result"},
         \A j \in Job : future'[j] = IF j \in S THEN how ELSE future[j],
         lost' \cup unseen' = lost \cup unseen \cup L, Held' = Held \ (S \cup L)
  PROVE  HeldAreOpen'
<1>1. \A j \in Held : future[j] = "waiting" /\ j \in Job /\ j \notin lost \cup unseen
  BY HeldIsJobs DEF IInv, HeldAreOpen
<1>2. lost \cup unseen \subseteq Job
  BY DEF IInv, TypeOK
<1>3. ASSUME NEW j \in Job
      PROVE  j \in Held' <=> future'[j] = "waiting" /\ j \notin lost' \cup unseen'
  BY <1>1, <1>3 DEF IInv, HeldAreOpen
<1>4. ASSUME NEW j \in lost' \cup unseen' PROVE future'[j] = "waiting"
  BY <1>1, <1>2, <1>4 DEF IInv, HeldAreOpen
<1> QED BY <1>3, <1>4 DEF HeldAreOpen

(* Jobs that are lost leave the lists unanswered. *)
LEMMA HeldLost ==
  ASSUME IInv, NEW L \in SUBSET Held, future' = future,
         lost' \cup unseen' = lost \cup unseen \cup L, Held' = Held \ L
  PROVE  HeldAreOpen'
<1>1. \A j \in Held : future[j] = "waiting" /\ j \in Job /\ j \notin lost \cup unseen
  BY HeldIsJobs DEF IInv, HeldAreOpen
<1> QED BY <1>1 DEF HeldAreOpen, IInv

(* Fewer active jobs, or fewer in the batch, leave room. *)
LEMMA RoomStays ==
  ASSUME IInv, active' \subseteq active, batch' \subseteq batch
  PROVE  Room'
<1>1. active \subseteq Job /\ batch \subseteq Job
  BY DEF IInv, TypeOK
<1>2. Cardinality(active') <= Cardinality(active) /\ Cardinality(batch') <= Cardinality(batch)
  BY <1>1, SmallerSets
<1>3. /\ Cardinality(active) \in Nat /\ Cardinality(active') \in Nat
      /\ Cardinality(batch) \in Nat /\ Cardinality(batch') \in Nat
  BY <1>1, SetsOfJobs
<1> QED BY <1>2, <1>3, BatchedARAssumption DEF IInv, Room

(* A batch fits what the active jobs leave. *)
LEMMA FirstPending ==
  ASSUME IInv
  PROVE  /\ First(pending, MaxActive - Cardinality(active)) \subseteq pending
         /\ Cardinality(First(pending, MaxActive - Cardinality(active)))
              <= MaxActive - Cardinality(active)
<1>1. pending \in SUBSET Submitted
  BY HeldIsJobs DEF Held
<1>2. MaxActive - Cardinality(active) \in Nat
  <2>1. active \in SUBSET Job /\ batch \in SUBSET Job
    BY DEF TypeOK, IInv
  <2>2. Cardinality(active) \in Nat /\ Cardinality(batch) \in Nat
    BY <2>1, SetsOfJobs
  <2> QED BY <2>2, BatchedARAssumption DEF Room, IInv
<1> QED BY <1>1, <1>2, FirstIsBounded DEF IInv

-----------------------------------------------------------------------------
(* One lemma per action.                                                   *)

(* A job is submitted. *)
LEMMA SubmitKeeps ==
  ASSUME IInv, NEW j \in Job, Submit(j)
  PROVE  IInv'
<1>1. TypeOK'
  <2>1. Cardinality({k \in Job : ticket[k] > 0}) \in Nat
    BY SetsOfJobs
  <2> QED BY <2>1 DEF Submit, batchVars, stepVars, history, TypeOK, IInv
<1>2. OnePump'
  <2>1. CASE pumpScheduled
    BY <2>1 DEF Submit, history, OnePump, TypeOK, IInv
  <2>2. CASE ~pumpScheduled
    BY <2>2 DEF Submit, history, OnePump, DeadIsScheduled, TypeOK, IInv
  <2> QED BY <2>1, <2>2
<1>3. DeadIsScheduled'
  BY DEF stepVars, history, batchVars, Submit, TypeOK, DeadIsScheduled, IInv
<1>4. Tickets'
  <2>1. Submitted \in SUBSET Job /\ j \notin Submitted
    BY DEF Submit, Submitted, Tickets, TypeOK, IInv
  <2>2. IsFiniteSet(Submitted) /\ Cardinality(Submitted) \in Nat
    BY <2>1, SetsOfJobs
  <2>3. ticket' = [ticket EXCEPT ![j] = 1 + Cardinality(Submitted)]
    BY DEF Submit, Submitted
  <2>4. Submitted' = Submitted \cup {j}
    <3>1. ticket'[j] > 0
      BY <2>2, <2>3 DEF TypeOK, IInv
    <3>2. \A k \in Job \ {j} : ticket'[k] = ticket[k]
      BY <2>3 DEF TypeOK, IInv
    <3>3. Submitted' = {k \in Job : ticket'[k] > 0}
      BY DEF Submitted
    <3> QED BY <3>1, <3>2, <3>3 DEF Submitted
  <2>5. Cardinality(Submitted') = Cardinality(Submitted) + 1
    BY <2>1, <2>2, <2>4, FS_AddElement
  <2>6. \A k \in Job : (ticket'[k] > 0) = (future'[k] # "new")
    BY <2>2, <2>3 DEF Submit, Tickets, TypeOK, IInv
  <2>7. \A k \in Job : ticket'[k] <= Cardinality(Submitted')
    BY <2>2, <2>3, <2>5 DEF Tickets, TypeOK, IInv
  <2>8. ASSUME NEW i \in Submitted', NEW k \in Submitted', ticket'[i] = ticket'[k] PROVE i = k
    <3>1. \A x \in Submitted : ticket'[x] = ticket[x] /\ ticket[x] <= Cardinality(Submitted)
                               /\ ticket[x] \in Nat
      BY <2>1, <2>3 DEF Tickets, TypeOK, IInv
    <3>2. ticket'[j] = 1 + Cardinality(Submitted)
      BY <2>3 DEF TypeOK, IInv
    <3>3. CASE i \in Submitted /\ k \in Submitted
      BY <2>8, <3>1, <3>3 DEF Tickets, IInv
    <3>4. CASE i = j \/ k = j
      BY <2>2, <2>4, <2>8, <3>1, <3>2, <3>4
    <3> QED BY <2>4, <3>3, <3>4
  <2> QED BY <2>6, <2>7, <2>8 DEF Tickets
<1>5. Apart'
  <2>1. j \notin Held
    BY DEF Submit, HeldAreOpen, IInv
  <2> QED BY <2>1 DEF Submit, batchVars, Held, Apart, IInv
<1>6. HeldAreOpen'
  BY DEF stepVars, history, batchVars, Submit, TypeOK, Held, HeldAreOpen, IInv
<1>7. RowsFollow'
  BY DEF stepVars, history, batchVars, Submit, TypeOK, RowsFollow, IInv
<1>8. ListsInUse' /\ Room'
  BY DEF stepVars, history, batchVars, Submit, ListsInUse, Room, IInv
<1> QED BY <1>1, <1>2, <1>3, <1>4, <1>5, <1>6, <1>7, <1>8 DEF IInv

(* A request is cancelled. *)
LEMMA CancelKeeps ==
  ASSUME IInv, NEW j \in Job, Cancel(j)
  PROVE  IInv'
<1>1. TypeOK'
  BY DEF serviceVars, stepVars, history, batchVars, Cancel, TypeOK, IInv
<1>2. ListsInUse'
  BY DEF serviceVars, stepVars, history, batchVars, Cancel, TypeOK, ListsInUse, IInv
<1>3. OnePump' /\ DeadIsScheduled' /\ Tickets' /\ Apart' /\ HeldAreOpen' /\ RowsFollow' /\ Room'
  BY DEF serviceVars, stepVars, history, batchVars, Cancel, OnePump, DeadIsScheduled,
      Submitted, Tickets, Apart, Held, HeldAreOpen, RowsFollow, Room, IInv
<1> QED BY <1>1, <1>2, <1>3 DEF IInv

(* The pump starts, or its generator cannot be built. *)
LEMMA PumpStartKeeps ==
  ASSUME IInv, NEW ok \in BOOLEAN, PumpStart(ok)
  PROVE  IInv'
<1>1. TypeOK'
  BY DEF jobVars, stepVars, batchVars, PumpStart, TypeOK, IInv
<1>2. OnePump'
  BY DEF jobVars, stepVars, batchVars, PumpStart, TypeOK, OnePump, IInv
<1>3. DeadIsScheduled'
  BY DEF PumpStart, OnePump, DeadIsScheduled, TypeOK, IInv
<1>4. ListsInUse'
  BY DEF jobVars, stepVars, batchVars, PumpStart, TypeOK, ListsInUse, IInv
<1>5. RowsFollow'
  <2>1. active = {} /\ rows = {} /\ removing = {}
    BY DEF PumpStart, ListsInUse, IInv
  <2> QED BY <2>1 DEF PumpStart, jobVars, stepVars, RowsFollow, IInv
<1>6. Tickets' /\ Apart' /\ HeldAreOpen' /\ Room'
  BY DEF jobVars, stepVars, batchVars, PumpStart, Submitted, Tickets, Apart, Held,
      HeldAreOpen, Room, IInv
<1> QED BY <1>1, <1>2, <1>3, <1>4, <1>5, <1>6 DEF IInv

(* A batch is taken. *)
LEMMA AdmitTakeKeeps ==
  ASSUME IInv, AdmitTake
  PROVE  IInv'
<1>1. TypeOK'
  <2>1. batch' \subseteq pending
    BY FirstPending DEF AdmitTake
  <2> QED BY <2>1 DEF AdmitTake, jobVars, stepVars, history, TypeOK, IInv
<1>2. OnePump'
  BY DEF jobVars, stepVars, history, AdmitTake, TypeOK, OnePump, IInv
<1>3. Apart'
  <2>1. batch' \subseteq pending
    BY FirstPending DEF AdmitTake
  <2>2. batch = {}
    BY DEF AdmitTake, ListsInUse, IInv
  <2> QED BY <2>1, <2>2 DEF AdmitTake, Apart, IInv
<1>4. HeldAreOpen'
  <2>1. batch' \subseteq pending
    BY FirstPending DEF AdmitTake
  <2>2. batch = {}
    BY DEF AdmitTake, ListsInUse, IInv
  <2>3. Held' = Held
    BY <2>1, <2>2 DEF AdmitTake, Held
  <2> QED BY <2>3 DEF AdmitTake, jobVars, history, HeldAreOpen, IInv
<1>5. ListsInUse'
  BY DEF jobVars, stepVars, history, AdmitTake, TypeOK, ListsInUse, IInv
<1>6. RowsFollow'
  BY DEF jobVars, stepVars, history, AdmitTake, TypeOK, RowsFollow, IInv
<1>7. Room'
  <2>1. Cardinality(batch') <= MaxActive - Cardinality(active)
    BY FirstPending DEF AdmitTake
  <2>2. batch' \subseteq Job /\ active \subseteq Job
    BY FirstPending DEF AdmitTake, TypeOK, IInv
  <2>3. Cardinality(batch') \in Nat /\ Cardinality(active) \in Nat
    BY <2>2, SetsOfJobs
  <2> QED BY <2>1, <2>3, BatchedARAssumption DEF AdmitTake, Room
<1>8. DeadIsScheduled' /\ Tickets'
  BY DEF jobVars, stepVars, history, AdmitTake, DeadIsScheduled, Submitted, Tickets, IInv
<1> QED BY <1>1, <1>2, <1>3, <1>4, <1>5, <1>6, <1>7, <1>8 DEF IInv

(* The cancelled jobs of the batch are looked for. *)
LEMMA AdmitFirstReadKeeps ==
  ASSUME IInv, AdmitFirstRead
  PROVE  IInv'
<1>1. TypeOK'
  BY DEF jobVars, serviceVars, stepVars, history, AdmitFirstRead, TypeOK, IInv
<1>2. OnePump'
  BY DEF jobVars, serviceVars, stepVars, history, AdmitFirstRead, TypeOK, OnePump, IInv
<1>3. ListsInUse'
  BY DEF jobVars, serviceVars, stepVars, history, AdmitFirstRead, TypeOK, ListsInUse, IInv
<1>4. RowsFollow'
  BY DEF jobVars, serviceVars, stepVars, history, AdmitFirstRead, TypeOK, RowsFollow, IInv
<1>5. DeadIsScheduled' /\ Tickets' /\ Apart' /\ HeldAreOpen' /\ Room'
  BY DEF jobVars, serviceVars, stepVars, history, AdmitFirstRead, DeadIsScheduled,
      Submitted, Tickets, Apart, Held, HeldAreOpen, Room, IInv
<1> QED BY <1>1, <1>2, <1>3, <1>4, <1>5 DEF IInv

(* They are failed, and the others kept. *)
LEMMA AdmitSecondReadKeeps ==
  ASSUME IInv, AdmitSecondRead
  PROVE  IInv'
<1>1. TypeOK'
  BY DEF serviceVars, stepVars, Answer, AdmitSecondRead, TypeOK, IInv
<1>2. OnePump'
  BY DEF serviceVars, stepVars, Answer, AdmitSecondRead, TypeOK, OnePump, IInv
<1>3. Tickets'
  BY DEF serviceVars, stepVars, Answer, AdmitSecondRead, TypeOK, Submitted, Tickets, IInv
<1>4. Apart'
  BY DEF serviceVars, stepVars, Answer, AdmitSecondRead, TypeOK, Apart, IInv
<1>5. HeldAreOpen'
  <2> DEFINE L == (batch \cap cancelled) \ doomed
  <2>1. doomed \subseteq batch \cap cancelled /\ batch \subseteq Held
    BY DEF ListsInUse, Held, IInv
  <2>2. \A j \in Job : future'[j] = IF j \in doomed THEN "failed" ELSE future[j]
    BY <2>1, AnswerHeld DEF AdmitSecondRead
  <2>3. lost' \cup unseen' = lost \cup unseen \cup L
    BY DEF AdmitSecondRead
  <2>4. Held' = Held \ (doomed \cup L)
    BY <2>1 DEF AdmitSecondRead, serviceVars, Held, Apart, IInv
  <2> QED BY <2>1, <2>2, <2>3, <2>4, HeldLeave
<1>6. ListsInUse'
  BY DEF serviceVars, stepVars, Answer, AdmitSecondRead, TypeOK, ListsInUse, IInv
<1>7. RowsFollow'
  BY DEF serviceVars, stepVars, Answer, AdmitSecondRead, TypeOK, RowsFollow, IInv
<1>8. Room'
  BY RoomStays DEF AdmitSecondRead, serviceVars
<1>9. DeadIsScheduled'
  BY DEF serviceVars, stepVars, AdmitSecondRead, DeadIsScheduled, IInv
<1> QED BY <1>1, <1>2, <1>3, <1>4, <1>5, <1>6, <1>7, <1>8, <1>9 DEF IInv

(* The batch becomes rows, or is lost. *)
LEMMA AdmitInsertKeeps ==
  ASSUME IInv, NEW ok \in BOOLEAN, AdmitInsert(ok)
  PROVE  IInv'
<1>1. TypeOK'
  BY DEF jobVars, stepVars, AdmitInsert, TypeOK, IInv
<1>2. OnePump'
  BY DEF jobVars, stepVars, AdmitInsert, TypeOK, OnePump, IInv
<1>3. Apart'
  BY DEF jobVars, stepVars, AdmitInsert, TypeOK, Apart, IInv
<1>4. HeldAreOpen'
  <2>1. CASE ok
    <3>1. Held' = Held
      BY <2>1 DEF AdmitInsert, Held
    <3> QED BY <2>1, <3>1 DEF AdmitInsert, jobVars, HeldAreOpen, IInv
  <2>2. CASE ~ok
    <3>1. batch \subseteq Held /\ Held' = Held \ batch
      BY <2>2 DEF AdmitInsert, Held, Apart, IInv
    <3>2. lost' \cup unseen' = lost \cup unseen \cup batch
      BY <2>2 DEF AdmitInsert
    <3>3. future' = future
      BY DEF AdmitInsert, jobVars
    <3> QED BY <3>1, <3>2, <3>3, HeldLost
  <2> QED BY <2>1, <2>2
<1>5. ListsInUse'
  BY DEF jobVars, stepVars, AdmitInsert, TypeOK, ListsInUse, IInv
<1>6. RowsFollow'
  BY DEF jobVars, stepVars, AdmitInsert, TypeOK, RowsFollow, IInv
<1>7. Room'
  <2>1. CASE ok
    <3>1. active \in SUBSET Job /\ batch \in SUBSET Job /\ active \cap batch = {}
      BY DEF Apart, TypeOK, IInv
    <3>2. Cardinality(active') = Cardinality(active) + Cardinality(batch)
      <4>1. active' = active \cup batch
        BY <2>1 DEF AdmitInsert
      <4>2. IsFiniteSet(active) /\ IsFiniteSet(batch)
        BY <3>1, SetsOfJobs
      <4>3. Cardinality(active') =
              Cardinality(active) + Cardinality(batch) - Cardinality(active \cap batch)
        BY <4>1, <4>2, FS_Union
      <4>4. Cardinality(active \cap batch) = 0
        BY <3>1, FS_EmptySet
      <4>5. Cardinality(active) \in Nat /\ Cardinality(batch) \in Nat
        BY <3>1, SetsOfJobs
      <4> QED BY <4>3, <4>4, <4>5
    <3>3. Cardinality(batch') = 0
      BY FS_EmptySet DEF AdmitInsert
    <3> QED BY <3>1, <3>2, <3>3, SetsOfJobs, BatchedARAssumption DEF Room, IInv
  <2>2. CASE ~ok
    BY <2>2, RoomStays DEF AdmitInsert
  <2> QED BY <2>1, <2>2
<1>8. DeadIsScheduled' /\ Tickets'
  BY DEF jobVars, stepVars, AdmitInsert, DeadIsScheduled, Submitted, Tickets, IInv
<1> QED BY <1>1, <1>2, <1>3, <1>4, <1>5, <1>6, <1>7, <1>8 DEF IInv

(* Whether there is work. *)
LEMMA CheckKeeps ==
  ASSUME IInv, NEW late \in BOOLEAN, Check(late)
  PROVE  IInv'
<1>1. TypeOK'
  BY DEF jobVars, serviceVars, stepVars, history, batchVars, Check, TypeOK, IInv
<1>2. OnePump'
  BY DEF jobVars, serviceVars, stepVars, history, batchVars, Check, TypeOK, OnePump, IInv
<1>3. ListsInUse'
  BY DEF jobVars, serviceVars, stepVars, history, batchVars, Check, TypeOK, ListsInUse, IInv
<1>4. RowsFollow'
  BY DEF jobVars, serviceVars, stepVars, history, batchVars, Check, TypeOK, RowsFollow, IInv
<1>5. DeadIsScheduled' /\ Tickets' /\ Apart' /\ HeldAreOpen' /\ Room'
  BY DEF jobVars, serviceVars, stepVars, history, batchVars, Check, DeadIsScheduled,
      Submitted, Tickets, Apart, Held, HeldAreOpen, Room, IInv
<1> QED BY <1>1, <1>2, <1>3, <1>4, <1>5 DEF IInv

(* The cancelled rows leave the active map. *)
LEMMA RemoveTakeKeeps ==
  ASSUME IInv, RemoveTake
  PROVE  IInv'
<1>1. TypeOK'
  BY DEF jobVars, stepVars, history, batchVars, RemoveTake, TypeOK, IInv
<1>2. OnePump'
  BY DEF jobVars, stepVars, history, batchVars, RemoveTake, TypeOK, OnePump, IInv
<1>3. Apart'
  BY DEF jobVars, stepVars, history, batchVars, RemoveTake, TypeOK, Apart, IInv
<1>4. HeldAreOpen'
  <2>1. Held' = Held
    BY DEF RemoveTake, batchVars, Held, ListsInUse, IInv
  <2> QED BY <2>1 DEF RemoveTake, jobVars, history, HeldAreOpen, IInv
<1>5. ListsInUse'
  BY DEF jobVars, stepVars, history, batchVars, RemoveTake, TypeOK, ListsInUse, IInv
<1>6. RowsFollow'
  <2>1. active' \subseteq rows' /\ active' \cup removing' = active \cup removing
    BY DEF RemoveTake, RowsFollow, ListsInUse, IInv
  <2>2. pc' \in {"step", "removing"}
    BY DEF RemoveTake
  <2> QED BY <2>1, <2>2 DEF RemoveTake, jobVars, RowsFollow, IInv
<1>7. Room'
  BY RoomStays DEF RemoveTake, batchVars
<1>8. DeadIsScheduled' /\ Tickets'
  BY DEF jobVars, stepVars, history, batchVars, RemoveTake, DeadIsScheduled, Submitted,
      Tickets, IInv
<1> QED BY <1>1, <1>2, <1>3, <1>4, <1>5, <1>6, <1>7, <1>8 DEF IInv

(* And the generator. *)
LEMMA RemoveRowsKeeps ==
  ASSUME IInv, NEW ok \in BOOLEAN, RemoveRows(ok)
  PROVE  IInv'
<1>1. TypeOK'
  BY DEF serviceVars, stepVars, history, batchVars, Answer, RemoveRows, TypeOK, IInv
<1>2. OnePump'
  BY DEF serviceVars, stepVars, history, batchVars, Answer, RemoveRows, TypeOK, OnePump,
      IInv
<1>3. Tickets'
  BY DEF serviceVars, stepVars, history, batchVars, Answer, RemoveRows, TypeOK, Submitted,
      Tickets, IInv
<1>4. Apart'
  BY DEF serviceVars, stepVars, history, batchVars, Answer, RemoveRows, TypeOK, Apart, IInv
<1>5. HeldAreOpen'
  <2>1. removing \subseteq Held /\ Held' = Held \ (removing \cup {})
    BY DEF RemoveRows, serviceVars, batchVars, Held, Apart, IInv
  <2>2. \A j \in Job : future'[j] = IF j \in removing THEN "failed" ELSE future[j]
    BY <2>1, AnswerHeld DEF RemoveRows
  <2>3. lost' \cup unseen' = lost \cup unseen \cup {}
    BY DEF RemoveRows, history
  <2> QED BY <2>1, <2>2, <2>3, HeldLeave
<1>6. ListsInUse'
  BY DEF serviceVars, stepVars, history, batchVars, Answer, RemoveRows, TypeOK, ListsInUse,
      IInv
<1>7. RowsFollow'
  <2>1. \A j \in Job : future'[j] = IF j \in removing THEN "failed" ELSE future[j]
    BY AnswerHeld DEF RemoveRows, Held
  <2>2. rows' \subseteq rows /\ rows \subseteq Job /\ active' = active
    BY DEF RemoveRows, serviceVars, TypeOK, IInv
  <2>3. \A j \in rows' \ (active' \cup removing') : future'[j] = "failed"
    BY <2>1, <2>2 DEF RowsFollow, IInv
  <2>4. pc' = "step" => active' \subseteq rows'
    BY DEF RemoveRows, serviceVars, RowsFollow, Apart, IInv
  <2>5. pc' \in {"step", "fail"}
    BY DEF RemoveRows
  <2> QED BY <2>3, <2>4, <2>5 DEF RowsFollow
<1>8. DeadIsScheduled' /\ Room'
  BY DEF serviceVars, stepVars, history, batchVars, RemoveRows, DeadIsScheduled, Room, IInv
<1> QED BY <1>1, <1>2, <1>3, <1>4, <1>5, <1>6, <1>7, <1>8 DEF IInv

(* The generator steps. *)
LEMMA StepsKeeps ==
  ASSUME IInv, Steps
  PROVE  IInv'
<1>1. TypeOK'
  BY DEF jobVars, serviceVars, history, batchVars, Step, Steps, TypeOK, IInv
<1>2. OnePump'
  BY DEF jobVars, serviceVars, history, batchVars, Step, Steps, TypeOK, OnePump, IInv
<1>3. ListsInUse'
  BY DEF jobVars, serviceVars, history, batchVars, Step, Steps, TypeOK, ListsInUse, IInv
<1>4. RowsFollow'
  BY DEF jobVars, serviceVars, history, batchVars, Step, Steps, TypeOK, RowsFollow, IInv
<1>5. DeadIsScheduled' /\ Tickets' /\ Apart' /\ HeldAreOpen' /\ Room'
  BY DEF jobVars, serviceVars, history, batchVars, Step, Steps, DeadIsScheduled, Submitted,
      Tickets, Apart, Held, HeldAreOpen, Room, IInv
<1> QED BY <1>1, <1>2, <1>3, <1>4, <1>5 DEF IInv

(* The generator raises. *)
LEMMA StepRaisesKeeps ==
  ASSUME IInv, StepRaises
  PROVE  IInv'
<1>1. TypeOK'
  BY DEF jobVars, serviceVars, stepVars, history, batchVars, StepRaises, TypeOK, IInv
<1>2. OnePump'
  BY DEF jobVars, serviceVars, stepVars, history, batchVars, StepRaises, TypeOK, OnePump,
      IInv
<1>3. ListsInUse'
  BY DEF jobVars, serviceVars, stepVars, history, batchVars, StepRaises, TypeOK, ListsInUse,
      IInv
<1>4. RowsFollow'
  BY DEF jobVars, serviceVars, stepVars, history, batchVars, StepRaises, TypeOK, RowsFollow,
      IInv
<1>5. DeadIsScheduled' /\ Tickets' /\ Apart' /\ HeldAreOpen' /\ Room'
  BY DEF jobVars, serviceVars, stepVars, history, batchVars, StepRaises, DeadIsScheduled,
      Submitted, Tickets, Apart, Held, HeldAreOpen, Room, IInv
<1> QED BY <1>1, <1>2, <1>3, <1>4, <1>5 DEF IInv

(* A response nobody waits for. *)
LEMMA HandleUnknownKeeps ==
  ASSUME IInv, NEW j \in Job, HandleUnknown(j)
  PROVE  IInv'
<1>1. TypeOK'
  BY DEF batchVars, Handled, Handling, HandleUnknown, TypeOK, IInv
<1>2. OnePump'
  BY DEF batchVars, Handled, Handling, HandleUnknown, TypeOK, OnePump, IInv
<1>3. ListsInUse'
  BY DEF batchVars, Handled, Handling, HandleUnknown, TypeOK, ListsInUse, IInv
<1>4. RowsFollow'
  BY DEF batchVars, Handled, Handling, HandleUnknown, TypeOK, RowsFollow, IInv
<1>5. DeadIsScheduled' /\ Tickets' /\ Apart' /\ HeldAreOpen' /\ Room'
  BY DEF batchVars, Handled, Handling, HandleUnknown, DeadIsScheduled, Submitted, Tickets,
      Apart, Held, HeldAreOpen, Room, IInv
<1> QED BY <1>1, <1>2, <1>3, <1>4, <1>5 DEF IInv

(* A response whose request is cancelled. *)
LEMMA HandleCancelledKeeps ==
  ASSUME IInv, NEW j \in Job, NEW ok \in BOOLEAN, HandleCancelled(j, ok)
  PROVE  IInv'
<1>1. TypeOK'
  BY DEF batchVars, Answer, Handled, Handling, HandleCancelled, TypeOK, IInv
<1>2. OnePump'
  BY DEF batchVars, Answer, Handled, Handling, HandleCancelled, TypeOK, OnePump, IInv
<1>3. Tickets'
  BY DEF batchVars, Answer, Handled, Handling, HandleCancelled, TypeOK, Submitted, Tickets,
      IInv
<1>4. Apart'
  BY DEF batchVars, Answer, Handled, Handling, HandleCancelled, TypeOK, Apart, IInv
<1>5. HeldAreOpen'
  <2>1. j \in Held /\ Held' = Held \ ({j} \cup {})
    BY DEF HandleCancelled, Handling, batchVars, Held, Apart, IInv
  <2>2. \A k \in Job : future'[k] = IF k \in {j} THEN "failed" ELSE future[k]
    BY <2>1, AnswerHeld DEF HandleCancelled
  <2>3. lost' \cup unseen' = lost \cup unseen \cup {}
    BY DEF HandleCancelled, Handling
  <2> QED BY <2>1, <2>2, <2>3, HeldLeave
<1>6. ListsInUse'
  BY DEF batchVars, Answer, Handled, Handling, HandleCancelled, TypeOK, ListsInUse, IInv
<1>7. RowsFollow'
  <2>1. \A k \in Job : future'[k] = IF k \in {j} THEN "failed" ELSE future[k]
    BY AnswerHeld DEF HandleCancelled, Held
  <2>2. rows' \subseteq rows /\ rows \subseteq Job /\ active' = active \ {j} /\ removing' = removing
    BY DEF HandleCancelled, Handling, TypeOK, IInv
  <2>3. \A k \in rows' \ (active' \cup removing') : future'[k] = "failed"
    BY <2>1, <2>2 DEF RowsFollow, IInv
  <2>4. pc' = "fail" \/ (/\ active' \subseteq rows' \cup finishing'
                         /\ finishing' \subseteq responses' \ rows')
    BY DEF HandleCancelled, Handling, Handled, RowsFollow, IInv
  <2>5. pc' = "fail" \/ pc' = "handle" \/ (pc' = "loop" /\ responses' = {})
    BY DEF HandleCancelled, Handled
  <2> QED BY <2>3, <2>4, <2>5 DEF RowsFollow
<1>8. Room'
  BY RoomStays DEF HandleCancelled, Handling, batchVars
<1>9. DeadIsScheduled'
  BY DEF batchVars, Handled, Handling, HandleCancelled, DeadIsScheduled, IInv
<1> QED BY <1>1, <1>2, <1>3, <1>4, <1>5, <1>6, <1>7, <1>8, <1>9 DEF IInv

(* A token. *)
LEMMA HandleTokenKeeps ==
  ASSUME IInv, NEW j \in Job, HandleToken(j)
  PROVE  IInv'
<1>1. TypeOK'
  BY DEF batchVars, Handled, Handling, HandleToken, TypeOK, IInv
<1>2. OnePump'
  BY DEF batchVars, Handled, Handling, HandleToken, TypeOK, OnePump, IInv
<1>3. ListsInUse'
  BY DEF batchVars, Handled, Handling, HandleToken, TypeOK, ListsInUse, IInv
<1>4. RowsFollow'
  BY DEF batchVars, Handled, Handling, HandleToken, TypeOK, RowsFollow, IInv
<1>5. DeadIsScheduled' /\ Tickets' /\ Apart' /\ HeldAreOpen' /\ Room'
  BY DEF batchVars, Handled, Handling, HandleToken, DeadIsScheduled, Submitted, Tickets,
      Apart, Held, HeldAreOpen, Room, IInv
<1> QED BY <1>1, <1>2, <1>3, <1>4, <1>5 DEF IInv

(* A token whose callback raises. *)
LEMMA HandleCallbackRaisesKeeps ==
  ASSUME IInv, NEW j \in Job, HandleCallbackRaises(j)
  PROVE  IInv'
<1>1. TypeOK'
  BY DEF batchVars, Answer, Handled, Handling, HandleCallbackRaises, TypeOK, IInv
<1>2. OnePump'
  BY DEF batchVars, Answer, Handled, Handling, HandleCallbackRaises, TypeOK, OnePump, IInv
<1>3. Tickets'
  BY DEF batchVars, Answer, Handled, Handling, HandleCallbackRaises, TypeOK, Submitted,
      Tickets, IInv
<1>4. Apart'
  BY DEF batchVars, Answer, Handled, Handling, HandleCallbackRaises, TypeOK, Apart, IInv
<1>5. HeldAreOpen'
  <2>1. j \in Held /\ Held' = Held \ ({j} \cup {})
    BY DEF HandleCallbackRaises, Handling, batchVars, Held, Apart, IInv
  <2>2. \A k \in Job : future'[k] = IF k \in {j} THEN "failed" ELSE future[k]
    BY <2>1, AnswerHeld DEF HandleCallbackRaises
  <2>3. lost' \cup unseen' = lost \cup unseen \cup {}
    BY DEF HandleCallbackRaises, Handling
  <2> QED BY <2>1, <2>2, <2>3, HeldLeave
<1>6. ListsInUse'
  BY DEF batchVars, Answer, Handled, Handling, HandleCallbackRaises, TypeOK, ListsInUse,
      IInv
<1>7. RowsFollow'
  <2>1. \A k \in Job : future'[k] = IF k \in {j} THEN "failed" ELSE future[k]
    BY AnswerHeld DEF HandleCallbackRaises, Held
  <2>2. rows' \subseteq rows /\ rows \subseteq Job /\ active' = active \ {j} /\ removing' = removing
    BY DEF HandleCallbackRaises, Handling, TypeOK, IInv
  <2>3. \A k \in rows' \ (active' \cup removing') : future'[k] = "failed"
    BY <2>1, <2>2 DEF RowsFollow, IInv
  <2>4. pc' = "fail" \/ (/\ active' \subseteq rows' \cup finishing'
                         /\ finishing' \subseteq responses' \ rows')
    BY DEF HandleCallbackRaises, Handling, Handled, RowsFollow, IInv
  <2>5. pc' = "fail" \/ pc' = "handle" \/ (pc' = "loop" /\ responses' = {})
    BY DEF HandleCallbackRaises, Handled
  <2> QED BY <2>3, <2>4, <2>5 DEF RowsFollow
<1>8. Room'
  BY RoomStays DEF HandleCallbackRaises, Handling, batchVars
<1>9. DeadIsScheduled'
  BY DEF batchVars, Handled, Handling, HandleCallbackRaises, DeadIsScheduled, IInv
<1> QED BY <1>1, <1>2, <1>3, <1>4, <1>5, <1>6, <1>7, <1>8, <1>9 DEF IInv

(* The last token. *)
LEMMA HandleFinishKeeps ==
  ASSUME IInv, NEW j \in Job, NEW ok \in BOOLEAN, HandleFinish(j, ok)
  PROVE  IInv'
<1>1. TypeOK'
  BY DEF batchVars, Handled, Handling, HandleFinish, TypeOK, IInv
<1>2. OnePump'
  BY DEF batchVars, Handled, Handling, HandleFinish, TypeOK, OnePump, IInv
<1>3. Tickets'
  <2>1. \A k \in Job : (future'[k] # "new") = (future[k] # "new")
    BY DEF HandleFinish, HeldAreOpen, Held, TypeOK, IInv
  <2> QED BY <2>1 DEF HandleFinish, Handling, Tickets, Submitted, IInv
<1>4. Apart'
  BY DEF batchVars, Handled, Handling, HandleFinish, TypeOK, Apart, IInv
<1>5. HeldAreOpen'
  <2>1. j \in Held /\ Held' = Held \ {j}
    BY DEF HandleFinish, Handling, batchVars, Held, Apart, IInv
  <2>2. CASE ok
    <3>1. \A k \in Job : future'[k] = IF k \in {j} THEN "result" ELSE future[k]
      BY <2>2 DEF HandleFinish, TypeOK, IInv
    <3>2. lost' \cup unseen' = lost \cup unseen \cup {} /\ Held' = Held \ ({j} \cup {})
      BY <2>1, <2>2 DEF HandleFinish, Handling
    <3> QED BY <2>1, <3>1, <3>2, HeldLeave
  <2>3. CASE ~ok
    <3>1. future' = future
      BY <2>3 DEF HandleFinish
    <3>2. lost' = lost \cup {j} /\ unseen' = unseen
      BY <2>3 DEF HandleFinish, Handling
    <3>3. lost' \cup unseen' = lost \cup unseen \cup {j}
      BY <3>2
    <3> QED BY <2>1, <3>1, <3>3, HeldLost
  <2> QED BY <2>2, <2>3
<1>6. ListsInUse'
  BY DEF batchVars, Handled, Handling, HandleFinish, TypeOK, ListsInUse, IInv
<1>7. RowsFollow'
  BY DEF batchVars, Handled, Handling, HandleFinish, TypeOK, RowsFollow, IInv
<1>8. Room'
  BY RoomStays DEF HandleFinish, Handling, batchVars
<1>9. DeadIsScheduled'
  BY DEF batchVars, Handled, Handling, HandleFinish, DeadIsScheduled, IInv
<1> QED BY <1>1, <1>2, <1>3, <1>4, <1>5, <1>6, <1>7, <1>8, <1>9 DEF IInv

(* Every job is failed. *)
LEMMA FailAllKeeps ==
  ASSUME IInv, FailAll
  PROVE  IInv'
<1>1. TypeOK'
  BY DEF history, batchVars, Answer, FailAll, TypeOK, IInv
<1>2. OnePump'
  BY DEF history, batchVars, Answer, FailAll, TypeOK, OnePump, IInv
<1>3. Tickets'
  BY DEF history, batchVars, Answer, FailAll, TypeOK, Submitted, Tickets, IInv
<1>4. Apart'
  BY DEF history, batchVars, Answer, FailAll, TypeOK, Apart, IInv
<1>5. HeldAreOpen'
  <2>1. pending \cup active \subseteq Held /\ Held' = Held \ ((pending \cup active) \cup {})
    BY DEF FailAll, batchVars, Held, Apart, IInv
  <2>2. \A j \in Job : future'[j] = IF j \in pending \cup active THEN "failed" ELSE future[j]
    BY <2>1, AnswerHeld DEF FailAll
  <2>3. lost' \cup unseen' = lost \cup unseen \cup {}
    BY DEF FailAll, history
  <2> QED BY <2>1, <2>2, <2>3, HeldLeave
<1>6. ListsInUse'
  BY DEF history, batchVars, Answer, FailAll, TypeOK, ListsInUse, IInv
<1>7. RowsFollow'
  <2>1. \A j \in Job : future'[j] = IF j \in pending \cup active THEN "failed" ELSE future[j]
    BY AnswerHeld DEF FailAll, Held
  <2>2. rows' = rows /\ rows \subseteq Job /\ removing' = removing /\ pc' = "close"
    BY DEF FailAll, TypeOK, IInv
  <2> QED BY <2>1, <2>2 DEF RowsFollow, IInv
<1>8. Room'
  BY RoomStays DEF FailAll, batchVars
<1>9. DeadIsScheduled'
  BY DEF history, batchVars, FailAll, DeadIsScheduled, IInv
<1> QED BY <1>1, <1>2, <1>3, <1>4, <1>5, <1>6, <1>7, <1>8, <1>9 DEF IInv

(* The pump ends. *)
LEMMA CloseKeeps ==
  ASSUME IInv, Close
  PROVE  IInv'
<1>1. TypeOK'
  BY DEF jobVars, stepVars, history, batchVars, Close, TypeOK, IInv
<1>2. OnePump'
  BY DEF jobVars, stepVars, history, batchVars, Close, TypeOK, OnePump, IInv
<1>3. DeadIsScheduled'
  BY DEF Close, history, OnePump, DeadIsScheduled, TypeOK, IInv
<1>4. ListsInUse'
  BY DEF jobVars, stepVars, history, batchVars, Close, TypeOK, ListsInUse, IInv
<1>5. RowsFollow'
  BY DEF jobVars, stepVars, history, batchVars, Close, TypeOK, RowsFollow, IInv
<1>6. Tickets' /\ Apart' /\ HeldAreOpen' /\ Room'
  BY DEF jobVars, stepVars, history, batchVars, Close, Submitted, Tickets, Apart, Held,
      HeldAreOpen, Room, IInv
<1> QED BY <1>1, <1>2, <1>3, <1>4, <1>5, <1>6 DEF IInv

-----------------------------------------------------------------------------
(* The invariant.                                                          *)

(* It holds initially, *)
LEMMA InitHolds == Init => IInv
<1> SUFFICES ASSUME Init PROVE IInv
  OBVIOUS
<1>1. TypeOK /\ OnePump /\ DeadIsScheduled
  <2>1. future \in [Job -> {"new", "waiting", "result", "failed"}] /\ ticket \in [Job -> Nat]
    BY DEF Init
  <2>2. OnePump /\ DeadIsScheduled
    BY DEF Init, OnePump, DeadIsScheduled
  <2> QED BY <2>1, <2>2 DEF Init, TypeOK
<1>2. Apart /\ ListsInUse
  BY DEF Init, Apart, ListsInUse
<1>3. RowsFollow
  BY DEF Init, RowsFollow
<1>4. Tickets
  <2>1. Submitted = {}
    BY DEF Init, Submitted
  <2> QED BY <2>1, FS_EmptySet DEF Init, Tickets
<1>5. HeldAreOpen
  BY DEF Init, HeldAreOpen, Held
<1>6. Room
  BY FS_EmptySet, BatchedARAssumption DEF Init, Room
<1> QED BY <1>1, <1>2, <1>3, <1>4, <1>5, <1>6 DEF IInv

(* while nothing changes, *)
LEMMA StutterKeeps == IInv /\ UNCHANGED vars => IInv'
BY DEF vars, jobVars, serviceVars, stepVars, history, batchVars, IInv, TypeOK, OnePump,
       DeadIsScheduled, Tickets, Submitted, Apart, Held, HeldAreOpen, ListsInUse, RowsFollow,
       Room

(* and across every step. *)
LEMMA NextKeeps ==
  ASSUME IInv, [Next]_vars
  PROVE  IInv'
<1>1. ASSUME NEW j \in Job, Submit(j) \/ Cancel(j) PROVE IInv'
  BY <1>1, SubmitKeeps, CancelKeeps
<1>2. CASE Pump
  <2>1. ASSUME NEW ok \in BOOLEAN,
               PumpStart(ok) \/ AdmitInsert(ok) \/ RemoveRows(ok) \/ Check(ok)
        PROVE  IInv'
    BY <2>1, PumpStartKeeps, AdmitInsertKeeps, RemoveRowsKeeps, CheckKeeps
  <2>2. CASE AdmitTake \/ AdmitFirstRead \/ AdmitSecondRead \/ RemoveTake
    BY <2>2, AdmitTakeKeeps, AdmitFirstReadKeeps, AdmitSecondReadKeeps, RemoveTakeKeeps
  <2>3. CASE Steps \/ StepRaises \/ FailAll \/ Close
    BY <2>3, StepsKeeps, StepRaisesKeeps, FailAllKeeps, CloseKeeps
  <2>4. CASE Handle
    <3>1. ASSUME NEW j \in Job, HandleUnknown(j) \/ HandleToken(j) \/ HandleCallbackRaises(j)
          PROVE  IInv'
      BY <3>1, HandleUnknownKeeps, HandleTokenKeeps, HandleCallbackRaisesKeeps
    <3>2. ASSUME NEW j \in Job, NEW ok \in BOOLEAN, HandleCancelled(j, ok) \/ HandleFinish(j, ok)
          PROVE  IInv'
      BY <3>2, HandleCancelledKeeps, HandleFinishKeeps
    <3> QED BY <2>4, <3>1, <3>2 DEF Handle
  <2> QED BY <1>2, <2>1, <2>2, <2>3, <2>4 DEF Pump
<1>3. CASE UNCHANGED vars
  BY <1>3, StutterKeeps
<1> QED BY <1>1, <1>2, <1>3 DEF Next

(* The inductive invariant holds in every behaviour: the lists share out the
   open jobs, the rows follow the active map, tickets are distinct, and the
   room of a batch was counted when it was taken. *)
THEOREM SpecIInv == Spec => []IInv
<1>1. IInv /\ [Next]_vars => IInv'
  BY NextKeeps
<1> QED BY InitHolds, <1>1, PTL DEF Spec

(* Every state of the service, the pump and the generator has its type. *)
THEOREM TypeCorrect == Spec => []TypeOK
<1>1. IInv => TypeOK
  BY DEF IInv
<1> QED BY <1>1, SpecIInv, PTL

(* However submissions, returns and failures of pumps interleave, the flag
   stands for one pump, or for none once a generator could not be built. *)
THEOREM OnePumpEver == Spec => []OnePump
<1>1. IInv => OnePump
  BY DEF IInv
<1> QED BY <1>1, SpecIInv, PTL

-----------------------------------------------------------------------------
(* The properties that follow from the invariant.                          *)

(* A job that is in a list is in no other. *)
LEMMA ListsCount ==
  ASSUME IInv, NEW j \in Job
  PROVE  Cardinality(Lists(j)) = IF j \in Held THEN 1 ELSE 0
<1> DEFINE P == <<"pending", pending>>
           B == <<"batch", batch>>
           A == <<"active", active>>
           R == <<"removing", removing>>
<1>1. ASSUME NEW L \in {P, B, A, R}, j \in L[2],
             \A M \in {P, B, A, R} : j \in M[2] => M = L
      PROVE  Cardinality(Lists(j)) = 1
  <2>1. Lists(j) = {L}
    BY <1>1 DEF Lists
  <2> QED BY <2>1, FS_Singleton
<1>2. CASE j \in pending
  BY <1>1, <1>2 DEF Held, Apart, IInv
<1>3. CASE j \in batch
  BY <1>1, <1>3 DEF Held, Apart, IInv
<1>4. CASE j \in active
  BY <1>1, <1>4 DEF Held, Apart, IInv
<1>5. CASE j \in removing
  BY <1>1, <1>5 DEF Held, Apart, IInv
<1>6. CASE j \notin Held
  <2>1. Lists(j) = {}
    BY <1>6 DEF Lists, Held
  <2> QED BY <1>6, <2>1, FS_EmptySet
<1> QED BY <1>2, <1>3, <1>4, <1>5, <1>6 DEF Held

(* The pump keeps no job it has answered, and every other open job is in
   exactly one of its lists, or lost in one of the two ways. *)
THEOREM JobsAreHeldOnce == Spec => []HeldOnce
<1>1. IInv => HeldOnce
  BY ListsCount DEF IInv, HeldAreOpen, HeldOnce
<1> QED BY <1>1, SpecIInv, PTL

(* The generator's rows and the active map stay in step, within the limit. *)
THEOREM RowsStayInStep == Spec => []RowsInStep
<1>1. ASSUME IInv PROVE RowsInStep
  <2>1. pc \in {"loop", "check", "remove", "step"} =>
          active \subseteq rows /\ \A j \in rows \ active : future[j] = "failed"
    BY <1>1 DEF IInv, RowsFollow, ListsInUse
  <2>2. active \in SUBSET Job /\ batch \in SUBSET Job
    BY <1>1 DEF IInv, TypeOK
  <2>3. Cardinality(active) \in Nat /\ Cardinality(batch) \in Nat
    BY <2>2, SetsOfJobs
  <2>4. Cardinality(active) <= MaxActive
    BY <1>1, <2>3, BatchedARAssumption DEF IInv, Room
  <2> QED BY <2>1, <2>4 DEF RowsInStep
<1> QED BY <1>1, SpecIInv, PTL

(* No step answers a job a second time. *)
LEMMA AnsweredStays ==
  ASSUME IInv, [Next]_vars, NEW j \in Job, future[j] \in {"result", "failed"}
  PROVE  future'[j] = future[j]
<1>1. future[j] # "waiting" /\ future[j] # "new" /\ j \notin active
  BY DEF HeldAreOpen, Held, IInv
<1>2. ASSUME NEW S \in SUBSET Job, NEW how PROVE Answer(S, how)[j] = future[j]
  BY <1>1 DEF Answer
<1>3. pending \in SUBSET Job /\ active \in SUBSET Job /\ doomed \in SUBSET Job
      /\ removing \in SUBSET Job
  BY DEF TypeOK, IInv
<1>4. ASSUME NEW k \in Job, Submit(k) \/ Cancel(k) PROVE future'[j] = future[j]
  BY <1>1, <1>4 DEF Submit, Cancel, TypeOK, IInv
<1>5. CASE Pump
  <2>1. ASSUME NEW ok \in BOOLEAN, PumpStart(ok) \/ AdmitInsert(ok) \/ Check(ok)
        PROVE  future' = future
    BY <2>1 DEF PumpStart, AdmitInsert, Check, jobVars
  <2>2. CASE AdmitTake \/ AdmitFirstRead \/ RemoveTake \/ Steps \/ StepRaises \/ Close
    BY <2>2 DEF AdmitTake, AdmitFirstRead, RemoveTake, Steps, Step, StepRaises, Close, jobVars
  <2>3. ASSUME NEW ok \in BOOLEAN, RemoveRows(ok) PROVE future'[j] = future[j]
    BY <1>2, <1>3, <2>3 DEF RemoveRows
  <2>4. CASE AdmitSecondRead
    BY <1>2, <1>3, <2>4 DEF AdmitSecondRead
  <2>5. CASE FailAll
    <3>1. pending \cup active \in SUBSET Job
      BY <1>3
    <3> QED BY <1>2, <2>5, <3>1 DEF FailAll
  <2>6. CASE Handle
    <3>1. ASSUME NEW k \in Job, HandleUnknown(k) \/ HandleToken(k) PROVE future' = future
      BY <3>1 DEF HandleUnknown, HandleToken
    <3>2. ASSUME NEW k \in Job, HandleCallbackRaises(k) PROVE future'[j] = future[j]
      BY <1>2, <3>2 DEF HandleCallbackRaises
    <3>3. ASSUME NEW k \in Job, NEW ok \in BOOLEAN, HandleCancelled(k, ok)
          PROVE  future'[j] = future[j]
      BY <1>2, <3>3 DEF HandleCancelled
    <3>4. ASSUME NEW k \in Job, NEW ok \in BOOLEAN, HandleFinish(k, ok)
          PROVE  future'[j] = future[j]
      <4>1. k \in active
        BY <3>4 DEF HandleFinish
      <4>2. k # j
        BY <1>1, <4>1
      <4> QED BY <3>4, <4>2 DEF HandleFinish, TypeOK, IInv
    <3> QED BY <2>6, <3>1, <3>2, <3>3, <3>4 DEF Handle
  <2> QED BY <1>5, <2>1, <2>2, <2>3, <2>4, <2>5, <2>6 DEF Pump
<1>6. CASE UNCHANGED vars
  BY <1>6 DEF vars, jobVars
<1> QED BY <1>4, <1>5, <1>6 DEF Next

(* A future is answered once: the last token of a row never completes a job
   that a callback, a cancel or a failing pump has answered before. *)
THEOREM AnsweredOnce == Spec => AnswersOnce
<1>1. IInv /\ [Next]_vars =>
        [\A j \in Job : future[j] \in {"result", "failed"} => future'[j] = future[j]]_vars
  BY AnsweredStays
<1> QED BY <1>1, SpecIInv, PTL DEF Spec, AnswersOnce

-----------------------------------------------------------------------------
(* The contract.                                                           *)

(* The first n jobs of a set come before the others. *)
LEMMA FirstComeFirst ==
  ASSUME TypeOK, NEW S \in SUBSET Job, NEW n \in Nat,
         NEW j \in First(S, n), NEW k \in S \ First(S, n)
  PROVE  ticket[j] < ticket[k]
<1> DEFINE Before(i) == {l \in S : ticket[l] < ticket[i]}
<1> SUFFICES ASSUME ~(ticket[j] < ticket[k]) PROVE FALSE
  OBVIOUS
<1>1. j \in S /\ Before(k) \subseteq Before(j) /\ Before(j) \in SUBSET Job
  BY DEF First, TypeOK
<1>2. Cardinality(Before(k)) <= Cardinality(Before(j))
  BY <1>1, SmallerSets
<1>3. Cardinality(Before(k)) \in Nat /\ Cardinality(Before(j)) \in Nat
  BY <1>1, SetsOfJobs
<1> QED BY <1>2, <1>3 DEF First

(* A new job draws a ticket after all others. *)
LEMMA SubmitIsLast ==
  ASSUME IInv, NEW j \in Job, Submit(j)
  PROVE  /\ ticket' = [ticket EXCEPT ![j] = ticket'[j]]
         /\ ticket'[j] \in Nat /\ \A k \in Job : ticket[k] < ticket'[j]
<1>1. ticket' = [ticket EXCEPT ![j] = 1 + Cardinality(Submitted)]
  BY DEF Submit, Submitted
<1>2. Submitted \in SUBSET Job
  BY DEF Submitted
<1>3. Cardinality(Submitted) \in Nat
  BY <1>2, SetsOfJobs
<1>4. ticket'[j] = 1 + Cardinality(Submitted)
  BY <1>1 DEF IInv, TypeOK
<1> QED BY <1>1, <1>3, <1>4 DEF IInv, TypeOK, Tickets

(* Every job of the batch was submitted before those still pending. *)
LEMMA BatchIsFirstKeeps ==
  ASSUME IInv, BatchIsFirst, [Next]_vars
  PROVE  BatchIsFirst'
<1> USE DEF jobVars, serviceVars, batchVars
<1>1. ASSUME NEW j \in Job, Submit(j) PROVE BatchIsFirst'
  <2>1. /\ \A k \in Job : ticket[k] < ticket'[j] /\ (k # j => ticket'[k] = ticket[k])
        /\ batch' = batch /\ pending' = pending \cup {j}
    BY <1>1, SubmitIsLast DEF Submit, IInv, TypeOK
  <2>2. j \notin batch /\ batch \subseteq Job /\ j \notin pending /\ pending \subseteq Job
    BY <1>1 DEF Submit, IInv, TypeOK, HeldAreOpen, Held
  <2> QED BY <2>1, <2>2 DEF BatchIsFirst
<1>2. ASSUME ticket' = ticket, batch' \subseteq batch, pending' \subseteq pending PROVE BatchIsFirst'
  BY <1>2 DEF BatchIsFirst
<1>3. CASE AdmitTake
  <2> DEFINE n == MaxActive - Cardinality(active)
  <2>1. n \in Nat
    <3>1. active \in SUBSET Job /\ batch \in SUBSET Job
      BY DEF TypeOK, IInv
    <3>2. Cardinality(active) \in Nat /\ Cardinality(batch) \in Nat
      BY <3>1, SetsOfJobs
    <3> QED BY <3>2, BatchedARAssumption DEF Room, IInv
  <2>2. /\ batch' = First(pending, n) /\ pending' = pending \ First(pending, n)
        /\ ticket' = ticket
    BY <1>3 DEF AdmitTake
  <2>3. TypeOK /\ pending \in SUBSET Job
    BY DEF IInv, TypeOK
  <2>4. \A j \in First(pending, n), k \in pending \ First(pending, n) : ticket[j] < ticket[k]
    BY <2>1, <2>3, FirstComeFirst
  <2> QED BY <2>2, <2>4 DEF BatchIsFirst
<1>4. ASSUME NEW j \in Job, Cancel(j) PROVE BatchIsFirst'
  BY <1>2, <1>4 DEF Cancel
<1>5. ASSUME NEW ok \in BOOLEAN, PumpStart(ok) \/ AdmitInsert(ok) \/ RemoveRows(ok) \/ Check(ok)
      PROVE  BatchIsFirst'
  BY <1>2, <1>5 DEF PumpStart, AdmitInsert, RemoveRows, Check
<1>6. CASE AdmitFirstRead \/ AdmitSecondRead \/ RemoveTake \/ StepRaises \/ FailAll \/ Close
  BY <1>2, <1>6 DEF AdmitFirstRead, AdmitSecondRead, RemoveTake, StepRaises, FailAll, Close
<1>7. CASE Steps
  BY <1>2, <1>7 DEF Steps, Step
<1>8. CASE Handle
  BY <1>2, <1>8 DEF Handle, Handling, HandleUnknown, HandleToken, HandleCallbackRaises,
     HandleCancelled, HandleFinish
<1>9. CASE UNCHANGED vars
  BY <1>2, <1>9 DEF vars
<1> QED BY <1>1, <1>3, <1>4, <1>5, <1>6, <1>7, <1>8, <1>9 DEF Next, Pump

(* A batch is always the head of what was pending. *)
THEOREM SpecBatchIsFirst == Spec => []BatchIsFirst
<1>1. Init => BatchIsFirst
  BY DEF Init, BatchIsFirst
<1>2. IInv /\ BatchIsFirst /\ [Next]_vars => BatchIsFirst'
  BY BatchIsFirstKeeps
<1> QED BY <1>1, <1>2, SpecIInv, PTL DEF Spec

(* Steps the contract does not see. *)
LEMMA Unseen ==
  ASSUME UNCHANGED <<future, ticket, cancelled>>, active' \cup removing' = active \cup removing,
         lost' \cup unseen' = lost \cup unseen
  PROVE  UNCHANGED Contract!bvars
BY DEF Contract!bvars

(* Jobs of the lists are answered, others are lost, and both leave the group. *)
LEMMA Settles ==
  ASSUME IInv, NEW S \in SUBSET Held, NEW L \in SUBSET Held, S \cap L = {},
         NEW how \in {"failed", "result"}, how = "result" => S \subseteq active \cup removing,
         \A j \in Job : future'[j] = IF j \in S THEN how ELSE future[j],
         future' \in [Job -> {"new", "waiting", "result", "failed"}],
         UNCHANGED <<ticket, cancelled>>,
         lost' \cup unseen' = lost \cup unseen \cup L,
         active' \cup removing' \subseteq active \cup removing,
         (active \cup removing) \ (active' \cup removing') \subseteq S \cup L,
         (active' \cup removing') \cap L = {}
  PROVE  Contract!Settle
<1>1. /\ Held \subseteq Job /\ lost \cup unseen \subseteq Job
      /\ \A j \in Held : future[j] = "waiting" /\ j \notin lost \cup unseen
  BY HeldIsJobs DEF IInv, HeldAreOpen, TypeOK
<1>2. active \cup removing \subseteq Held
  BY DEF Held
<1>3. \A j \in Job : future'[j] # future[j] => j \in S
  OBVIOUS
<1> QED BY <1>1, <1>2, <1>3 DEF Contract!Settle, Contract!Answers

(* The batch enters the generator. *)
LEMMA InsertContract ==
  ASSUME IInv, BatchIsFirst, AdmitInsert(TRUE)
  PROVE  (\E S \in SUBSET Job : Contract!Admit(S)) \/ UNCHANGED Contract!bvars
<1>1. /\ pc = "prepare" /\ active' = active \cup batch /\ removing' = removing
      /\ UNCHANGED <<future, ticket, cancelled, lost, unseen>>
  BY DEF AdmitInsert, jobVars
<1>2. removing = {} /\ batch \in SUBSET Job /\ active \in SUBSET Job /\ batch \cap active = {}
  BY <1>1 DEF IInv, TypeOK, ListsInUse, Apart
<1>3. CASE batch = {}
  BY <1>1, <1>3, Unseen
<1>4. CASE batch # {}
  <2>1. batch \subseteq Contract!Waiting
    BY <1>2 DEF Contract!Waiting, IInv, HeldAreOpen, Held
  <2>2. Cardinality(active \cup batch) <= MaxActive
    <3>1. Cardinality(active \cup batch) = Cardinality(active) + Cardinality(batch) - Cardinality(active \cap batch)
      BY <1>2, SetsOfJobs, FS_Union
    <3>2. Cardinality(active \cap batch) = 0
      BY <1>2, FS_EmptySet
    <3>3. Cardinality(active) \in Nat /\ Cardinality(batch) \in Nat
      BY <1>2, SetsOfJobs
    <3> QED BY <3>1, <3>2, <3>3 DEF IInv, Room
  <2>3. Contract!Waiting \ batch \subseteq pending
    BY <1>2 DEF Contract!Waiting, IInv, HeldAreOpen, Held
  <2>4. Contract!Admit(batch)
    BY <1>1, <1>2, <1>4, <2>1, <2>2, <2>3 DEF Contract!Admit, BatchIsFirst
  <2> QED BY <1>2, <2>4
<1> QED BY <1>3, <1>4

(* The other steps that answer jobs or lose them. *)
LEMMA AnswersContract ==
  ASSUME IInv,
         \/ AdmitSecondRead \/ AdmitInsert(FALSE) \/ FailAll
         \/ \E ok \in BOOLEAN : RemoveRows(ok)
         \/ \E j \in Job : \/ HandleCallbackRaises(j)
                           \/ \E ok \in BOOLEAN : HandleCancelled(j, ok) \/ HandleFinish(j, ok)
  PROVE  Contract!Settle
<1> USE DEF jobVars, serviceVars, history
<1>1. future \in [Job -> {"new", "waiting", "result", "failed"}]
  BY DEF IInv, TypeOK
<1>2. ASSUME NEW S \in SUBSET Held, NEW how \in {"failed", "result"}, future' = Answer(S, how)
      PROVE  /\ \A j \in Job : future'[j] = IF j \in S THEN how ELSE future[j]
             /\ future' \in [Job -> {"new", "waiting", "result", "failed"}]
  BY <1>1, <1>2, AnswerHeld DEF Answer
<1>3. CASE AdmitSecondRead
  <2> DEFINE L == (batch \cap cancelled) \ doomed
  <2>1. doomed \in SUBSET Held /\ L \in SUBSET Held /\ doomed \cap L = {}
    BY DEF IInv, ListsInUse, Held
  <2>2. L \cap (active \cup removing) = {}
    BY DEF IInv, Apart
  <2>3. /\ future' = Answer(doomed, "failed") /\ lost' \cup unseen' = lost \cup unseen \cup L
        /\ UNCHANGED <<ticket, cancelled, active, removing>>
    BY <1>3 DEF AdmitSecondRead
  <2>4. /\ \A j \in Job : future'[j] = IF j \in doomed THEN "failed" ELSE future[j]
        /\ future' \in [Job -> {"new", "waiting", "result", "failed"}]
    BY <1>2, <2>1, <2>3
  <2> HIDE DEF L
  <2> QED BY <2>1, <2>2, <2>3, <2>4, Settles
<1>4. CASE AdmitInsert(FALSE)
  <2>1. /\ future' = future /\ lost' \cup unseen' = lost \cup unseen \cup batch
        /\ UNCHANGED <<ticket, cancelled, active, removing>>
    BY <1>4 DEF AdmitInsert
  <2>2. batch \in SUBSET Held /\ batch \cap (active \cup removing) = {}
    BY DEF IInv, Apart, Held
  <2> DEFINE S == {}
  <2>3. /\ S \in SUBSET Held /\ S \cap batch = {}
        /\ \A j \in Job : future'[j] = IF j \in S THEN "failed" ELSE future[j]
    BY <2>1
  <2> HIDE DEF S
  <2> QED BY <1>1, <2>1, <2>2, <2>3, Settles
<1>5. CASE FailAll
  <2> DEFINE S == pending \cup active
             L == {}
  <2>1. S \in SUBSET Held /\ L \in SUBSET Held /\ S \cap L = {} /\ active \subseteq S
    BY DEF Held
  <2>2. removing = {}
    BY <1>5 DEF FailAll, IInv, ListsInUse
  <2>3. /\ future' = Answer(S, "failed") /\ active' = {}
        /\ UNCHANGED <<ticket, cancelled, removing>> /\ lost' \cup unseen' = lost \cup unseen \cup L
        /\ (active' \cup removing') \cap L = {}
    BY <1>5 DEF FailAll
  <2> HIDE DEF S, L
  <2>4. /\ \A k \in Job : future'[k] = IF k \in S THEN "failed" ELSE future[k]
        /\ future' \in [Job -> {"new", "waiting", "result", "failed"}]
    BY <1>2, <2>1, <2>3
  <2> QED BY <2>1, <2>2, <2>3, <2>4, Settles
<1>6. ASSUME NEW ok \in BOOLEAN, RemoveRows(ok) PROVE Contract!Settle
  <2> DEFINE S == removing
             L == {}
  <2>1. S \in SUBSET Held /\ L \in SUBSET Held /\ S \cap L = {} /\ removing \subseteq S
    BY DEF Held
  <2>2. /\ future' = Answer(S, "failed") /\ removing' = {}
        /\ UNCHANGED <<ticket, cancelled, active>> /\ lost' \cup unseen' = lost \cup unseen \cup L
        /\ (active' \cup removing') \cap L = {}
    BY <1>6 DEF RemoveRows
  <2> HIDE DEF S, L
  <2>3. /\ \A k \in Job : future'[k] = IF k \in S THEN "failed" ELSE future[k]
        /\ future' \in [Job -> {"new", "waiting", "result", "failed"}]
    BY <1>2, <2>1, <2>2
  <2> QED BY <2>1, <2>2, <2>3, Settles
<1>7. ASSUME NEW j \in Job, NEW ok \in BOOLEAN, HandleCallbackRaises(j) \/ HandleCancelled(j, ok)
      PROVE  Contract!Settle
  <2> DEFINE S == {j}
             L == {}
  <2>1. S \subseteq active /\ S \in SUBSET Held /\ L \in SUBSET Held /\ S \cap L = {}
    BY <1>7 DEF HandleCallbackRaises, HandleCancelled, Held
  <2>2. /\ future' = Answer(S, "failed") /\ active' = active \ S
        /\ UNCHANGED <<ticket, cancelled, removing>> /\ lost' \cup unseen' = lost \cup unseen \cup L
        /\ (active' \cup removing') \cap L = {}
    BY <1>7 DEF HandleCallbackRaises, HandleCancelled, Handling
  <2> HIDE DEF S, L
  <2>3. /\ \A k \in Job : future'[k] = IF k \in S THEN "failed" ELSE future[k]
        /\ future' \in [Job -> {"new", "waiting", "result", "failed"}]
    BY <1>2, <2>1, <2>2
  <2> QED BY <2>1, <2>2, <2>3, Settles
<1>8. ASSUME NEW j \in Job, HandleFinish(j, TRUE) PROVE Contract!Settle
  <2> DEFINE S == {j}
             L == {}
  <2>1. S \subseteq active /\ S \in SUBSET Held /\ L \in SUBSET Held /\ S \cap L = {}
    BY <1>8 DEF HandleFinish, Held
  <2>2. /\ future' = [future EXCEPT ![j] = "result"] /\ active' = active \ S
        /\ UNCHANGED <<ticket, cancelled, removing>> /\ lost' \cup unseen' = lost \cup unseen \cup L
        /\ (active' \cup removing') \cap L = {}
    BY <1>8 DEF HandleFinish, Handling
  <2>3. /\ \A k \in Job : future'[k] = IF k \in S THEN "result" ELSE future[k]
        /\ future' \in [Job -> {"new", "waiting", "result", "failed"}]
    BY <1>1, <2>2
  <2> HIDE DEF S, L
  <2> QED BY <2>1, <2>2, <2>3, Settles
<1>9. ASSUME NEW j \in Job, HandleFinish(j, FALSE) PROVE Contract!Settle
  <2> DEFINE S == {}
             L == {j}
  <2>1. L \subseteq active /\ L \cap removing = {} /\ L \in SUBSET Held
    BY <1>9 DEF HandleFinish, Held, IInv, Apart
  <2>2. /\ future' = future /\ active' = active \ L /\ lost' \cup unseen' = lost \cup unseen \cup L
        /\ UNCHANGED <<ticket, cancelled, removing>>
    BY <1>9 DEF HandleFinish, Handling
  <2>3. /\ S \in SUBSET Held /\ S \cap L = {}
        /\ \A k \in Job : future'[k] = IF k \in S THEN "failed" ELSE future[k]
    BY <2>2
  <2> HIDE DEF S, L
  <2> QED BY <1>1, <2>1, <2>2, <2>3, Settles
<1> QED BY <1>3, <1>4, <1>5, <1>6, <1>7, <1>8, <1>9

(* Step by step. *)
LEMMA NextContract ==
  ASSUME IInv, BatchIsFirst, [Next]_vars
  PROVE  [Contract!BNext]_(Contract!bvars)
<1> USE DEF jobVars, serviceVars, history
<1>1. ASSUME NEW j \in Job, Submit(j) PROVE Contract!BNext
  BY <1>1, SubmitIsLast DEF Submit, Contract!Accept, Contract!BNext
<1>2. ASSUME NEW j \in Job, Cancel(j) PROVE Contract!BNext
  BY <1>2 DEF Cancel, Contract!CancelJobs, Contract!BNext
<1>3. ASSUME NEW ok \in BOOLEAN, PumpStart(ok) \/ AdmitInsert(ok) \/ RemoveRows(ok) \/ Check(ok)
      PROVE  Contract!BNext \/ UNCHANGED Contract!bvars
  <2>1. CASE PumpStart(ok) \/ Check(ok)
    BY <2>1, Unseen DEF PumpStart, Check
  <2>2. CASE AdmitInsert(ok)
    BY <2>2, InsertContract, AnswersContract DEF Contract!BNext
  <2>3. CASE RemoveRows(ok)
    BY <2>3, AnswersContract DEF Contract!BNext
  <2> QED BY <1>3, <2>1, <2>2, <2>3
<1>4. CASE AdmitTake \/ AdmitFirstRead \/ StepRaises \/ Close \/ Steps
  BY <1>4, Unseen DEF AdmitTake, AdmitFirstRead, StepRaises, Close, Steps, Step
<1>5. CASE RemoveTake
  <2>1. removing = {}
    BY <1>5 DEF RemoveTake, IInv, ListsInUse
  <2> QED BY <1>5, <2>1, Unseen DEF RemoveTake
<1>6. CASE Handle
  <2>1. ASSUME NEW j \in Job, HandleUnknown(j) \/ HandleToken(j) PROVE UNCHANGED Contract!bvars
    BY <2>1, Unseen DEF HandleUnknown, HandleToken, Handling
  <2> QED BY <1>6, <2>1, AnswersContract DEF Handle, Contract!BNext
<1>7. CASE AdmitSecondRead \/ FailAll
  BY <1>7, AnswersContract DEF Contract!BNext
<1>8. CASE UNCHANGED vars
  BY <1>8, Unseen DEF vars
<1> QED BY <1>1, <1>2, <1>3, <1>4, <1>5, <1>6, <1>7, <1>8 DEF Next, Pump

(* The service with its pump, its generator and its exceptions implements the
   contract, losing those jobs only that the histories name. *)
THEOREM ServiceKeepsContract == Spec => ImplementsContract
<1>1. Init => Contract!BInit
  BY DEF Init, Contract!BInit
<1>2. IInv /\ BatchIsFirst /\ [Next]_vars => [Contract!BNext]_(Contract!bvars)
  BY NextContract
<1> QED BY <1>1, <1>2, SpecIInv, SpecBatchIsFirst, PTL
    DEF Spec, ImplementsContract, Contract!BSpec

-----------------------------------------------------------------------------
(* What is proved of the contract holds of the service. *)
Fair == INSTANCE BatchContractProofs WITH
  Key <- [j \in Job |-> "lane"], Groups <- {S \in SUBSET Job : Cardinality(S) <= MaxActive},
  Joinable <- TRUE,
  group <- active \cup removing, lost <- lost \cup unseen, open <- TRUE

(* It is the contract of the model. *)
LEMMA SameContract ==
  /\ Contract!BInit => Fair!BInit
  /\ [Contract!BNext]_(Contract!bvars) => [Fair!BNext]_(Fair!bvars)
<1>1. Contract!BInit => Fair!BInit
  BY DEF Contract!BInit, Fair!BInit
<1>2. [Contract!BNext]_(Contract!bvars) => [Fair!BNext]_(Fair!bvars)
  BY DEF Contract!BNext, Contract!Accept, Contract!Refuse, Contract!CancelJobs,
         Contract!CloseDown, Contract!Admit, Contract!Settle, Contract!Waiting,
         Contract!Answers, Contract!bvars, Fair!BNext, Fair!Accept, Fair!Refuse, Fair!CancelJobs,
         Fair!CloseDown, Fair!Admit, Fair!Settle, Fair!Waiting, Fair!Answers, Fair!bvars
<1> QED BY <1>1, <1>2

(* Part of a group that may run together may. *)
LEMMA GroupsShrink == Fair!GroupsAssumption
<1> DEFINE G == {S \in SUBSET Job : Cardinality(S) <= MaxActive}
<1>1. {} \in G
  BY FS_EmptySet, BatchedARAssumption
<1>2. ASSUME NEW S \in G, NEW T \in SUBSET S PROVE T \in G
  <2>1. Cardinality(T) <= Cardinality(S) /\ Cardinality(T) \in Nat /\ Cardinality(S) \in Nat
    BY SetsOfJobs, SmallerSets
  <2> QED BY <2>1, BatchedARAssumption
<1> QED BY <1>1, <1>2 DEF Fair!GroupsAssumption

(* So no request overtakes one that still waits for an answer on its way into
   the generator, unless the service lost it, and rows never outnumber the
   configured limit. *)
THEOREM AdmissionIsFair == Spec => []FairlyAdmitted
<1> DEFINE Inv == Fair!BTypeOK /\ Fair!NoOvertaking /\ Fair!GroupAllowed
<1>1. Init => Inv
  <2>1. Init => Contract!BInit
    BY DEF Init, Contract!BInit
  <2> QED BY <2>1, SameContract, GroupsShrink, Fair!InitContract
<1>2. IInv /\ BatchIsFirst /\ Inv /\ [Next]_vars => Inv'
  BY NextContract, SameContract, GroupsShrink, Fair!StepContract
<1>3. Inv => FairlyAdmitted
  BY DEF FairlyAdmitted, Fair!NoOvertaking, Fair!GroupAllowed, Fair!Answers,
     Contract!NoOvertaking, Contract!GroupAllowed, Contract!Answers
<1> HIDE DEF Inv
<1> QED BY <1>1, <1>2, <1>3, SpecIInv, SpecBatchIsFirst, PTL DEF Spec
=============================================================================
