--------------------------- MODULE MTPBatchProofs ---------------------------
(***************************************************************************)
(* Theorems about MTPBatchService, for any set of jobs and keys, any width *)
(* of a group and both numerics profiles: its safety properties, from one  *)
(* inductive invariant.  One lemma per action, one step per part of the    *)
(* invariant it can disturb.                                               *)
(***************************************************************************)
EXTENDS MTPBatchService, FiniteSetTheorems, WellFoundedInduction, TLAPS

-----------------------------------------------------------------------------
(* Lemmas about the operators of the model.                                *)

(* Sets of jobs are finite. *)
LEMMA SetsOfJobs ==
  ASSUME NEW S \in SUBSET Job
  PROVE  IsFiniteSet(S) /\ Cardinality(S) \in Nat
BY FS_Subset, FS_CardinalityType, BatchAssumption

(* A nonempty set of naturals has a least element. *)
LEMMA LeastExists ==
  ASSUME NEW S \in SUBSET Nat, S # {}
  PROVE  \E m \in S : \A n \in S : m <= n
<1>1. IsWellFoundedOn(OpToRel(<, Nat), Nat)
  BY NatLessThanWellFounded
<1>2. PICK m \in S : \A n \in S : <<n, m>> \notin OpToRel(<, Nat)
  BY <1>1, WFMin
<1>3. \A n \in S : ~(n < m)
  BY <1>2 DEF OpToRel
<1> QED BY <1>3

(* The head of a set of jobs is one of them. *)
LEMMA HeadIsIn ==
  ASSUME TypeOK, NEW S \in SUBSET Job, S # {}
  PROVE  Head(S) \in S
<1> DEFINE T == {ticket[j] : j \in S}
<1>1. T \in SUBSET Nat /\ T # {}
  BY DEF TypeOK
<1>2. PICK t \in T : \A u \in T : t <= u
  <2> HIDE DEF T
  <2> QED BY <1>1, LeastExists
<1>3. PICK m \in S : t = ticket[m]
  BY <1>2
<1>4. \A k \in S : ticket[m] <= ticket[k]
  BY <1>2, <1>3
<1>5. Ahead(S, m) = {}
  BY <1>3, <1>4 DEF Ahead, TypeOK
<1> QED BY <1>3, <1>5 DEF Head

(* What a run handles is part of the group, all of it unless the row is
   alone or the rows run one after the other. *)
LEMMA HandledIsActive ==
  ASSUME IInv, pc \in Running
  PROVE  /\ Handled \subseteq active /\ Handled # {} /\ rows \ Handled \subseteq active
         /\ Solo => Handled \subseteq rows
         /\ ~Solo => Handled = active
         /\ ~SerialB1 => Handled = active
<1>1. rows \in SUBSET Job /\ rows # {} /\ rows \subseteq active /\ active \in SUBSET Job
  BY DEF IInv, TypeOK, Places, Running
<1>2. Head(rows) \in rows
  BY <1>1, HeadIsIn DEF IInv
<1>3. CASE ~Solo
  BY <1>1, <1>3 DEF Handled
<1>4. CASE Solo
  <2>1. Handled = {Head(rows)}
    BY <1>4 DEF Handled
  <2>2. ASSUME ~SerialB1 PROVE Handled = active
    <3>1. Cardinality(active) = 1
      BY <1>4, <2>2 DEF Solo
    <3>2. PICK x : active = {x}
      BY <1>1, <3>1, SetsOfJobs, FS_Singleton
    <3> QED BY <1>1, <1>2, <2>1, <3>2
  <2> QED BY <1>1, <1>2, <1>4, <2>1, <2>2
<1> QED BY <1>3, <1>4

(* It is the same while the group, its rows and their tickets are. *)
LEMMA HandledStays ==
  ASSUME active' = active, rows' = rows, ticket' = ticket
  PROVE  Handled' = Handled /\ Solo' = Solo
BY DEF Handled, Solo, Head, Ahead

(* Nor does the submission of another job change it. *)
LEMMA HandledSurvives ==
  ASSUME IInv, NEW j \in Job, Submit(j), pc \in Running
  PROVE  Handled' = Handled /\ Solo' = Solo
<1>1. active' = active /\ rows' = rows /\ rows \subseteq Job /\ j \notin rows
  BY DEF Submit, serviceVars, pumpVars, HeldAreOpen, Held, TypeOK, IInv
<1>2. \A k \in rows : ticket'[k] = ticket[k]
  BY <1>1 DEF Submit, TypeOK, IInv
<1>3. \A k \in rows : {i \in rows : ticket'[i] < ticket'[k]} = {i \in rows : ticket[i] < ticket[k]}
  BY <1>2
<1>4. Head(rows)' = CHOOSE k \in rows : {i \in rows : ticket'[i] < ticket'[k]} = {}
  BY <1>1 DEF Head, Ahead
<1>5. Head(rows) = CHOOSE k \in rows : {i \in rows : ticket[i] < ticket[k]} = {}
  BY DEF Head, Ahead
<1>6. Head(rows)' = Head(rows)
  BY <1>3, <1>4, <1>5, Zenon
<1> QED BY <1>1, <1>6 DEF Handled, Solo

(* A run that comes to the driver handles its whole group. *)
LEMMA DriverHandlesAll ==
  ASSUME IInv, pc = "driver"
  PROVE  Handled = active
BY HandledIsActive DEF Running, RunSettles, IInv

(* What a finished ownership leaves. *)
LEMMA Finished ==
  ASSUME NEW S, NEW ok \in BOOLEAN, FinishOwnership(S, ok)
  PROVE  /\ finished' = finished \cup S
         /\ finalized' = (IF ok THEN finalized \cup (S \ finished) ELSE finalized)
         /\ finalizeFailed' \subseteq finalizeFailed \cup S
BY DEF FinishOwnership

(* A selection takes live jobs off the pending list. *)
LEMMA SelectTakes ==
  ASSUME IInv, NEW late \in BOOLEAN, SealSelect(late)
  PROVE  /\ rows' \subseteq rows \cup (pending \ cancelled) /\ pending' \subseteq pending
         /\ pending' \cap rows' \subseteq rows /\ pending \cup rows = pending' \cup rows'
<1>1. rows = {}
  BY DEF SealSelect, Places, Running, IInv
<1>2. Compatible(sealKey) \subseteq pending \ cancelled
  BY DEF Compatible, First, Live
<1>3. CASE late \/ Cardinality(Compatible(sealKey)) = MaxWidth
  BY <1>1, <1>2, <1>3 DEF SealSelect
<1>4. CASE ~(late \/ Cardinality(Compatible(sealKey)) = MaxWidth)
  BY <1>1, <1>4 DEF SealSelect
<1> QED BY <1>3, <1>4

-----------------------------------------------------------------------------
(* One lemma per action.                                                   *)

(* A job is submitted, or refused. *)
LEMMA SubmitKeeps ==
  ASSUME IInv, NEW j \in Job, Submit(j)
  PROVE  IInv'
<1>1. TypeOK'
  <2>1. Cardinality({k \in Job : ticket[k] > 0}) \in Nat
    BY SetsOfJobs
  <2>2. CASE shutdown \/ j \in ClaimedLocally
    BY <2>2 DEF Submit, ownership, pumpVars, stopVars, serviceVars, Answers, TypeOK, IInv
  <2>3. CASE ~(shutdown \/ j \in ClaimedLocally)
    <3>1. future' \in [Job -> {"new", "waiting"} \cup Answers] /\ ticket' \in [Job -> Nat]
      BY <2>1, <2>3 DEF Submit, TypeOK, IInv
    <3> QED BY <2>3, <3>1 DEF Submit, ownership, pumpVars, stopVars, TypeOK, IInv
  <2> QED BY <2>2, <2>3
<1>2. OnePump'
  <2>1. owing \in SUBSET Job
    BY DEF TypeOK, IInv
  <2>2. IsFiniteSet(owing) /\ Cardinality(owing) \in Nat
    BY <2>1, SetsOfJobs
  <2>3. CASE pumpScheduled \/ shutdown \/ j \in ClaimedLocally
    BY <2>3 DEF Submit, serviceVars, pumpVars, OnePump, PumpRunning, TypeOK, IInv
  <2>4. CASE ~(pumpScheduled \/ shutdown \/ j \in ClaimedLocally)
    <3>1. Cardinality(owing) = 0 /\ queued = 0 /\ pc = "idle"
      BY <2>2, <2>4 DEF OnePump, PumpRunning, TypeOK, IInv
    <3>2. owing = {}
      BY <2>2, <3>1, FS_EmptySet
    <3>3. owing' = {j}
      BY <2>4, <3>2 DEF Submit
    <3>4. Cardinality(owing') = 1
      BY <3>3, FS_Singleton
    <3> QED BY <2>4, <3>1, <3>4 DEF Submit, pumpVars, OnePump, PumpRunning
  <2> QED BY <2>3, <2>4
<1>3. ShutDown'
  BY DEF ownership, serviceVars, pumpVars, stopVars, Unlocked, ClaimedLocally, Submit,
      TypeOK, ShutDown, IInv
<1>4. Apart'
  <2>1. j \notin Held
    BY DEF Submit, HeldAreOpen, IInv
  <2> QED BY <2>1 DEF Submit, serviceVars, pumpVars, stopVars, Held, Apart, IInv
<1>5. HeldAreOpen'
  BY DEF ownership, serviceVars, pumpVars, stopVars, Unlocked, ClaimedLocally, Submit,
      TypeOK, Held, HeldAreOpen, IInv
<1>6. RunSettles'
  <2>1. j \notin active
    BY DEF Submit, HeldAreOpen, Held, IInv
  <2>2. \A k \in Job \ {j} : future'[k] = future[k]
    BY DEF Submit, TypeOK, IInv
  <2>3. active' = active /\ rows' = rows /\ pc' = pc /\ raised' = raised /\ good' = good
    BY DEF Submit, serviceVars, pumpVars
  <2>4. CASE pc \in Running
    <3>1. Handled' = Handled /\ Solo' = Solo /\ Handled \subseteq active
      BY <2>4, HandledSurvives, HandledIsActive
    <3> QED BY <2>1, <2>2, <2>3, <3>1 DEF RunSettles, TypeOK, IInv
  <2>5. CASE pc \notin Running
    BY <2>1, <2>2, <2>3, <2>5 DEF RunSettles, Running, TypeOK, IInv
  <2> QED BY <2>4, <2>5
<1>7. Finishes'
  <2>1. j \notin Held /\ j \notin finished
    BY DEF Submit, HeldAreOpen, Finishes, IInv
  <2>2. \A k \in Job \ {j} : future'[k] = future[k]
    BY DEF Submit, TypeOK, IInv
  <2>3. pc' = pc /\ good' = good /\ finished' = finished /\ finalized' = finalized
    BY DEF Submit, ownership, pumpVars
  <2>4. finished \in SUBSET Job /\ good \in SUBSET Job
    BY DEF TypeOK, IInv
  <2>5. CASE pc \in Running
    <3>1. Handled' = Handled /\ Handled \subseteq active
      BY <2>5, HandledSurvives, HandledIsActive
    <3>2. pc = "publish" => j \notin good
      BY <2>1, <3>1 DEF RunSettles, Held, IInv
    <3> QED BY <2>1, <2>2, <2>3, <2>4, <3>1, <3>2 DEF Finishes, IInv
  <2>6. CASE pc \notin Running
    BY <2>1, <2>2, <2>3, <2>4, <2>6 DEF Finishes, Running, IInv
  <2> QED BY <2>5, <2>6
<1>8. PublishAfterCleanup'
  BY DEF ownership, serviceVars, pumpVars, stopVars, Unlocked, ClaimedLocally, Submit,
      TypeOK, PublishAfterCleanup, IInv
<1>9. Places' /\ ShutdownWaitsForOwner' /\ GroupFinishes'
  BY DEF ownership, serviceVars, pumpVars, stopVars, Submit, TruthfulScope,
      ShutdownWaitsForOwner, Sealing, Running, Places, GroupFinishes, IInv
<1> QED BY <1>1, <1>2, <1>3, <1>4, <1>5, <1>6, <1>7, <1>8, <1>9 DEF IInv

(* The submitter schedules the pump. *)
LEMMA SchedulePumpKeeps ==
  ASSUME IInv, NEW j \in Job, SchedulePump(j)
  PROVE  IInv'
<1>1. TypeOK'
  BY DEF ownership, jobVars, pumpVars, stopVars, SchedulePump, Answers, TypeOK, IInv
<1>2. OnePump'
  <2>1. owing \in SUBSET Job /\ j \in owing /\ owing' = owing \ {j}
    BY DEF SchedulePump, TypeOK, IInv
  <2>2. IsFiniteSet(owing) /\ Cardinality(owing) \in Nat
    BY <2>1, SetsOfJobs
  <2>3. Cardinality(owing') = Cardinality(owing) - 1
    BY <2>1, <2>2, FS_RemoveElement
  <2> QED BY <2>2, <2>3 DEF SchedulePump, pumpVars, OnePump, PumpRunning, TypeOK, IInv
<1>3. Places' /\ ShutDown' /\ Apart' /\ HeldAreOpen' /\ RunSettles' /\ Finishes' /\ PublishAfterCleanup' /\ ShutdownWaitsForOwner' /\ GroupFinishes'
  BY HandledStays DEF ownership, jobVars, pumpVars, stopVars, SchedulePump, TruthfulScope,
      PublishAfterCleanup, ShutdownWaitsForOwner, Sealing, Running, Places, ShutDown, Apart,
      Held, HeldAreOpen, RunSettles, Finishes, GroupFinishes, IInv
<1> QED BY <1>1, <1>2, <1>3 DEF IInv

(* A request is cancelled. *)
LEMMA CancelKeeps ==
  ASSUME IInv, NEW j \in Job, Cancel(j)
  PROVE  IInv'
<1>1. TypeOK'
  BY DEF ownership, serviceVars, pumpVars, stopVars, Cancel, Answers, TypeOK, IInv
<1>2. OnePump' /\ Places' /\ ShutDown' /\ Apart' /\ HeldAreOpen' /\ RunSettles' /\ Finishes' /\ PublishAfterCleanup' /\ ShutdownWaitsForOwner' /\ GroupFinishes'
  BY HandledStays DEF ownership, serviceVars, pumpVars, stopVars, Cancel, PumpRunning,
      OnePump, TruthfulScope, PublishAfterCleanup, ShutdownWaitsForOwner, Sealing, Running,
      Places, ShutDown, Apart, Held, HeldAreOpen, RunSettles, Finishes, GroupFinishes, IInv
<1> QED BY <1>1, <1>2 DEF IInv

(* A claim on the cleanup. *)
LEMMA ClaimKeeps ==
  ASSUME IInv, NEW j \in Job, Claim(j)
  PROVE  IInv'
<1>1. TypeOK'
  BY DEF ownership, serviceVars, pumpVars, stopVars, Claim, Answers, TypeOK, IInv
<1>2. GroupFinishes'
  <2>1. \A k \in Job \ {j} : scope'[k] = scope[k]
    BY DEF Claim, TypeOK, IInv
  <2>2. scope'[j] = "not_required_before_admission" => j \notin admitted
    BY DEF Claim, TypeOK, IInv
  <2>3. scope'[j] = "cohort_owner_after_decode" => j \in admitted \cup finalized
    BY DEF Claim, TypeOK, IInv
  <2>4. pc' = pc /\ active' = active /\ finished' = finished /\ admitted' = admitted
        /\ finalized' = finalized
    BY DEF Claim, ownership, serviceVars, pumpVars
  <2> QED BY <2>1, <2>2, <2>3, <2>4 DEF GroupFinishes, TruthfulScope, Finishes, IInv
<1>3. OnePump' /\ Places' /\ ShutDown' /\ Apart' /\ HeldAreOpen' /\ RunSettles' /\ Finishes' /\ PublishAfterCleanup' /\ ShutdownWaitsForOwner'
  BY HandledStays DEF ownership, serviceVars, pumpVars, stopVars, Claim, PumpRunning,
      OnePump, PublishAfterCleanup, ShutdownWaitsForOwner, Sealing, Running, Places,
      ShutDown, Apart, Held, HeldAreOpen, RunSettles, Finishes, IInv
<1> QED BY <1>1, <1>2, <1>3 DEF IInv

(* The pump starts. *)
LEMMA PumpStartKeeps ==
  ASSUME IInv, PumpStart
  PROVE  IInv'
<1>1. TypeOK'
  BY DEF ownership, jobVars, stopVars, PumpStart, Answers, TypeOK, IInv
<1>2. OnePump'
  <2>1. owing \in SUBSET Job
    BY DEF TypeOK, IInv
  <2>2. Cardinality(owing) \in Nat
    BY <2>1, SetsOfJobs
  <2> QED BY <2>2 DEF PumpStart, OnePump, PumpRunning, TypeOK, IInv
<1>3. Places'
  BY DEF ownership, jobVars, stopVars, PumpStart, TypeOK, Sealing, Running, Places, IInv
<1>4. ShutDown'
  BY DEF ownership, jobVars, stopVars, PumpStart, TypeOK, ShutDown, IInv
<1>5. RunSettles'
  BY HandledStays DEF ownership, jobVars, stopVars, PumpStart, TypeOK, RunSettles, IInv
<1>6. Finishes'
  BY HandledStays DEF ownership, jobVars, stopVars, PumpStart, TypeOK, Finishes, IInv
<1>7. GroupFinishes'
  BY DEF ownership, jobVars, stopVars, PumpStart, TypeOK, TruthfulScope, GroupFinishes, IInv
<1>8. Apart' /\ HeldAreOpen' /\ PublishAfterCleanup' /\ ShutdownWaitsForOwner'
  BY DEF ownership, jobVars, stopVars, PumpStart, PublishAfterCleanup,
      ShutdownWaitsForOwner, Apart, Held, HeldAreOpen, IInv
<1> QED BY <1>1, <1>2, <1>3, <1>4, <1>5, <1>6, <1>7, <1>8 DEF IInv

(* The seal looks for a head. *)
LEMMA SealBeginKeeps ==
  ASSUME IInv, SealBegin
  PROVE  IInv'
<1>1. TypeOK'
  <2>1. Live \in SUBSET Job
    BY DEF Live, TypeOK, IInv
  <2>2. Live # {} => Head(Live) \in Job
    BY <2>1, HeadIsIn DEF IInv
  <2>3. CASE shutdown
    BY <2>3 DEF SealBegin, ownership, jobVars, stopVars, TypeOK, IInv
  <2>4. CASE ~shutdown
    <3>1. pending' \in SUBSET Job /\ drained' \in SUBSET Job /\ sealKey' \in Job \cup {NoJob}
          /\ pc' \in {"discard", "select"}
      BY <2>1, <2>2, <2>4 DEF SealBegin, Drain, TypeOK, IInv
    <3> QED BY <3>1 DEF SealBegin, ownership, jobVars, stopVars, TypeOK, IInv
  <2> QED BY <2>3, <2>4
<1>2. OnePump'
  BY DEF ownership, jobVars, stopVars, Live, Drain, SealBegin, TypeOK, PumpRunning, OnePump,
      IInv
<1>3. Places'
  BY DEF ownership, jobVars, stopVars, Live, Drain, SealBegin, TypeOK, Sealing, Running,
      Places, IInv
<1>4. ShutDown'
  BY DEF ownership, jobVars, stopVars, Live, Drain, SealBegin, TypeOK, ShutDown, IInv
<1>5. Apart'
  BY DEF ownership, jobVars, stopVars, Live, Drain, SealBegin, TypeOK, Apart, IInv
<1>6. HeldAreOpen'
  BY DEF ownership, jobVars, stopVars, Live, Drain, SealBegin, TypeOK, Held, HeldAreOpen,
      IInv
<1>7. RunSettles'
  BY HandledStays DEF ownership, jobVars, stopVars, Live, Drain, SealBegin, TypeOK,
      RunSettles, IInv
<1>8. Finishes'
  BY HandledStays DEF ownership, jobVars, stopVars, Live, Drain, SealBegin, TypeOK,
      Finishes, IInv
<1>9. GroupFinishes'
  BY DEF ownership, jobVars, stopVars, Live, Drain, SealBegin, TypeOK, TruthfulScope,
      GroupFinishes, IInv
<1>10. PublishAfterCleanup' /\ ShutdownWaitsForOwner'
  BY DEF ownership, jobVars, stopVars, SealBegin, PublishAfterCleanup,
      ShutdownWaitsForOwner, IInv
<1> QED BY <1>1, <1>2, <1>3, <1>4, <1>5, <1>6, <1>7, <1>8, <1>9, <1>10 DEF IInv

(* It selects, or waits. *)
LEMMA SealSelectKeeps ==
  ASSUME IInv, NEW late \in BOOLEAN, SealSelect(late)
  PROVE  IInv'
<1>1. TypeOK'
  <2>1. rows' \subseteq rows \cup (pending \ cancelled) /\ pending' \subseteq pending
        /\ pending' \cap rows' \subseteq rows /\ pending \cup rows = pending' \cup rows'
    BY SelectTakes
  <2>2. sealKey' \in Job \cup {NoJob} /\ pc' \in {"admit", "sealWait"}
    BY DEF SealSelect, TypeOK, IInv
  <2> QED BY <2>1, <2>2 DEF SealSelect, ownership, jobVars, stopVars, TypeOK, IInv
<1>2. OnePump'
  BY DEF ownership, jobVars, stopVars, Live, Compatible, SealSelect, TypeOK, PumpRunning,
      OnePump, IInv
<1>3. Places'
  BY DEF ownership, jobVars, stopVars, Live, Compatible, SealSelect, TypeOK, Sealing,
      Running, Places, IInv
<1>4. ShutDown'
  BY DEF ownership, jobVars, stopVars, Live, Compatible, SealSelect, TypeOK, ShutDown, IInv
<1>5. Apart'
  <2>1. rows' \subseteq rows \cup (pending \ cancelled) /\ pending' \subseteq pending
        /\ pending' \cap rows' \subseteq rows /\ pending \cup rows = pending' \cup rows'
    BY SelectTakes
  <2>2. rows = {} /\ active = {} /\ active' = active /\ drained' = drained /\ evicted' = evicted
        /\ stopping' = stopping
    BY DEF SealSelect, Places, Running, stopVars, IInv
  <2> QED BY <2>1, <2>2 DEF Apart, IInv
<1>6. HeldAreOpen'
  <2>1. rows' \subseteq rows \cup (pending \ cancelled) /\ pending' \subseteq pending
        /\ pending' \cap rows' \subseteq rows /\ pending \cup rows = pending' \cup rows'
    BY SelectTakes
  <2>2. Held' = Held /\ future' = future
    BY <2>1 DEF SealSelect, jobVars, stopVars, Held
  <2> QED BY <2>2 DEF HeldAreOpen, IInv
<1>7. RunSettles'
  <2>1. active = {} /\ active' = active /\ pc' \in {"admit", "sealWait"}
    BY DEF SealSelect, Places, Running, IInv
  <2> QED BY <2>1 DEF RunSettles
<1>8. Finishes'
  BY DEF ownership, jobVars, stopVars, Live, Compatible, SealSelect, TypeOK, Finishes, IInv
<1>9. ShutdownWaitsForOwner'
  BY DEF SealSelect, stopVars, ShutDown, ShutdownWaitsForOwner, IInv
<1>10. GroupFinishes'
  BY DEF ownership, jobVars, stopVars, Live, Compatible, SealSelect, TypeOK, TruthfulScope,
      GroupFinishes, IInv
<1>11. PublishAfterCleanup'
  BY DEF ownership, jobVars, stopVars, SealSelect, PublishAfterCleanup, IInv
<1> QED BY <1>1, <1>2, <1>3, <1>4, <1>5, <1>6, <1>7, <1>8, <1>9, <1>10, <1>11 DEF IInv

(* It wakes up. *)
LEMMA SealWakesKeeps ==
  ASSUME IInv, SealWakes
  PROVE  IInv'
<1>1. TypeOK'
  BY DEF ownership, jobVars, stopVars, Live, Drain, SealWakes, Answers, TypeOK, IInv
<1>2. OnePump'
  BY DEF ownership, jobVars, stopVars, Live, Drain, SealWakes, TypeOK, PumpRunning, OnePump,
      IInv
<1>3. Places'
  BY DEF ownership, jobVars, stopVars, Live, Drain, SealWakes, TypeOK, Sealing, Running,
      Places, IInv
<1>4. ShutDown'
  BY DEF ownership, jobVars, stopVars, Live, Drain, SealWakes, TypeOK, ShutDown, IInv
<1>5. Apart'
  BY DEF ownership, jobVars, stopVars, Live, Drain, SealWakes, TypeOK, Apart, IInv
<1>6. HeldAreOpen'
  <2>1. active = {} /\ active' = {} /\ Held' = Held /\ future' = future
    BY DEF SealWakes, Drain, Live, jobVars, stopVars, Held, Places, Running, IInv
  <2> QED BY <2>1 DEF HeldAreOpen, IInv
<1>7. RunSettles'
  BY DEF ownership, jobVars, stopVars, Live, Drain, SealWakes, TypeOK, RunSettles, IInv
<1>8. Finishes'
  BY DEF ownership, jobVars, stopVars, Live, Drain, SealWakes, TypeOK, Finishes, IInv
<1>9. ShutdownWaitsForOwner'
  BY DEF ownership, jobVars, stopVars, Live, Drain, SealWakes, TypeOK,
      ShutdownWaitsForOwner, IInv
<1>10. GroupFinishes'
  <2>1. active = {} /\ active' = {} /\ scope' = scope /\ finished' = finished
        /\ admitted' = admitted /\ pc' \in {"discard", "select"}
    BY DEF SealWakes, Places, Running, jobVars, ownership, IInv
  <2> QED BY <2>1 DEF GroupFinishes, TruthfulScope, IInv
<1>11. PublishAfterCleanup'
  BY DEF ownership, jobVars, stopVars, SealWakes, PublishAfterCleanup, IInv
<1> QED BY <1>1, <1>2, <1>3, <1>4, <1>5, <1>6, <1>7, <1>8, <1>9, <1>10, <1>11 DEF IInv

(* The selection is admitted. *)
LEMMA SealAdmitKeeps ==
  ASSUME IInv, SealAdmit
  PROVE  IInv'
<1>1. TypeOK'
  BY DEF jobVars, stopVars, ClaimedLocally, SealAdmit, Answers, TypeOK, IInv
<1>2. OnePump'
  BY DEF jobVars, stopVars, ClaimedLocally, SealAdmit, TypeOK, PumpRunning, OnePump, IInv
<1>3. Places'
  BY DEF jobVars, stopVars, ClaimedLocally, SealAdmit, TypeOK, Sealing, Running, Places,
      IInv
<1>4. ShutDown'
  BY DEF jobVars, stopVars, ClaimedLocally, SealAdmit, TypeOK, ShutDown, IInv
<1>5. Apart'
  <2>1. active = {} /\ active' = rows' /\ rows' \subseteq rows /\ drained' = drained \cup (rows \ rows')
        /\ evicted = {} /\ evicted' = {}
    BY DEF SealAdmit, Places, Running, IInv
  <2>2. pending' = pending /\ stopping' = stopping
    BY DEF SealAdmit, stopVars
  <2> QED BY <2>1, <2>2 DEF Apart, IInv
<1>6. HeldAreOpen'
  <2>1. active = {} /\ active' = rows' /\ rows' \subseteq rows /\ drained' = drained \cup (rows \ rows')
    BY DEF SealAdmit, Places, Running, IInv
  <2>2. Held' = Held /\ future' = future
    BY <2>1 DEF SealAdmit, Held, jobVars, stopVars
  <2> QED BY <2>2 DEF HeldAreOpen, IInv
<1>7. RunSettles'
  BY DEF jobVars, stopVars, ClaimedLocally, SealAdmit, TypeOK, RunSettles, IInv
<1>8. Finishes'
  BY DEF jobVars, stopVars, ClaimedLocally, SealAdmit, TypeOK, Finishes, IInv
<1>9. ShutdownWaitsForOwner'
  BY DEF jobVars, stopVars, ClaimedLocally, SealAdmit, TypeOK, ShutdownWaitsForOwner, IInv
<1>10. GroupFinishes'
  <2>1. active = {} /\ active' = rows \ ClaimedLocally /\ admitted' = admitted \cup active'
    BY DEF SealAdmit, Places, Running, IInv
  <2>2. scope' = scope /\ finished' = finished /\ pc' = "discard"
    BY DEF SealAdmit, jobVars
  <2>3. ~SerialB1 => TruthfulScope'
    BY <2>1, <2>2 DEF ClaimedLocally, TruthfulScope, GroupFinishes, IInv
  <2> QED BY <2>1, <2>2, <2>3 DEF GroupFinishes, IInv
<1>11. PublishAfterCleanup'
  BY DEF jobVars, stopVars, SealAdmit, PublishAfterCleanup, IInv
<1> QED BY <1>1, <1>2, <1>3, <1>4, <1>5, <1>6, <1>7, <1>8, <1>9, <1>10, <1>11 DEF IInv

(* The drained jobs are answered. *)
LEMMA DiscardKeeps ==
  ASSUME IInv, Discard
  PROVE  IInv'
<1>1. TypeOK'
  BY DEF serviceVars, stopVars, Answer, FinishOwnership, Discard, Answers, TypeOK, IInv
<1>2. OnePump'
  BY DEF serviceVars, stopVars, Answer, FinishOwnership, Discard, TypeOK, PumpRunning,
      OnePump, IInv
<1>3. Places'
  BY DEF serviceVars, stopVars, Answer, FinishOwnership, Discard, TypeOK, Sealing, Running,
      Places, IInv
<1>4. ShutDown'
  BY DEF serviceVars, stopVars, Answer, FinishOwnership, Discard, TypeOK, ShutDown, IInv
<1>5. Apart'
  BY DEF serviceVars, stopVars, Answer, FinishOwnership, Discard, TypeOK, Apart, IInv
<1>6. HeldAreOpen'
  BY DEF serviceVars, stopVars, Answer, FinishOwnership, Discard, TypeOK, Held, HeldAreOpen,
      IInv
<1>7. RunSettles'
  BY HandledStays DEF serviceVars, stopVars, Answer, FinishOwnership, Discard, TypeOK,
      RunSettles, IInv
<1>8. Finishes'
  <2>1. finished' = finished \cup drained /\ finalized' = finalized
    BY Finished DEF Discard
  <2>2. \A j \in drained : future'[j] # "waiting" /\ future'[j] # "new"
    BY DEF Discard, Answer, HeldAreOpen, Held, TypeOK, IInv
  <2>3. \A j \in Job : future'[j] = "waiting" => future[j] = "waiting"
    BY DEF Discard, Answer
  <2>4. \A j \in Job : future'[j] = "new" => future[j] = "new"
    BY DEF Discard, Answer
  <2>5. pc = "discard" /\ pc' \in {"unpump", "run"} /\ finished \in SUBSET Job
    BY DEF Discard, TypeOK, IInv
  <2> QED BY <2>1, <2>2, <2>3, <2>4, <2>5 DEF Finishes, IInv
<1>9. PublishAfterCleanup'
  BY DEF serviceVars, stopVars, Answer, FinishOwnership, Discard, TypeOK,
      PublishAfterCleanup, IInv
<1>10. GroupFinishes'
  BY DEF serviceVars, stopVars, Answer, FinishOwnership, Discard, TypeOK, TruthfulScope,
      GroupFinishes, IInv
<1>11. ShutdownWaitsForOwner'
  BY DEF serviceVars, stopVars, Discard, ShutdownWaitsForOwner, IInv
<1> QED BY <1>1, <1>2, <1>3, <1>4, <1>5, <1>6, <1>7, <1>8, <1>9, <1>10, <1>11 DEF IInv

(* The pump ends, *)
LEMMA UnpumpKeeps ==
  ASSUME IInv, Unpump
  PROVE  IInv'
<1>1. TypeOK'
  BY DEF ownership, jobVars, stopVars, Unpump, Answers, TypeOK, IInv
<1>2. OnePump'
  <2>1. owing \in SUBSET Job
    BY DEF TypeOK, IInv
  <2>2. Cardinality(owing) \in Nat
    BY <2>1, SetsOfJobs
  <2>3. owing' = owing /\ pumpScheduled \in BOOLEAN /\ queued \in Nat
    BY DEF Unpump, TypeOK, IInv
  <2> QED BY <2>2, <2>3 DEF Unpump, OnePump, PumpRunning, IInv
<1>3. Places'
  BY DEF ownership, jobVars, stopVars, Unpump, TypeOK, Sealing, Running, Places, IInv
<1>4. ShutDown'
  BY DEF ownership, jobVars, stopVars, Unpump, TypeOK, ShutDown, IInv
<1>5. RunSettles'
  BY HandledStays DEF ownership, jobVars, stopVars, Unpump, TypeOK, RunSettles, IInv
<1>6. Finishes'
  BY HandledStays DEF ownership, jobVars, stopVars, Unpump, TypeOK, Finishes, IInv
<1>7. GroupFinishes'
  BY DEF ownership, jobVars, stopVars, Unpump, TypeOK, TruthfulScope, GroupFinishes, IInv
<1>8. Apart' /\ HeldAreOpen' /\ PublishAfterCleanup' /\ ShutdownWaitsForOwner'
  BY DEF ownership, jobVars, stopVars, Unpump, PublishAfterCleanup, ShutdownWaitsForOwner,
      Apart, Held, HeldAreOpen, IInv
<1> QED BY <1>1, <1>2, <1>3, <1>4, <1>5, <1>6, <1>7, <1>8 DEF IInv

(* or comes back. *)
LEMMA RescheduleKeeps ==
  ASSUME IInv, Reschedule
  PROVE  IInv'
<1>1. TypeOK'
  BY DEF ownership, jobVars, stopVars, Reschedule, Answers, TypeOK, IInv
<1>2. OnePump'
  <2>1. owing \in SUBSET Job
    BY DEF TypeOK, IInv
  <2>2. Cardinality(owing) \in Nat
    BY <2>1, SetsOfJobs
  <2>3. owing' = owing /\ pumpScheduled \in BOOLEAN /\ queued \in Nat
    BY DEF Reschedule, TypeOK, IInv
  <2> QED BY <2>2, <2>3 DEF Reschedule, OnePump, PumpRunning, IInv
<1>3. Places'
  BY DEF ownership, jobVars, stopVars, Reschedule, TypeOK, Sealing, Running, Places, IInv
<1>4. ShutDown'
  BY DEF ownership, jobVars, stopVars, Reschedule, TypeOK, ShutDown, IInv
<1>5. RunSettles'
  BY HandledStays DEF ownership, jobVars, stopVars, Reschedule, TypeOK, RunSettles, IInv
<1>6. Finishes'
  BY HandledStays DEF ownership, jobVars, stopVars, Reschedule, TypeOK, Finishes, IInv
<1>7. GroupFinishes'
  BY DEF ownership, jobVars, stopVars, Reschedule, TypeOK, TruthfulScope, GroupFinishes,
      IInv
<1>8. Apart' /\ HeldAreOpen' /\ PublishAfterCleanup' /\ ShutdownWaitsForOwner'
  BY DEF ownership, jobVars, stopVars, Reschedule, PublishAfterCleanup,
      ShutdownWaitsForOwner, Apart, Held, HeldAreOpen, IInv
<1> QED BY <1>1, <1>2, <1>3, <1>4, <1>5, <1>6, <1>7, <1>8 DEF IInv

(* A run begins. *)
LEMMA RunBeginKeeps ==
  ASSUME IInv, RunBegin
  PROVE  IInv'
<1>1. TypeOK'
  BY DEF ownership, jobVars, serviceVars, stopVars, RunBegin, Answers, TypeOK, IInv
<1>2. OnePump'
  BY DEF ownership, jobVars, serviceVars, stopVars, RunBegin, TypeOK, PumpRunning, OnePump,
      IInv
<1>3. Places'
  BY DEF ownership, jobVars, serviceVars, stopVars, RunBegin, TypeOK, Sealing, Running,
      Places, IInv
<1>4. ShutDown'
  BY DEF ownership, jobVars, serviceVars, stopVars, RunBegin, TypeOK, ShutDown, IInv
<1>5. RunSettles'
  BY HandledStays DEF ownership, jobVars, serviceVars, stopVars, RunBegin, TypeOK,
      RunSettles, IInv
<1>6. Finishes'
  BY HandledStays DEF ownership, jobVars, serviceVars, stopVars, RunBegin, TypeOK, Finishes,
      IInv
<1>7. GroupFinishes'
  BY DEF ownership, jobVars, serviceVars, stopVars, RunBegin, TypeOK, TruthfulScope,
      GroupFinishes, IInv
<1>8. Apart' /\ HeldAreOpen' /\ PublishAfterCleanup' /\ ShutdownWaitsForOwner'
  BY DEF ownership, jobVars, serviceVars, stopVars, RunBegin, PublishAfterCleanup,
      ShutdownWaitsForOwner, Apart, Held, HeldAreOpen, IInv
<1> QED BY <1>1, <1>2, <1>3, <1>4, <1>5, <1>6, <1>7, <1>8 DEF IInv

(* A single row ends. *)
LEMMA SoloReturnsKeeps ==
  ASSUME IInv, NEW how \in {"none", "cancelled", "failed"}, SoloReturns(how)
  PROVE  IInv'
<1>1. TypeOK'
  <2>1. Handled \in SUBSET Job
    BY HandledIsActive DEF SoloReturns, Running, TypeOK, IInv
  <2>2. CASE how = "none"
    <3>1. finished' = finished \cup Handled /\ finalized' \subseteq finalized \cup Handled
          /\ finalizeFailed' \subseteq finalizeFailed \cup Handled
      BY <2>2, Finished DEF SoloReturns
    <3> QED BY <2>1, <2>2, <3>1 DEF SoloReturns, jobVars, serviceVars, stopVars, TypeOK, IInv
  <2>3. CASE how # "none"
    BY <2>3 DEF SoloReturns, jobVars, serviceVars, stopVars, TypeOK, IInv
  <2> QED BY <2>2, <2>3
<1>2. OnePump'
  BY DEF jobVars, serviceVars, stopVars, FinishOwnership, SoloReturns, TypeOK, PumpRunning,
      OnePump, IInv
<1>3. Places'
  BY DEF jobVars, serviceVars, stopVars, FinishOwnership, SoloReturns, TypeOK, Sealing,
      Running, Places, IInv
<1>4. ShutDown'
  BY DEF jobVars, serviceVars, stopVars, FinishOwnership, SoloReturns, TypeOK, ShutDown,
      IInv
<1>5. RunSettles'
  BY HandledStays DEF jobVars, serviceVars, stopVars, FinishOwnership, SoloReturns, TypeOK,
      RunSettles, IInv
<1>6. Finishes'
  <2>1. pc = "solo" /\ Handled' = Handled /\ future' = future
    BY HandledStays DEF SoloReturns, jobVars, serviceVars
  <2>2. \A j \in finished : future[j] # "waiting" /\ future[j] # "new"
    BY <2>1 DEF Finishes, IInv
  <2>3. \A j \in Handled : future[j] # "new"
    BY <2>1, HandledIsActive DEF Running, HeldAreOpen, Held, TypeOK, IInv
  <2>4. CASE how = "none"
    <3>1. finished' = finished \cup Handled /\ finalized' = finalized \cup (Handled \ finished)
          /\ good' = Handled /\ pc' = "publish"
      BY <2>4, Finished DEF SoloReturns
    <3> QED BY <2>1, <2>2, <2>3, <3>1 DEF Finishes, IInv
  <2>5. CASE how # "none"
    BY <2>1, <2>2, <2>5 DEF SoloReturns, Finishes, IInv
  <2> QED BY <2>4, <2>5
<1>7. PublishAfterCleanup'
  BY DEF jobVars, serviceVars, stopVars, FinishOwnership, SoloReturns, TypeOK,
      PublishAfterCleanup, IInv
<1>8. GroupFinishes'
  BY HandledStays DEF jobVars, serviceVars, stopVars, FinishOwnership, SoloReturns, TypeOK,
      TruthfulScope, GroupFinishes, IInv
<1>9. Apart' /\ HeldAreOpen' /\ ShutdownWaitsForOwner'
  BY DEF jobVars, serviceVars, stopVars, SoloReturns, ShutdownWaitsForOwner, Apart, Held,
      HeldAreOpen, IInv
<1> QED BY <1>1, <1>2, <1>3, <1>4, <1>5, <1>6, <1>7, <1>8, <1>9 DEF IInv

(* A row's callback raises. *)
LEMMA RowCallbackRaisesKeeps ==
  ASSUME IInv, NEW j \in Job, RowCallbackRaises(j)
  PROVE  IInv'
<1>1. TypeOK'
  BY DEF ownership, serviceVars, pumpVars, stopVars, Answer, RowCallbackRaises, Answers,
      TypeOK, IInv
<1>2. HeldAreOpen'
  BY DEF ownership, serviceVars, pumpVars, stopVars, Answer, RowCallbackRaises, TypeOK,
      Held, HeldAreOpen, IInv
<1>3. RunSettles'
  BY HandledStays DEF ownership, serviceVars, pumpVars, stopVars, Answer, RowCallbackRaises,
      TypeOK, RunSettles, IInv
<1>4. Finishes'
  BY HandledStays DEF ownership, serviceVars, pumpVars, stopVars, Answer, RowCallbackRaises,
      TypeOK, Finishes, IInv
<1>5. PublishAfterCleanup'
  BY DEF ownership, serviceVars, pumpVars, stopVars, Answer, RowCallbackRaises, TypeOK,
      PublishAfterCleanup, IInv
<1>6. OnePump' /\ Places' /\ ShutDown' /\ Apart' /\ ShutdownWaitsForOwner' /\ GroupFinishes'
  BY DEF ownership, serviceVars, pumpVars, stopVars, RowCallbackRaises, PumpRunning,
      OnePump, TruthfulScope, ShutdownWaitsForOwner, Sealing, Running, Places, ShutDown,
      Apart, GroupFinishes, IInv
<1> QED BY <1>1, <1>2, <1>3, <1>4, <1>5, <1>6 DEF IInv

(* A cancelled row is closed. *)
LEMMA RowClosesKeeps ==
  ASSUME IInv, NEW j \in Job, RowCloses(j)
  PROVE  IInv'
<1>1. TypeOK'
  BY DEF ownership, serviceVars, pumpVars, stopVars, Answer, RowCloses, Answers, TypeOK,
      IInv
<1>2. HeldAreOpen'
  BY DEF ownership, serviceVars, pumpVars, stopVars, Answer, RowCloses, TypeOK, Held,
      HeldAreOpen, IInv
<1>3. RunSettles'
  BY HandledStays DEF ownership, serviceVars, pumpVars, stopVars, Answer, RowCloses, TypeOK,
      RunSettles, IInv
<1>4. Finishes'
  BY HandledStays DEF ownership, serviceVars, pumpVars, stopVars, Answer, RowCloses, TypeOK,
      Finishes, IInv
<1>5. PublishAfterCleanup'
  BY DEF ownership, serviceVars, pumpVars, stopVars, Answer, RowCloses, TypeOK,
      PublishAfterCleanup, IInv
<1>6. OnePump' /\ Places' /\ ShutDown' /\ Apart' /\ ShutdownWaitsForOwner' /\ GroupFinishes'
  BY DEF ownership, serviceVars, pumpVars, stopVars, RowCloses, PumpRunning, OnePump,
      TruthfulScope, ShutdownWaitsForOwner, Sealing, Running, Places, ShutDown, Apart,
      GroupFinishes, IInv
<1> QED BY <1>1, <1>2, <1>3, <1>4, <1>5, <1>6 DEF IInv

(* The driver returns, or raises. *)
LEMMA DriverReturnsKeeps ==
  ASSUME IInv, NEW ok \in BOOLEAN, DriverReturns(ok)
  PROVE  IInv'
<1>1. TypeOK'
  BY DEF ownership, serviceVars, stopVars, Answer, DriverReturns, Answers, TypeOK, IInv
<1>2. OnePump'
  BY DEF ownership, serviceVars, stopVars, Answer, DriverReturns, TypeOK, PumpRunning,
      OnePump, IInv
<1>3. Places'
  BY DEF ownership, serviceVars, stopVars, Answer, DriverReturns, TypeOK, Sealing, Running,
      Places, IInv
<1>4. ShutDown'
  BY DEF ownership, serviceVars, stopVars, Answer, DriverReturns, TypeOK, ShutDown, IInv
<1>5. HeldAreOpen'
  BY DEF ownership, serviceVars, stopVars, Answer, DriverReturns, TypeOK, Held, HeldAreOpen,
      IInv
<1>6. RunSettles'
  <2>1. pc = "driver" /\ pc' = "cleanup" /\ Handled' = Handled /\ active' = active /\ rows' = rows
    BY HandledStays DEF DriverReturns, serviceVars
  <2>2. Handled \subseteq active /\ active \in SUBSET Job
    BY <2>1, HandledIsActive DEF Running, TypeOK, IInv
  <2>3. \A j \in Job : future[j] # "waiting" => future'[j] # "waiting"
    BY DEF DriverReturns, Answer
  <2>4. \A j \in active' \ rows' : future'[j] # "waiting"
    BY <2>1, <2>2, <2>3 DEF RunSettles, IInv
  <2>5. ASSUME raised' = "none"
        PROVE  good' \subseteq Handled /\ \A j \in Handled \ good' : future'[j] # "waiting"
    <3>1. good' \subseteq active /\ future' = Answer(active \ good', "cancelled")
      BY <2>5 DEF DriverReturns
    <3>2. Handled = active
      BY <2>1, DriverHandlesAll
    <3> QED BY <2>2, <3>1, <3>2 DEF Answer
  <2> QED BY <2>1, <2>4, <2>5 DEF RunSettles
<1>7. Finishes'
  BY HandledStays DEF ownership, serviceVars, stopVars, Answer, DriverReturns, TypeOK,
      Finishes, IInv
<1>8. PublishAfterCleanup'
  BY DEF ownership, serviceVars, stopVars, Answer, DriverReturns, TypeOK,
      PublishAfterCleanup, IInv
<1>9. GroupFinishes'
  BY DEF ownership, serviceVars, stopVars, Answer, DriverReturns, TypeOK, TruthfulScope,
      GroupFinishes, IInv
<1>10. Apart' /\ ShutdownWaitsForOwner'
  BY DEF ownership, serviceVars, stopVars, DriverReturns, ShutdownWaitsForOwner, Apart, IInv
<1> QED BY <1>1, <1>2, <1>3, <1>4, <1>5, <1>6, <1>7, <1>8, <1>9, <1>10 DEF IInv

(* The owner cleans up. *)
LEMMA CleanupKeeps ==
  ASSUME IInv, NEW ok \in BOOLEAN, Cleanup(ok)
  PROVE  IInv'
<1>1. TypeOK'
  <2>1. Handled \in SUBSET Job
    BY HandledIsActive DEF Cleanup, Running, TypeOK, IInv
  <2>2. CASE ok
    <3>1. finished' = finished \cup Handled /\ finalized' \subseteq finalized \cup Handled
          /\ finalizeFailed' \subseteq finalizeFailed \cup Handled
      BY <2>2, Finished DEF Cleanup
    <3> QED BY <2>1, <2>2, <3>1 DEF Cleanup, jobVars, stopVars, TypeOK, IInv
  <2>3. CASE ~ok
    BY <2>3 DEF Cleanup, jobVars, stopVars, TypeOK, IInv
  <2> QED BY <2>2, <2>3
<1>2. OnePump'
  BY DEF jobVars, stopVars, FinishOwnership, Cleanup, TypeOK, PumpRunning, OnePump, IInv
<1>3. Places'
  BY DEF jobVars, stopVars, FinishOwnership, Cleanup, TypeOK, Sealing, Running, Places, IInv
<1>4. ShutDown'
  BY DEF jobVars, stopVars, FinishOwnership, Cleanup, TypeOK, ShutDown, IInv
<1>5. Apart'
  BY DEF jobVars, stopVars, FinishOwnership, Cleanup, TypeOK, Apart, IInv
<1>6. HeldAreOpen'
  <2>1. Held' = Held /\ future' = future
    BY DEF Cleanup, jobVars, stopVars, Held, Places, IInv
  <2> QED BY <2>1 DEF HeldAreOpen, IInv
<1>7. RunSettles'
  BY HandledStays DEF jobVars, stopVars, FinishOwnership, Cleanup, TypeOK, RunSettles, IInv
<1>8. Finishes'
  <2>1. pc = "cleanup" /\ Handled' = Handled /\ future' = future /\ good' = good
    BY HandledStays DEF Cleanup, jobVars
  <2>2. \A j \in finished : future[j] # "waiting" /\ future[j] # "new"
    BY <2>1 DEF Finishes, IInv
  <2>3. \A j \in Handled : future[j] # "new"
    BY <2>1, HandledIsActive DEF Running, HeldAreOpen, Held, TypeOK, IInv
  <2>4. CASE ok
    <3>1. finished' = finished \cup Handled /\ finalized' = finalized \cup (Handled \ finished)
      BY <2>4, Finished DEF Cleanup
    <3>2. pc' = "publish" => good \subseteq Handled
      BY <2>1, <2>4 DEF Cleanup, RunSettles, IInv
    <3>3. pc' \in {"publish", "caught"}
      BY <2>4 DEF Cleanup
    <3> QED BY <2>1, <2>2, <2>3, <3>1, <3>2, <3>3 DEF Finishes, IInv
  <2>5. CASE ~ok
    BY <2>1, <2>2, <2>5 DEF Cleanup, Finishes, IInv
  <2> QED BY <2>4, <2>5
<1>9. PublishAfterCleanup'
  BY DEF jobVars, stopVars, FinishOwnership, Cleanup, TypeOK, PublishAfterCleanup, IInv
<1>10. GroupFinishes'
  BY HandledStays DEF jobVars, stopVars, FinishOwnership, Cleanup, TypeOK, TruthfulScope,
      GroupFinishes, IInv
<1>11. ShutdownWaitsForOwner'
  BY DEF jobVars, stopVars, Cleanup, ShutdownWaitsForOwner, IInv
<1> QED BY <1>1, <1>2, <1>3, <1>4, <1>5, <1>6, <1>7, <1>8, <1>9, <1>10, <1>11 DEF IInv

(* A failed cleanup fails the pending jobs. *)
LEMMA EvictKeeps ==
  ASSUME IInv, Evict
  PROVE  IInv'
<1>1. TypeOK'
  <2>1. Handled \in SUBSET Job /\ evicted \in SUBSET Job
    BY HandledIsActive DEF Evict, Running, TypeOK, IInv
  <2>2. finished' = finished \cup (evicted \cup Handled) /\ finalized' = finalized
        /\ finalizeFailed' \subseteq finalizeFailed \cup (evicted \cup Handled)
    BY Finished DEF Evict
  <2>3. future' \in [Job -> {"new", "waiting"} \cup Answers]
    BY DEF Evict, Answer, Answers, TypeOK, IInv
  <2> QED BY <2>1, <2>2, <2>3 DEF Evict, serviceVars, stopVars, TypeOK, IInv
<1>2. OnePump'
  BY DEF serviceVars, stopVars, Answer, FinishOwnership, Evict, TypeOK, PumpRunning,
      OnePump, IInv
<1>3. Places'
  BY DEF serviceVars, stopVars, Answer, FinishOwnership, Evict, TypeOK, Sealing, Running,
      Places, IInv
<1>4. ShutDown'
  BY DEF serviceVars, stopVars, Answer, FinishOwnership, Evict, TypeOK, ShutDown, IInv
<1>5. Apart'
  BY DEF serviceVars, stopVars, Answer, FinishOwnership, Evict, TypeOK, Apart, IInv
<1>6. HeldAreOpen'
  BY DEF serviceVars, stopVars, Answer, FinishOwnership, Evict, TypeOK, Held, HeldAreOpen,
      IInv
<1>7. RunSettles'
  BY HandledStays DEF serviceVars, stopVars, Answer, FinishOwnership, Evict, TypeOK,
      RunSettles, IInv
<1>8. Finishes'
  <2>1. pc = "evict" /\ Handled' = Handled /\ pc' = "caught"
    BY HandledStays DEF Evict, serviceVars
  <2>2. Handled \subseteq active /\ active \subseteq Job /\ evicted \subseteq Job
    BY <2>1, HandledIsActive DEF Running, TypeOK, IInv
  <2>3. \A j \in finished : future[j] # "waiting" /\ future[j] # "new" /\ j \in Job
    BY <2>1 DEF Finishes, TypeOK, IInv
  <2>4. \A j \in Handled \cup evicted : future[j] # "new"
    BY <2>2 DEF HeldAreOpen, Held, IInv
  <2>5. \A j \in Job : future'[j] = IF j \in evicted /\ future[j] = "waiting" THEN "failed" ELSE future[j]
    BY DEF Evict, Answer
  <2>6. finished' = finished \cup (evicted \cup Handled) /\ finalized' = finalized
    BY Finished DEF Evict
  <2> QED BY <2>1, <2>2, <2>3, <2>4, <2>5, <2>6 DEF Finishes, IInv
<1>9. PublishAfterCleanup'
  BY DEF serviceVars, stopVars, Answer, FinishOwnership, Evict, TypeOK, PublishAfterCleanup,
      IInv
<1>10. GroupFinishes'
  BY HandledStays DEF serviceVars, stopVars, Answer, FinishOwnership, Evict, TypeOK,
      TruthfulScope, GroupFinishes, IInv
<1>11. ShutdownWaitsForOwner'
  BY DEF serviceVars, stopVars, Evict, ShutdownWaitsForOwner, IInv
<1> QED BY <1>1, <1>2, <1>3, <1>4, <1>5, <1>6, <1>7, <1>8, <1>9, <1>10, <1>11 DEF IInv

(* Results are published. *)
LEMMA PublishKeeps ==
  ASSUME IInv, Publish
  PROVE  IInv'
<1>1. pc = "publish" /\ Handled \subseteq active /\ active \subseteq Job /\ good \subseteq Handled
  BY HandledIsActive DEF Publish, Running, RunSettles, TypeOK, IInv
<1>2. rows' = rows \ Handled /\ active' = active /\ pc' \in {"run", "close"}
  BY DEF Publish, NextRow, serviceVars
<1>3. \A j \in Job : future'[j] = IF j \in good /\ future[j] = "waiting" THEN "result" ELSE future[j]
  BY DEF Publish, Answer
<1>4. \A j \in Handled : future'[j] # "waiting"
  BY <1>1, <1>3 DEF RunSettles, IInv
<1>5. TypeOK'
  BY DEF ownership, serviceVars, stopVars, Answer, NextRow, Publish, Answers, TypeOK, IInv
<1>6. OnePump'
  BY DEF ownership, serviceVars, stopVars, Answer, NextRow, Publish, TypeOK, PumpRunning,
      OnePump, IInv
<1>7. Places'
  BY DEF ownership, serviceVars, stopVars, Answer, NextRow, Publish, TypeOK, Sealing,
      Running, Places, IInv
<1>8. ShutDown'
  BY DEF ownership, serviceVars, stopVars, Answer, NextRow, Publish, TypeOK, ShutDown, IInv
<1>9. Apart'
  BY DEF ownership, serviceVars, stopVars, Answer, NextRow, Publish, TypeOK, Apart, IInv
<1>10. HeldAreOpen'
  <2>1. pending' = pending /\ drained' = drained /\ evicted' = evicted /\ stopping' = stopping
    BY DEF Publish, serviceVars, stopVars
  <2>2. rows \subseteq active
    BY <1>1 DEF Places, IInv
  <2> QED BY <1>1, <1>2, <1>3, <1>4, <2>1, <2>2 DEF HeldAreOpen, Held, IInv
<1>11. RunSettles'
  BY <1>1, <1>2, <1>3, <1>4 DEF RunSettles, IInv
<1>12. Finishes'
  <2>1. finished' = finished /\ finalized' = finalized /\ finished \subseteq Job
    BY DEF Publish, ownership, TypeOK, IInv
  <2> QED BY <1>1, <1>2, <1>3, <1>4, <2>1 DEF Finishes, IInv
<1>13. PublishAfterCleanup'
  <2>1. finalized' = finalized
    BY DEF Publish, ownership
  <2> QED BY <1>1, <1>3, <2>1 DEF Finishes, PublishAfterCleanup, IInv
<1>14. ShutdownWaitsForOwner'
  BY DEF ownership, serviceVars, stopVars, Answer, NextRow, Publish, TypeOK,
      ShutdownWaitsForOwner, IInv
<1>15. GroupFinishes'
  <2>1. admitted' = admitted /\ finished' = finished /\ scope' = scope
    BY DEF Publish, ownership
  <2>2. ~SerialB1 => active \subseteq finished
    BY <1>1, HandledIsActive DEF Running, Finishes, IInv
  <2> QED BY <1>2, <2>1, <2>2 DEF GroupFinishes, TruthfulScope, IInv
<1> QED BY <1>5, <1>6, <1>7, <1>8, <1>9, <1>10, <1>11, <1>12, <1>13, <1>14, <1>15 DEF IInv

(* An exception is caught. *)
LEMMA CaughtKeeps ==
  ASSUME IInv, Caught
  PROVE  IInv'
<1>1. pc = "caught" /\ Handled \subseteq active /\ active \subseteq Job /\ raised # "none"
      /\ raised \in {"none", "cancelled", "failed"}
  BY HandledIsActive DEF Caught, Running, RunSettles, TypeOK, IInv
<1>2. active' = active /\ pc' \in {"run", "close"} /\ rows' \subseteq rows /\ raised' = "none"
  BY DEF Caught, NextRow, serviceVars
<1>3. PICK S \in {Handled, active} : future' = Answer(S, raised) /\ rows \ rows' \subseteq S
  BY <1>1 DEF Caught, NextRow, Places, IInv
<1>4. \A j \in Job : future'[j] = IF j \in S /\ future[j] = "waiting" THEN raised ELSE future[j]
  BY <1>3 DEF Answer
<1>5. \A j \in S : future'[j] # "waiting"
  BY <1>1, <1>3, <1>4
<1>6. Handled \subseteq S /\ S \subseteq Job
  BY <1>1
<1>7. TypeOK'
  <2>1. future' \in [Job -> {"new", "waiting"} \cup Answers]
    BY <1>1, <1>3 DEF Answer, Answers, TypeOK, IInv
  <2> QED BY <1>2, <2>1 DEF Caught, ownership, serviceVars, stopVars, TypeOK, IInv
<1>8. OnePump'
  BY DEF ownership, serviceVars, stopVars, Answer, NextRow, Caught, TypeOK, PumpRunning,
      OnePump, IInv
<1>9. Places'
  BY DEF ownership, serviceVars, stopVars, Answer, NextRow, Caught, TypeOK, Sealing,
      Running, Places, IInv
<1>10. ShutDown'
  BY DEF ownership, serviceVars, stopVars, Answer, NextRow, Caught, TypeOK, ShutDown, IInv
<1>11. Apart'
  BY DEF ownership, serviceVars, stopVars, Answer, NextRow, Caught, TypeOK, Apart, IInv
<1>12. HeldAreOpen'
  <2>1. pending' = pending /\ drained' = drained /\ evicted' = evicted /\ stopping' = stopping
        /\ rows \subseteq active
    BY <1>1 DEF Caught, serviceVars, stopVars, Places, IInv
  <2> QED BY <1>1, <1>2, <1>4, <2>1 DEF HeldAreOpen, Held, IInv
<1>13. RunSettles'
  <2>1. rows \subseteq active
    BY <1>1 DEF Places, IInv
  <2>2. \A j \in active' \ rows' : future'[j] # "waiting"
    BY <1>1, <1>2, <1>3, <1>4, <1>5 DEF RunSettles, IInv
  <2> QED BY <1>2, <2>2 DEF RunSettles
<1>14. Finishes'
  <2>1. finished' = finished /\ finalized' = finalized /\ finished \subseteq Job
    BY DEF Caught, ownership, TypeOK, IInv
  <2> QED BY <1>1, <1>2, <1>4, <1>5, <1>6, <2>1 DEF Finishes, IInv
<1>15. PublishAfterCleanup'
  <2>1. finalized' = finalized
    BY DEF Caught, ownership
  <2> QED BY <1>1, <1>4, <2>1 DEF PublishAfterCleanup, IInv
<1>16. ShutdownWaitsForOwner'
  BY DEF ownership, serviceVars, stopVars, Answer, NextRow, Caught, TypeOK,
      ShutdownWaitsForOwner, IInv
<1>17. GroupFinishes'
  <2>1. admitted' = admitted /\ finished' = finished /\ scope' = scope
    BY DEF Caught, ownership
  <2>2. ~SerialB1 => active \subseteq finished
    BY <1>1, HandledIsActive DEF Running, Finishes, IInv
  <2> QED BY <1>2, <2>1, <2>2 DEF GroupFinishes, TruthfulScope, IInv
<1> QED BY <1>7, <1>8, <1>9, <1>10, <1>11, <1>12, <1>13, <1>14, <1>15, <1>16, <1>17 DEF IInv

(* The run ends. *)
LEMMA RunEndsKeeps ==
  ASSUME IInv, RunEnds
  PROVE  IInv'
<1>1. TypeOK'
  BY DEF ownership, jobVars, stopVars, RunEnds, Answers, TypeOK, IInv
<1>2. OnePump'
  BY DEF ownership, jobVars, stopVars, RunEnds, TypeOK, PumpRunning, OnePump, IInv
<1>3. Places'
  BY DEF ownership, jobVars, stopVars, RunEnds, TypeOK, Sealing, Running, Places, IInv
<1>4. ShutDown'
  BY DEF ownership, jobVars, stopVars, RunEnds, TypeOK, ShutDown, IInv
<1>5. Apart'
  BY DEF ownership, jobVars, stopVars, RunEnds, TypeOK, Apart, IInv
<1>6. HeldAreOpen'
  <2>1. rows = {} /\ \A j \in active : future[j] # "waiting"
    BY DEF RunEnds, Places, RunSettles, IInv
  <2>2. Held' \subseteq Held /\ Held \ active \subseteq Held' /\ future' = future
    BY <2>1 DEF RunEnds, jobVars, stopVars, Held
  <2> QED BY <2>1, <2>2 DEF HeldAreOpen, IInv
<1>7. RunSettles'
  BY DEF ownership, jobVars, stopVars, RunEnds, TypeOK, RunSettles, IInv
<1>8. Finishes'
  BY DEF ownership, jobVars, stopVars, RunEnds, TypeOK, Finishes, IInv
<1>9. ShutdownWaitsForOwner'
  BY DEF ownership, jobVars, stopVars, RunEnds, TypeOK, ShutdownWaitsForOwner, IInv
<1>10. GroupFinishes'
  <2>1. admitted' = admitted /\ finished' = finished /\ scope' = scope /\ pc = "close"
        /\ active' = {} /\ pc' = "seal"
    BY DEF RunEnds, ownership, jobVars
  <2> QED BY <2>1 DEF GroupFinishes, TruthfulScope, IInv
<1>11. PublishAfterCleanup'
  BY DEF ownership, jobVars, stopVars, RunEnds, PublishAfterCleanup, IInv
<1> QED BY <1>1, <1>2, <1>3, <1>4, <1>5, <1>6, <1>7, <1>8, <1>9, <1>10, <1>11 DEF IInv

(* Shutdown takes the pending jobs, *)
LEMMA StopBeginKeeps ==
  ASSUME IInv, StopBegin
  PROVE  IInv'
<1>1. TypeOK'
  BY DEF ownership, pumpVars, Unlocked, StopBegin, Answers, TypeOK, IInv
<1>2. Places'
  BY DEF ownership, pumpVars, Unlocked, StopBegin, TypeOK, Sealing, Running, Places, IInv
<1>3. ShutDown'
  BY DEF ownership, pumpVars, Unlocked, StopBegin, TypeOK, ShutDown, IInv
<1>4. Apart'
  BY DEF ownership, pumpVars, Unlocked, StopBegin, TypeOK, Apart, IInv
<1>5. HeldAreOpen'
  <2>1. Held' = Held /\ future' = future
    BY DEF StopBegin, pumpVars, Held, Places, ShutDown, IInv
  <2> QED BY <2>1 DEF HeldAreOpen, IInv
<1>6. ShutdownWaitsForOwner'
  BY DEF ownership, pumpVars, Unlocked, StopBegin, TypeOK, ShutdownWaitsForOwner, IInv
<1>7. OnePump' /\ RunSettles' /\ Finishes' /\ PublishAfterCleanup' /\ GroupFinishes'
  BY HandledStays DEF ownership, pumpVars, StopBegin, PumpRunning, OnePump, TruthfulScope,
      PublishAfterCleanup, RunSettles, Finishes, GroupFinishes, IInv
<1> QED BY <1>1, <1>2, <1>3, <1>4, <1>5, <1>6, <1>7 DEF IInv

(* fails them, *)
LEMMA StopFailKeeps ==
  ASSUME IInv, StopFail
  PROVE  IInv'
<1>1. Handled' = Handled /\ Solo' = Solo /\ pc' = pc /\ active' = active /\ rows' = rows /\ good' = good
      /\ raised' = raised
  BY HandledStays DEF StopFail, serviceVars, pumpVars
<1>2. \A j \in Job : future'[j] = IF j \in stopping /\ future[j] = "waiting" THEN "failed" ELSE future[j]
  BY DEF StopFail, Answer
<1>3. active \subseteq Job /\ (pc \in Running => Handled \subseteq active)
  BY HandledIsActive DEF TypeOK, IInv
<1>4. TypeOK'
  BY DEF serviceVars, pumpVars, Answer, FinishOwnership, StopFail, Answers, TypeOK, IInv
<1>5. Places'
  BY DEF serviceVars, pumpVars, Answer, FinishOwnership, StopFail, TypeOK, Sealing, Running,
      Places, IInv
<1>6. ShutDown'
  BY DEF serviceVars, pumpVars, Answer, FinishOwnership, StopFail, TypeOK, ShutDown, IInv
<1>7. Apart'
  BY DEF serviceVars, pumpVars, Answer, FinishOwnership, StopFail, TypeOK, Apart, IInv
<1>8. HeldAreOpen'
  BY DEF serviceVars, pumpVars, Answer, FinishOwnership, StopFail, TypeOK, Held,
      HeldAreOpen, IInv
<1>9. RunSettles'
  <2>1. pc \in {"publish", "cleanup"} => Handled \subseteq Job
    BY <1>3 DEF Running
  <2> QED BY <1>1, <1>2, <1>3, <2>1 DEF RunSettles, IInv
<1>10. Finishes'
  <2>1. finished' = finished \cup stopping /\ finalized' = finalized
    BY Finished DEF StopFail
  <2>2. \A j \in stopping : future[j] # "new" /\ j \in Job
    BY DEF HeldAreOpen, Held, TypeOK, IInv
  <2>3. finished \subseteq Job /\ good \subseteq Job
    BY DEF TypeOK, IInv
  <2> QED BY <1>1, <1>2, <2>1, <2>2, <2>3 DEF Finishes, IInv
<1>11. PublishAfterCleanup'
  BY DEF serviceVars, pumpVars, Answer, FinishOwnership, StopFail, TypeOK,
      PublishAfterCleanup, IInv
<1>12. ShutdownWaitsForOwner'
  BY DEF serviceVars, pumpVars, Answer, FinishOwnership, StopFail, TypeOK,
      ShutdownWaitsForOwner, IInv
<1>13. GroupFinishes'
  BY DEF serviceVars, pumpVars, Answer, FinishOwnership, StopFail, TypeOK, TruthfulScope,
      GroupFinishes, IInv
<1>14. OnePump'
  BY DEF serviceVars, pumpVars, StopFail, PumpRunning, OnePump, IInv
<1> QED BY <1>4, <1>5, <1>6, <1>7, <1>8, <1>9, <1>10, <1>11, <1>12, <1>13, <1>14 DEF IInv

(* and waits for the group. *)
LEMMA StopEndsKeeps ==
  ASSUME IInv, StopEnds
  PROVE  IInv'
<1>1. TypeOK'
  BY DEF ownership, jobVars, serviceVars, pumpVars, Unlocked, StopEnds, Answers, TypeOK,
      IInv
<1>2. Places'
  BY DEF ownership, jobVars, serviceVars, pumpVars, Unlocked, StopEnds, TypeOK, Sealing,
      Running, Places, IInv
<1>3. ShutDown'
  BY DEF ownership, jobVars, serviceVars, pumpVars, Unlocked, StopEnds, TypeOK, ShutDown,
      IInv
<1>4. ShutdownWaitsForOwner'
  <2>1. active = {} => rows = {}
    BY DEF StopEnds, Unlocked, Places, IInv
  <2> QED BY <2>1 DEF StopEnds, serviceVars, pumpVars, ShutdownWaitsForOwner, IInv
<1>5. OnePump' /\ Apart' /\ HeldAreOpen' /\ RunSettles' /\ Finishes' /\ PublishAfterCleanup' /\ GroupFinishes'
  BY HandledStays DEF ownership, jobVars, serviceVars, pumpVars, StopEnds, PumpRunning,
      OnePump, TruthfulScope, PublishAfterCleanup, Apart, Held, HeldAreOpen, RunSettles,
      Finishes, GroupFinishes, IInv
<1> QED BY <1>1, <1>2, <1>3, <1>4, <1>5 DEF IInv

-----------------------------------------------------------------------------
(* The invariant.                                                          *)

(* It holds initially, *)
LEMMA InitHolds == Init => IInv
<1> SUFFICES ASSUME Init PROVE IInv
  OBVIOUS
<1>1. TypeOK
  <2>1. /\ future \in [Job -> {"new", "waiting"} \cup Answers] /\ ticket \in [Job -> Nat]
        /\ scope \in [Job -> {"none", "not_required_before_admission",
                              "cohort_owner_after_decode", "cohort_owner_finalize_failed"}]
    BY DEF Init
  <2> QED BY <2>1 DEF Init, TypeOK
<1>2. OnePump
  BY FS_EmptySet DEF Init, OnePump, PumpRunning
<1>3. Places /\ ShutDown
  BY DEF Init, Places, ShutDown, Sealing, Running
<1>4. Apart /\ HeldAreOpen
  BY DEF Init, Apart, HeldAreOpen, Held
<1>5. RunSettles /\ Finishes
  BY DEF Init, RunSettles, Finishes
<1>6. PublishAfterCleanup /\ ShutdownWaitsForOwner
  BY DEF Init, PublishAfterCleanup, ShutdownWaitsForOwner
<1>7. GroupFinishes
  BY DEF Init, GroupFinishes, TruthfulScope
<1> QED BY <1>1, <1>2, <1>3, <1>4, <1>5, <1>6, <1>7 DEF IInv

(* while nothing changes, *)
LEMMA StutterKeeps == IInv /\ UNCHANGED vars => IInv'
<1> SUFFICES ASSUME IInv, UNCHANGED vars PROVE IInv'
  OBVIOUS
<1> USE DEF vars, ownership, jobVars, serviceVars, pumpVars, stopVars
<1>1. TypeOK' /\ OnePump' /\ Places' /\ ShutDown' /\ Apart' /\ HeldAreOpen'
  BY DEF IInv, TypeOK, OnePump, PumpRunning, Places, ShutDown, Apart, HeldAreOpen, Held
<1>2. Handled' = Handled /\ Solo' = Solo
  BY HandledStays
<1>3. RunSettles' /\ Finishes'
  BY <1>2 DEF IInv, RunSettles, Finishes
<1>4. PublishAfterCleanup' /\ ShutdownWaitsForOwner' /\ GroupFinishes'
  BY DEF IInv, PublishAfterCleanup, ShutdownWaitsForOwner, GroupFinishes, TruthfulScope
<1> QED BY <1>1, <1>3, <1>4 DEF IInv

(* and across every step. *)
LEMMA NextKeeps ==
  ASSUME IInv, [Next]_vars
  PROVE  IInv'
<1>1. ASSUME NEW j \in Job, Requests(j) PROVE IInv'
  BY <1>1, SubmitKeeps, SchedulePumpKeeps, CancelKeeps, ClaimKeeps DEF Requests
<1>2. ASSUME NEW j \in Job, RowCallbackRaises(j) \/ RowCloses(j) PROVE IInv'
  BY <1>2, RowCallbackRaisesKeeps, RowClosesKeeps
<1>3. CASE Pump
  <2>1. CASE PumpStart \/ Unpump \/ Reschedule
    BY <2>1, PumpStartKeeps, UnpumpKeeps, RescheduleKeeps
  <2>2. CASE Seal
    <3>1. ASSUME NEW late \in BOOLEAN, SealSelect(late) PROVE IInv'
      BY <3>1, SealSelectKeeps
    <3> QED BY <2>2, <3>1, SealBeginKeeps, SealWakesKeeps, SealAdmitKeeps, DiscardKeeps DEF Seal
  <2>3. CASE Run
    <3>1. ASSUME NEW how \in {"none", "cancelled", "failed"}, SoloReturns(how) PROVE IInv'
      BY <3>1, SoloReturnsKeeps
    <3>2. ASSUME NEW ok \in BOOLEAN, DriverReturns(ok) \/ Cleanup(ok) PROVE IInv'
      BY <3>2, DriverReturnsKeeps, CleanupKeeps
    <3>3. CASE RunBegin \/ Evict \/ Publish \/ Caught \/ RunEnds
      BY <3>3, RunBeginKeeps, EvictKeeps, PublishKeeps, CaughtKeeps, RunEndsKeeps
    <3> QED BY <2>3, <3>1, <3>2, <3>3 DEF Run
  <2> QED BY <1>3, <2>1, <2>2, <2>3 DEF Pump
<1>4. CASE StopBegin \/ StopFail \/ StopEnds
  BY <1>4, StopBeginKeeps, StopFailKeeps, StopEndsKeeps
<1>5. CASE UNCHANGED vars
  BY <1>5, StutterKeeps
<1> QED BY <1>1, <1>2, <1>3, <1>4, <1>5 DEF Next

(* The inductive invariant holds in every behaviour, in both numerics
   profiles. *)
THEOREM SpecIInv == Spec => []IInv
<1>1. IInv /\ [Next]_vars => IInv'
  BY NextKeeps
<1> QED BY InitHolds, <1>1, PTL DEF Spec

(* Every field of the service, its jobs, its pump and its shutdown has its
   type. *)
THEOREM TypeCorrect == Spec => []TypeOK
<1>1. IInv => TypeOK
  BY DEF IInv
<1> QED BY <1>1, SpecIInv, PTL

(* However submitters, the scheduler's queue and the end of the pump
   interleave, the flag stands for exactly one pump. *)
THEOREM OnePumpEver == Spec => []OnePump
<1>1. IInv => OnePump
  BY DEF IInv
<1> QED BY <1>1, SpecIInv, PTL

(* A result is published only after the owner's cleanup of its row. *)
THEOREM ResultsAfterCleanup == Spec => []PublishAfterCleanup
<1>1. IInv => PublishAfterCleanup
  BY DEF IInv
<1> QED BY <1>1, SpecIInv, PTL

(* When shutdown returns, the owner runs no group, and never will. *)
THEOREM ShutdownWaits == Spec => []ShutdownWaitsForOwner
<1>1. IInv => ShutdownWaitsForOwner
  BY DEF IInv
<1> QED BY <1>1, SpecIInv, PTL

(* With cohort numerics the scope a cancelled request is told is the truth.
   (In the b1-exact profile it is not always, so the profile is assumed.) *)
THEOREM ScopesAreTruthful ==
  ASSUME ~SerialB1
  PROVE  Spec => []TruthfulScope
<1>1. IInv => TruthfulScope
  BY DEF IInv, GroupFinishes
<1> QED BY <1>1, SpecIInv, PTL

-----------------------------------------------------------------------------
(* The properties that follow from the invariant.                          *)

(* A job whose future is open has one holder. *)
LEMMA HoldersCount ==
  ASSUME IInv, NEW j \in Job, future[j] = "waiting"
  PROVE  Cardinality(Holders(j)) = 1
<1> DEFINE selected == IF pc = "admit" THEN rows ELSE {}
           All == {<<"pending", pending>>, <<"drained", drained>>, <<"active", active>>,
                   <<"selected", selected>>, <<"evicted", evicted>>, <<"stopping", stopping>>}
<1>1. ASSUME NEW L \in All, j \in L[2], \A M \in All : j \in M[2] => M = L
      PROVE  Cardinality(Holders(j)) = 1
  <2>1. Holders(j) = {L}
    BY <1>1 DEF Holders
  <2> QED BY <2>1, FS_Singleton
<1>2. /\ drained # {} => pc \in Sealing /\ evicted = {}
      /\ active # {} => pc # "admit"
      /\ selected # {} => pc = "admit"
      /\ evicted # {} => pc = "evict"
      /\ selected \subseteq rows
  BY DEF IInv, Places, Sealing, Running
<1>3. j \in pending \cup drained \cup active \cup selected \cup evicted \cup stopping
  BY DEF IInv, HeldAreOpen, Held, Places
<1>4. /\ j \in pending => j \notin drained \cup active \cup selected \cup evicted \cup stopping
      /\ j \in drained => j \notin active \cup selected \cup evicted \cup stopping
      /\ j \in active => j \notin selected \cup evicted \cup stopping
      /\ j \in selected => j \notin evicted \cup stopping
      /\ j \in evicted => j \notin stopping
  BY <1>2 DEF IInv, Apart
<1> HIDE DEF selected
<1>5. CASE j \in pending
  BY <1>1, <1>4, <1>5
<1>6. CASE j \in drained
  BY <1>1, <1>4, <1>6
<1>7. CASE j \in active
  BY <1>1, <1>4, <1>7
<1>8. CASE j \in selected
  BY <1>1, <1>4, <1>8
<1>9. CASE j \in evicted
  BY <1>1, <1>4, <1>9
<1>10. CASE j \in stopping
  BY <1>1, <1>4, <1>10
<1> QED BY <1>3, <1>5, <1>6, <1>7, <1>8, <1>9, <1>10

(* While a job's future is open, exactly one of the pending list, the seal,
   the group, a poisoned finalize and the shutdown has it; and pending jobs
   have a pump. *)
THEOREM NobodyIsStranded == Spec => []NoJobStranded
<1>1. ASSUME IInv PROVE NoJobStranded
  <2>1. \A j \in Job : future[j] = "waiting" => Cardinality(Holders(j)) = 1
    BY <1>1, HoldersCount
  <2>2. pending # {} => pumpScheduled /\ ~shutdown
    BY <1>1 DEF IInv, ShutDown
  <2> QED BY <2>1, <2>2 DEF NoJobStranded
<1> QED BY <1>1, SpecIInv, PTL

(* No step admits a job to a service that is shut down. *)
LEMMA ShutdownHolds ==
  ASSUME IInv, [Next]_vars, shutdown
  PROVE  active' \subseteq active /\ admitted' = admitted
<1> USE DEF ownership, serviceVars
<1>1. pc # "admit"
  BY DEF IInv, ShutDown
<1>2. ASSUME NEW j \in Job, Requests(j) \/ RowCallbackRaises(j) \/ RowCloses(j)
      PROVE  active' = active /\ admitted' = admitted
  BY <1>2 DEF Requests, Submit, SchedulePump, Cancel, Claim, RowCallbackRaises, RowCloses
<1>3. CASE PumpStart \/ Unpump \/ Reschedule
  BY <1>3 DEF PumpStart, Unpump, Reschedule
<1>4. CASE Seal
  BY <1>1, <1>4 DEF Seal, SealBegin, SealSelect, SealWakes, SealAdmit, Discard
<1>5. CASE Run
  <2>1. ASSUME NEW how, SoloReturns(how) PROVE active' = active /\ admitted' = admitted
    BY <2>1 DEF SoloReturns
  <2>2. ASSUME NEW ok, DriverReturns(ok) \/ Cleanup(ok)
        PROVE  active' = active /\ admitted' = admitted
    BY <2>2 DEF DriverReturns, Cleanup
  <2>3. CASE RunBegin \/ Evict \/ Publish \/ Caught \/ RunEnds
    BY <2>3 DEF RunBegin, Evict, Publish, Caught, RunEnds
  <2> QED BY <1>5, <2>1, <2>2, <2>3 DEF Run
<1>6. CASE StopBegin \/ StopFail \/ StopEnds
  BY <1>6 DEF StopBegin, StopFail, StopEnds
<1>7. CASE UNCHANGED vars
  BY <1>7 DEF vars
<1> QED BY <1>2, <1>3, <1>4, <1>5, <1>6, <1>7 DEF Next, Pump

(* A service that is shut down admits nobody, not even by a seal that was
   waiting when the flag was set. *)
THEOREM ShutdownAdmitsNobody == Spec => ShutdownStopsAdmission
<1>1. IInv /\ [Next]_vars =>
        [shutdown => active' \subseteq active /\ admitted' = admitted]_vars
  BY ShutdownHolds
<1> QED BY <1>1, SpecIInv, PTL DEF Spec, ShutdownStopsAdmission

(* No step answers a job a second time. *)
LEMMA AnsweredStays ==
  ASSUME TypeOK, [Next]_vars, NEW j \in Job, future[j] \in Answers
  PROVE  future'[j] = future[j]
<1>1. future[j] # "waiting" /\ future[j] # "new"
  BY DEF Answers
<1>2. ASSUME NEW S, NEW how PROVE Answer(S, how)[j] = future[j]
  BY <1>1 DEF Answer
<1>3. ASSUME NEW k \in Job, Requests(k) PROVE future'[j] = future[j]
  BY <1>1, <1>3 DEF Requests, Submit, SchedulePump, Cancel, Claim, jobVars, TypeOK
<1>4. ASSUME NEW k \in Job, RowCallbackRaises(k) \/ RowCloses(k) PROVE future'[j] = future[j]
  BY <1>2, <1>4 DEF RowCallbackRaises, RowCloses
<1>5. CASE PumpStart \/ Unpump \/ Reschedule
  BY <1>5 DEF PumpStart, Unpump, Reschedule, jobVars
<1>6. CASE Seal
  BY <1>2, <1>6 DEF Seal, SealBegin, SealSelect, SealWakes, SealAdmit, Discard, jobVars
<1>7. CASE Run
  <2>1. ASSUME NEW how, SoloReturns(how) PROVE future'[j] = future[j]
    BY <2>1 DEF SoloReturns, jobVars
  <2>2. ASSUME NEW ok, DriverReturns(ok) PROVE future'[j] = future[j]
    BY <1>2, <2>2 DEF DriverReturns
  <2>3. ASSUME NEW ok, Cleanup(ok) PROVE future'[j] = future[j]
    BY <2>3 DEF Cleanup, jobVars
  <2>4. CASE RunBegin \/ RunEnds
    BY <2>4 DEF RunBegin, RunEnds, jobVars
  <2>5. CASE Evict \/ Publish \/ Caught
    <3>1. \E S, how : future' = Answer(S, how)
      BY <2>5 DEF Evict, Publish, Caught
    <3> QED BY <1>2, <3>1
  <2> QED BY <1>7, <2>1, <2>2, <2>3, <2>4, <2>5 DEF Run
<1>8. CASE StopBegin \/ StopFail \/ StopEnds
  BY <1>2, <1>8 DEF StopBegin, StopFail, StopEnds, jobVars
<1>9. CASE UNCHANGED vars
  BY <1>9 DEF vars, jobVars
<1> QED BY <1>3, <1>4, <1>5, <1>6, <1>7, <1>8, <1>9 DEF Next, Pump

(* A future is answered once: no callback, cancellation, driver, poisoned
   cleanup or shutdown takes back what another has answered. *)
THEOREM AnsweredOnce == Spec => AnswersOnce
<1>1. TypeOK /\ [Next]_vars =>
        [\A j \in Job : future[j] \in Answers => future'[j] = future[j]]_vars
  BY AnsweredStays
<1> QED BY <1>1, TypeCorrect, PTL DEF Spec, AnswersOnce

-----------------------------------------------------------------------------
(* The contract: its strengthening first, conjunct by conjunct.            *)

(* All steps but a submission leave the tickets alone, and what they change
   of the futures they change by an answer. *)
OnlyAnswers ==
  /\ ticket' = ticket
  /\ \A j \in Job : future'[j] \in {"new", "waiting"} => future'[j] = future[j]

(* A step that answers does. *)
LEMMA AnswerAnswers ==
  ASSUME ticket' = ticket,
         \/ future' = future
         \/ \E S, how : how \in Answers /\ future' = Answer(S, how)
  PROVE  OnlyAnswers
BY DEF OnlyAnswers, Answer, Answers

(* Every other step does, too. *)
LEMMA NobodyReopens ==
  ASSUME IInv, [Next]_vars, \A j \in Job : ~Submit(j)
  PROVE  OnlyAnswers
<1> USE DEF jobVars
<1>1. ASSUME NEW k \in Job, Requests(k) PROVE OnlyAnswers
  BY <1>1, AnswerAnswers DEF Requests, SchedulePump, Cancel, Claim
<1>2. ASSUME NEW k \in Job, RowCallbackRaises(k) \/ RowCloses(k) PROVE OnlyAnswers
  BY <1>2, AnswerAnswers DEF RowCallbackRaises, RowCloses, Answers
<1>3. CASE PumpStart \/ Unpump \/ Reschedule
  BY <1>3, AnswerAnswers DEF PumpStart, Unpump, Reschedule
<1>4. CASE Seal
  <2>1. ASSUME NEW late, SealSelect(late) PROVE OnlyAnswers
    BY <2>1, AnswerAnswers DEF SealSelect
  <2>2. CASE SealBegin \/ SealWakes \/ SealAdmit
    BY <2>2, AnswerAnswers DEF SealBegin, SealWakes, SealAdmit
  <2>3. CASE Discard
    BY <2>3, AnswerAnswers DEF Discard, Answers
  <2> QED BY <1>4, <2>1, <2>2, <2>3 DEF Seal
<1>5. CASE Run
  <2>1. ASSUME NEW how, SoloReturns(how) PROVE OnlyAnswers
    BY <2>1, AnswerAnswers DEF SoloReturns
  <2>2. ASSUME NEW ok \in BOOLEAN, DriverReturns(ok) PROVE OnlyAnswers
    BY <2>2, AnswerAnswers DEF DriverReturns, Answers
  <2>3. ASSUME NEW ok, Cleanup(ok) PROVE OnlyAnswers
    BY <2>3, AnswerAnswers DEF Cleanup
  <2>4. CASE RunBegin \/ RunEnds
    BY <2>4, AnswerAnswers DEF RunBegin, RunEnds
  <2>5. CASE Evict \/ Publish
    BY <2>5, AnswerAnswers DEF Evict, Publish, Answers
  <2>6. CASE Caught
    <3>1. raised \in Answers
      BY <2>6 DEF Caught, IInv, TypeOK, RunSettles, Answers
    <3> QED BY <2>6, <3>1, AnswerAnswers DEF Caught
  <2> QED BY <1>5, <2>1, <2>2, <2>3, <2>4, <2>5, <2>6 DEF Run
<1>6. CASE StopBegin \/ StopFail \/ StopEnds
  <2>1. CASE StopFail
    BY <2>1, AnswerAnswers DEF StopFail, Answers
  <2>2. CASE StopBegin \/ StopEnds
    BY <2>2, AnswerAnswers DEF StopBegin, StopEnds
  <2> QED BY <1>6, <2>1, <2>2
<1>7. CASE UNCHANGED vars
  BY <1>7, AnswerAnswers DEF vars
<1> QED BY <1>1, <1>2, <1>3, <1>4, <1>5, <1>6, <1>7 DEF Next, Pump

(* An accepted job draws the next ticket. *)
LEMMA SubmitTickets ==
  ASSUME IInv, Tickets, NEW j \in Job, Submit(j)
  PROVE  /\ Tickets'
         /\ ticket' # ticket => \A k \in Job : ticket[k] < ticket'[j]
<1>1. future[j] = "new" /\ ticket[j] = 0 /\ j \notin Submitted /\ Submitted \in SUBSET Job
  BY DEF Submit, Tickets, Submitted
<1>2. TypeOK
  BY DEF IInv
<1>3. CASE shutdown \/ j \in ClaimedLocally
  <2>1. ticket' = ticket
    BY <1>3 DEF Submit
  <2>2. \A k \in Job : future'[k] \in {"new", "waiting"} => future'[k] = future[k]
    BY <1>2, <1>3 DEF Submit, TypeOK
  <2> QED BY <2>1, <2>2 DEF Tickets, Submitted
<1>4. CASE ~(shutdown \/ j \in ClaimedLocally)
  <2>1. /\ future' = [future EXCEPT ![j] = "waiting"]
        /\ ticket' = [ticket EXCEPT ![j] = 1 + Cardinality(Submitted)]
    BY <1>4 DEF Submit, Submitted
  <2>2. Cardinality(Submitted) \in Nat /\ Cardinality(Submitted \cup {j}) = Cardinality(Submitted) + 1
    BY <1>1, SetsOfJobs, FS_AddElement
  <2>3. ticket'[j] = 1 + Cardinality(Submitted) /\ \A k \in Job \ {j} : ticket'[k] = ticket[k]
    BY <1>2, <2>1 DEF TypeOK
  <2>4. Submitted' = Submitted \cup {j}
    <3>1. ticket'[j] > 0
      BY <2>2, <2>3
    <3> QED BY <2>3, <3>1 DEF Submitted
  <2>5. \A k \in Job : ticket[k] <= Cardinality(Submitted) /\ ticket[k] \in Nat
    BY <1>2 DEF Tickets, TypeOK
  <2>6. \A k \in Job : /\ future'[k] = "new" => ticket'[k] = 0
                       /\ future'[k] = "waiting" => ticket'[k] > 0
    BY <1>2, <2>1, <2>2, <2>3 DEF Tickets, TypeOK
  <2>7. \A k \in Job : ticket'[k] <= Cardinality(Submitted)'
    BY <2>2, <2>3, <2>4, <2>5
  <2>8. \A k, l \in Submitted' : ticket'[k] = ticket'[l] => k = l
    <3>1. \A k \in Submitted : /\ k # j /\ ticket'[k] = ticket[k] /\ ticket'[k] \in Nat
                               /\ ticket'[k] <= Cardinality(Submitted)
      BY <1>1, <2>3, <2>5
    <3>2. \A k, l \in Submitted : ticket[k] = ticket[l] => k = l
      BY DEF Tickets
    <3> QED BY <2>2, <2>3, <2>4, <3>1, <3>2
  <2> QED BY <2>2, <2>3, <2>5, <2>6, <2>7, <2>8 DEF Tickets
<1> QED BY <1>3, <1>4

(* So the tickets stay in order. *)
LEMMA TicketsKeep ==
  ASSUME IInv, Tickets, [Next]_vars
  PROVE  Tickets'
<1>1. CASE \E j \in Job : Submit(j)
  BY <1>1, SubmitTickets
<1>2. CASE \A j \in Job : ~Submit(j)
  BY <1>2, NobodyReopens DEF OnlyAnswers, Tickets, Submitted
<1> QED BY <1>1, <1>2

(* Nobody is answered while he is queued. *)
LEMMA QueueIsOpenKeeps ==
  ASSUME IInv, QueueIsOpen, [Next]_vars
  PROVE  QueueIsOpen'
<1> DEFINE Queue == pending \cup drained \cup evicted \cup stopping
<1> USE DEF jobVars, serviceVars, pumpVars, stopVars
<1>1. ASSUME NEW S, NEW how, future' = Answer(S, how),
             Queue' \subseteq Queue \ S, pc' # "admit"
      PROVE  QueueIsOpen'
  BY <1>1 DEF QueueIsOpen, Answer, IInv, TypeOK
<1>2. ASSUME future' = future, Queue' \subseteq Queue \cup rows, rows' \subseteq rows \cup Queue,
             pc # "admit" => Queue' \subseteq Queue, pc' = "admit" => rows' \subseteq Queue \/ pc = "admit"
      PROVE  QueueIsOpen'
  BY <1>2 DEF QueueIsOpen
<1>3. ASSUME NEW k \in Job, Requests(k) PROVE QueueIsOpen'
  <2>1. CASE Submit(k)
    BY <2>1 DEF Submit, Unlocked, QueueIsOpen, IInv, TypeOK
  <2>2. CASE SchedulePump(k) \/ Cancel(k) \/ Claim(k)
    BY <2>2 DEF SchedulePump, Cancel, Claim, QueueIsOpen
  <2> QED BY <1>3, <2>1, <2>2 DEF Requests
<1>4. ASSUME NEW k \in Job, RowCallbackRaises(k) \/ RowCloses(k) PROVE QueueIsOpen'
  <2>1. Queue \cap active = {}
    BY <1>4 DEF IInv, Apart, RowCallbackRaises, RowCloses
  <2> QED BY <1>1, <1>4, <2>1 DEF RowCallbackRaises, RowCloses
<1>5. CASE PumpStart \/ Unpump \/ Reschedule
  BY <1>5 DEF PumpStart, Unpump, Reschedule, QueueIsOpen
<1>6. CASE Seal
  <2>1. CASE SealBegin
    BY <1>2, <2>1 DEF SealBegin, Drain, Live
  <2>2. ASSUME NEW late \in BOOLEAN, SealSelect(late) PROVE QueueIsOpen'
    <3>1. pc = "select" /\ future' = future /\ rows = {}
      BY <2>2 DEF SealSelect, IInv, Places, Running
    <3>2. rows' \subseteq pending /\ Queue' \subseteq Queue
      BY <2>2, <3>1, SelectTakes DEF SealSelect
    <3> QED BY <1>2, <3>1, <3>2
  <2>3. CASE SealWakes
    BY <1>2, <2>3 DEF SealWakes, Drain, Live
  <2>4. CASE SealAdmit
    BY <1>2, <2>4 DEF SealAdmit
  <2>5. CASE Discard
    <3>1. drained \cap (pending \cup stopping) = {} /\ evicted = {}
      BY <2>5 DEF Discard, IInv, Apart, Places
    <3> QED BY <1>1, <2>5, <3>1 DEF Discard
  <2> QED BY <1>6, <2>1, <2>2, <2>3, <2>4, <2>5 DEF Seal
<1>7. CASE Run
  <2>1. ASSUME NEW how, SoloReturns(how) PROVE QueueIsOpen'
    BY <1>2, <2>1 DEF SoloReturns
  <2>2. ASSUME NEW ok \in BOOLEAN, DriverReturns(ok) PROVE QueueIsOpen'
    <3>1. Queue \cap active = {}
      BY <2>2 DEF IInv, Apart
    <3>2. CASE ok
      BY <1>1, <2>2, <3>1, <3>2 DEF DriverReturns
    <3>3. CASE ~ok
      BY <1>2, <2>2, <3>3 DEF DriverReturns
    <3> QED BY <3>2, <3>3
  <2>3. ASSUME NEW ok \in BOOLEAN, Cleanup(ok) PROVE QueueIsOpen'
    BY <1>2, <2>3 DEF Cleanup
  <2>4. CASE RunBegin \/ RunEnds
    BY <1>2, <2>4 DEF RunBegin, RunEnds
  <2>5. CASE Evict
    <3>1. evicted \cap Queue' = {}
      BY <2>5 DEF Evict, IInv, Apart, Places, Sealing
    <3> QED BY <1>1, <2>5, <3>1 DEF Evict
  <2>6. CASE Publish \/ Caught
    <3>1. Handled \subseteq active /\ Queue \cap active = {} /\ pc' # "admit" /\ Queue' = Queue
      BY <2>6, HandledIsActive DEF Running, Publish, Caught, NextRow, IInv, Apart
    <3>2. Publish => good \subseteq Handled
      BY DEF Publish, IInv, RunSettles
    <3> QED BY <1>1, <2>6, <3>1, <3>2 DEF Publish, Caught
  <2> QED BY <1>7, <2>1, <2>2, <2>3, <2>4, <2>5, <2>6 DEF Run
<1>8. CASE StopBegin \/ StopFail \/ StopEnds
  <2>1. CASE StopFail
    <3>1. stopping \cap Queue' = {} /\ stopping \cap rows = {}
      BY <2>1 DEF StopFail, IInv, Apart
    <3> QED BY <2>1, <3>1 DEF StopFail, QueueIsOpen, Answer, IInv, TypeOK
  <2>2. CASE StopBegin \/ StopEnds
    BY <2>2 DEF StopBegin, StopEnds, QueueIsOpen
  <2> QED BY <1>8, <2>1, <2>2
<1>9. CASE UNCHANGED vars
  BY <1>9 DEF vars, QueueIsOpen
<1> QED BY <1>3, <1>4, <1>5, <1>6, <1>7, <1>8, <1>9 DEF Next, Pump

(* The first n jobs of a set are no more than n: the last of them has all the
   others before it. *)
LEMMA FirstIsBounded ==
  ASSUME TypeOK, Tickets, NEW S \in SUBSET Submitted, NEW n \in Nat
  PROVE  First(S, n) \subseteq S /\ Cardinality(First(S, n)) <= n
<1> DEFINE F == First(S, n)
           back(j) == Cardinality(Submitted) - ticket[j]
           B == {back(j) : j \in F}
<1>1. F \subseteq S /\ S \subseteq Job /\ Submitted \subseteq Job
  BY DEF First, Submitted
<1>2. CASE F = {}
  BY <1>1, <1>2, FS_EmptySet
<1>3. CASE F # {}
  <2>1. Cardinality(Submitted) \in Nat
    BY <1>1, SetsOfJobs
  <2>2. \A j \in F : back(j) \in Nat
    BY <1>1, <2>1 DEF Tickets, TypeOK
  <2>3. PICK b \in B : \A c \in B : b <= c
    <3>1. B \in SUBSET Nat /\ B # {}
      BY <1>3, <2>2
    <3> HIDE DEF B
    <3> QED BY <3>1, LeastExists
  <2>4. PICK m \in F : b = back(m)
    OBVIOUS
  <2>5. \A j \in F : back(m) <= back(j)
    BY <2>3, <2>4
  <2>6. \A j \in F : ticket[j] <= ticket[m]
    BY <1>1, <2>1, <2>5 DEF TypeOK
  <2>7. F \ {m} \subseteq Ahead(S, m) /\ Ahead(S, m) \in SUBSET Job
    BY <1>1, <2>6 DEF Ahead, Tickets, TypeOK
  <2>8. Cardinality(Ahead(S, m)) < n /\ Cardinality(Ahead(S, m)) \in Nat
    BY <2>7, SetsOfJobs DEF First
  <2>9. Cardinality(F \ {m}) <= Cardinality(Ahead(S, m))
    BY <2>7, SetsOfJobs, FS_Subset
  <2>10. Cardinality(F \ {m}) = Cardinality(F) - 1 /\ Cardinality(F) \in Nat
    BY <1>1, SetsOfJobs, FS_RemoveElement
  <2> QED BY <1>1, <2>8, <2>9, <2>10
<1> QED BY <1>2, <1>3

(* They come before the others. *)
LEMMA FirstComeFirst ==
  ASSUME TypeOK, NEW S \in SUBSET Job, NEW n \in Nat,
         NEW j \in First(S, n), NEW k \in S \ First(S, n)
  PROVE  ticket[j] < ticket[k]
<1> SUFFICES ASSUME ~(ticket[j] < ticket[k]) PROVE FALSE
  OBVIOUS
<1>1. j \in S /\ Ahead(S, k) \subseteq Ahead(S, j) /\ Ahead(S, j) \in SUBSET Job
  BY DEF First, Ahead, TypeOK
<1>2. Cardinality(Ahead(S, k)) <= Cardinality(Ahead(S, j))
  BY <1>1, SetsOfJobs, FS_Subset
<1>3. Cardinality(Ahead(S, k)) \in Nat /\ Cardinality(Ahead(S, j)) \in Nat
  BY <1>1, SetsOfJobs
<1> QED BY <1>2, <1>3 DEF First

(* A selection stays the head of what is live until it is admitted: with the
   condition held, a job can only be cancelled or claimed. *)
LEMMA SelectionIsFirstKeeps ==
  ASSUME IInv, Tickets, QueueIsOpen, SelectionIsFirst, [Next]_vars
  PROVE  SelectionIsFirst'
<1> SUFFICES ASSUME pc' = "admit" PROVE SelectionIsFirst'
  BY DEF SelectionIsFirst
<1>1. CASE pc = "admit"
  <2>1. ~shutdown
    BY <1>1 DEF IInv, ShutDown
  <2>2. /\ rows' = rows /\ ticket' = ticket /\ pending' = pending
        /\ cancelled \subseteq cancelled'
    <3>1. ASSUME NEW k \in Job, Requests(k) \/ RowCallbackRaises(k) \/ RowCloses(k)
          PROVE  /\ rows' = rows /\ ticket' = ticket /\ pending' = pending
                 /\ cancelled \subseteq cancelled'
      BY <1>1, <3>1 DEF Requests, Submit, Unlocked, SchedulePump, Cancel, Claim,
           RowCallbackRaises, RowCloses, jobVars, serviceVars, pumpVars
    <3>2. ~Pump
      BY <1>1 DEF Pump, PumpStart, Unpump, Reschedule, Seal, SealBegin, SealSelect, SealWakes,
           SealAdmit, Discard, Run, RunBegin, SoloReturns, DriverReturns, Cleanup, Evict,
           Publish, Caught, RunEnds
    <3>3. ~StopBegin /\ ~StopFail /\ ~StopEnds
      BY <1>1, <2>1 DEF StopBegin, StopFail, StopEnds, Unlocked, IInv, ShutDown
    <3>4. CASE UNCHANGED vars
      BY <3>4 DEF vars, jobVars, serviceVars, pumpVars
    <3> QED BY <3>1, <3>2, <3>3, <3>4 DEF Next
  <2> QED BY <1>1, <2>2 DEF SelectionIsFirst
<1>2. CASE pc # "admit"
  <2>1. PICK late \in BOOLEAN : SealSelect(late)
    <3>1. ASSUME NEW k \in Job PROVE ~(Requests(k) \/ RowCallbackRaises(k) \/ RowCloses(k))
      BY <1>2, <3>1 DEF Requests, Submit, SchedulePump, Cancel, Claim, RowCallbackRaises,
           RowCloses, pumpVars
    <3>2. CASE Seal
      BY <1>2, <3>2 DEF Seal, SealBegin, SealWakes, SealAdmit, Discard
    <3>3. ~(Run \/ PumpStart \/ Unpump \/ Reschedule)
      BY <1>2 DEF PumpStart, Unpump, Reschedule, Run, RunBegin, SoloReturns, DriverReturns,
           Cleanup, Evict, Publish, Caught, RunEnds, NextRow
    <3>4. ~(StopBegin \/ StopFail \/ StopEnds \/ UNCHANGED vars)
      BY <1>2 DEF StopBegin, StopFail, StopEnds, pumpVars, vars
    <3> QED BY <3>1, <3>2, <3>3, <3>4 DEF Next, Pump
  <2> DEFINE L == {k \in Live : Key[k] = Key[sealKey]}
  <2>2. /\ rows' = First(L, MaxWidth) /\ pending' = pending \ rows'
        /\ ticket' = ticket /\ cancelled' = cancelled
    BY <2>1 DEF SealSelect, Compatible, jobVars
  <2>3. L \in SUBSET Submitted /\ Submitted \in SUBSET Job /\ TypeOK
    BY DEF Live, QueueIsOpen, Tickets, Submitted, IInv, TypeOK
  <2>4. MaxWidth \in Nat
    BY BatchAssumption
  <2>5. Cardinality(rows') <= MaxWidth /\ rows' \subseteq L
    BY <2>2, <2>3, <2>4, FirstIsBounded
  <2>6. \A j \in rows', k \in pending' \ cancelled' : Key[k] = Key[j] => ticket[j] < ticket[k]
    <3> SUFFICES ASSUME NEW j \in rows', NEW k \in pending' \ cancelled', Key[k] = Key[j]
                 PROVE  ticket[j] < ticket[k]
      OBVIOUS
    <3>1. j \in First(L, MaxWidth) /\ k \in L \ First(L, MaxWidth)
      BY <2>2, <2>5 DEF Live
    <3> QED BY <2>3, <2>4, <3>1, FirstComeFirst
  <2> QED BY <2>2, <2>5, <2>6 DEF SelectionIsFirst
<1> QED BY <1>1, <1>2

(* A step that leaves these alone, and takes back no cancellation, keeps the
   truth. *)
LEMMA TruthStays ==
  ASSUME ToldTheTruth, cancelled \subseteq cancelled',
         drained' = drained, callbackFailed' = callbackFailed, scope' = scope,
         raised' = raised, pc' = pc, Handled' = Handled, shutdown' = shutdown, active' = active
  PROVE  ToldTheTruth'
BY DEF ToldTheTruth, ClaimedLocally

(* What the pump does while no exception is on its way out of the run. *)
LEMMA TruthMoves ==
  ASSUME ToldTheTruth, cancelled' = cancelled, scope' = scope, callbackFailed' = callbackFailed,
         drained' \subseteq cancelled, raised' # "cancelled", shutdown' = shutdown,
         pc # "close", pc \notin {"evict", "caught"}, active' \subseteq active
  PROVE  ToldTheTruth'
BY DEF ToldTheTruth, ClaimedLocally

(* Whoever is about to be told that he is cancelled is. *)
LEMMA ToldTheTruthKeeps ==
  ASSUME IInv, ToldTheTruth, [Next]_vars
  PROVE  ToldTheTruth'
<1> USE DEF jobVars, serviceVars, pumpVars, ownership
<1>1. ASSUME NEW j \in Job, Requests(j) PROVE ToldTheTruth'
  <2>1. CASE Submit(j)
    <3>1. CASE pc \in Running
      <4>1. Handled' = Handled
        BY <2>1, <3>1, HandledSurvives
      <4> QED BY <2>1, <4>1, TruthStays DEF Submit
    <3>2. CASE pc \notin Running
      BY <2>1, <3>2 DEF Submit, ToldTheTruth, ClaimedLocally, Running
    <3> QED BY <3>1, <3>2
  <2>2. CASE SchedulePump(j) \/ Cancel(j)
    BY <2>2, TruthStays, HandledStays DEF SchedulePump, Cancel
  <2>3. CASE Claim(j)
    <3>1. ClaimedLocally' \subseteq ClaimedLocally \cup {j} /\ j \in cancelled
      BY <2>3 DEF Claim, ClaimedLocally, IInv, TypeOK
    <3> QED BY <2>3, <3>1, HandledStays DEF Claim, ToldTheTruth
  <2> QED BY <1>1, <2>1, <2>2, <2>3 DEF Requests
<1>2. ASSUME NEW j \in Job, RowCallbackRaises(j) \/ RowCloses(j) PROVE ToldTheTruth'
  <2>1. Handled' = Handled
    BY <1>2, HandledStays DEF RowCallbackRaises, RowCloses
  <2> QED BY <1>2, <2>1 DEF RowCallbackRaises, RowCloses, ToldTheTruth, ClaimedLocally
<1>3. CASE PumpStart \/ Unpump \/ Reschedule
  BY <1>3, TruthMoves DEF PumpStart, Unpump, Reschedule, ToldTheTruth
<1>4. CASE Seal
  <2>1. CASE SealBegin
    BY <1>4, <2>1, TruthMoves DEF SealBegin, Drain, ToldTheTruth
  <2>2. ASSUME NEW late \in BOOLEAN, SealSelect(late) PROVE ToldTheTruth'
    BY <2>2, TruthMoves DEF SealSelect, ToldTheTruth
  <2>3. CASE SealWakes
    BY <2>3, TruthMoves DEF SealWakes, Drain, ToldTheTruth
  <2>4. CASE SealAdmit
    <3>1. ~shutdown
      BY <2>4 DEF SealAdmit, IInv, ShutDown
    <3>2. drained' \subseteq cancelled /\ raised # "cancelled"
      BY <2>4 DEF SealAdmit, ToldTheTruth
    <3> QED BY <2>4, <3>1, <3>2 DEF SealAdmit, ToldTheTruth, ClaimedLocally
  <2>5. CASE Discard
    BY <2>5, TruthMoves DEF Discard, ToldTheTruth
  <2> QED BY <1>4, <2>1, <2>2, <2>3, <2>4, <2>5 DEF Seal
<1>5. CASE RunBegin
  <2>1. raised' = "cancelled" => pc' = "cleanup" /\ Solo /\ Head(rows) \in cancelled
    BY <1>5 DEF RunBegin
  <2>2. Handled' = Handled /\ Solo' = Solo
    BY <1>5, HandledStays DEF RunBegin
  <2> QED BY <1>5, <2>1, <2>2 DEF RunBegin, ToldTheTruth, Handled, ClaimedLocally
<1>6. ASSUME NEW how \in {"none", "cancelled", "failed"}, SoloReturns(how) PROVE ToldTheTruth'
  <2>1. Handled' = Handled
    BY <1>6, HandledStays DEF SoloReturns
  <2> QED BY <1>6, <2>1 DEF SoloReturns, ToldTheTruth, ClaimedLocally
<1>7. ASSUME NEW ok \in BOOLEAN, DriverReturns(ok) PROVE ToldTheTruth'
  BY <1>7, TruthMoves DEF DriverReturns, ToldTheTruth
<1>8. ASSUME NEW ok \in BOOLEAN, Cleanup(ok) PROVE ToldTheTruth'
  <2>1. Handled' = Handled
    BY <1>8, HandledStays DEF Cleanup
  <2> QED BY <1>8, <2>1 DEF Cleanup, ToldTheTruth, ClaimedLocally
<1>9. CASE Evict
  BY <1>9 DEF Evict, ToldTheTruth, ClaimedLocally
<1>10. CASE Publish
  BY <1>10, TruthMoves DEF Publish, ToldTheTruth
<1>11. CASE Caught
  BY <1>11 DEF Caught, ToldTheTruth, ClaimedLocally
<1>12. CASE RunEnds
  BY <1>12 DEF RunEnds, ToldTheTruth, ClaimedLocally
<1>13. CASE StopBegin
  <2>1. Handled' = Handled
    BY <1>13, HandledStays DEF StopBegin
  <2> QED BY <1>13, <2>1 DEF StopBegin, ToldTheTruth, ClaimedLocally
<1>14. CASE StopFail \/ StopEnds \/ UNCHANGED vars
  BY <1>14, HandledStays, TruthStays DEF StopFail, StopEnds, vars
<1> QED
  BY <1>1, <1>2, <1>3, <1>4, <1>5, <1>6, <1>7, <1>8, <1>9, <1>10, <1>11, <1>12, <1>13, <1>14
  DEF Next, Pump, Run

(* It holds initially, *)
LEMMA InitContractInv == Init => ContractInv
<1> SUFFICES ASSUME Init PROVE ContractInv
  OBVIOUS
<1>1. Submitted = {} /\ Cardinality(Submitted) = 0
  <2>1. Submitted = {}
    BY DEF Init, Submitted
  <2> QED BY <2>1, FS_EmptySet
<1>2. Tickets
  BY <1>1 DEF Init, Tickets
<1>3. QueueIsOpen /\ SelectionIsFirst
  BY DEF Init, QueueIsOpen, SelectionIsFirst
<1>4. ToldTheTruth
  BY DEF Init, ToldTheTruth, ClaimedLocally
<1> QED BY <1>2, <1>3, <1>4 DEF ContractInv

(* and in every state: tickets in order, queued jobs open, selections first,
   and cancellations true. *)
THEOREM SpecContractInv == Spec => []ContractInv
<1>1. IInv /\ ContractInv /\ [Next]_vars => ContractInv'
  BY TicketsKeep, QueueIsOpenKeeps, SelectionIsFirstKeeps, ToldTheTruthKeeps DEF ContractInv
<1> QED BY <1>1, InitContractInv, SpecIInv, PTL DEF Spec

-----------------------------------------------------------------------------
(* Every step of the service is a step of the contract, or none.           *)

(* Steps the contract does not see. *)
LEMMA Unseen ==
  ASSUME UNCHANGED <<future, ticket, cancelled, active, shutdown>>
  PROVE  UNCHANGED Contract!bvars
BY DEF Contract!bvars

(* Jobs are answered, by a result if they are in the group and as cancelled
   if they are; and the group loses answered jobs only. *)
LEMMA Settles ==
  ASSUME IInv, NEW S, NEW how \in Answers,
         future' = Answer(S, how), ticket' = ticket, shutdown' = shutdown,
         how = "result" => S \subseteq active,
         how = "cancelled" => \A j \in S : future[j] = "waiting" => j \in cancelled,
         active' \subseteq active, \A j \in active \ active' : future'[j] \in Answers,
         cancelled \subseteq cancelled', \A j \in cancelled' \ cancelled : future'[j] \in Answers
  PROVE  Contract!Settle
<1>1. future' \in [Job -> {"new", "waiting"} \cup Answers]
  BY DEF Answer, IInv, TypeOK
<1>2. \A j \in Job : future'[j] # future[j] => future[j] = "waiting" /\ future'[j] = how /\ j \in S
  BY DEF Answer
<1> QED BY <1>1, <1>2 DEF Contract!Settle, Contract!Answers, Answers

(* Submit accepts a job or refuses it. *)
LEMMA SubmitContract ==
  ASSUME IInv, ContractInv, NEW j \in Job, Submit(j)
  PROVE  Contract!Accept(j) \/ Contract!Refuse(j)
<1>1. CASE shutdown \/ j \in ClaimedLocally
  <2>1. j \in ClaimedLocally => j \in cancelled
    BY DEF ContractInv, ToldTheTruth
  <2>2. UNCHANGED <<ticket, cancelled, active, shutdown>>
    BY <1>1, <2>1 DEF Submit, serviceVars
  <2> QED BY <1>1, <2>1, <2>2 DEF Submit, Contract!Refuse
<1>2. CASE ~(shutdown \/ j \in ClaimedLocally)
  <2>1. /\ future[j] = "new" /\ future' = [future EXCEPT ![j] = "waiting"]
        /\ ticket' = [ticket EXCEPT ![j] = 1 + Cardinality(Submitted)]
        /\ UNCHANGED <<cancelled, active, shutdown>>
    BY <1>2 DEF Submit, Submitted
  <2>2. ticket'[j] = 1 + Cardinality(Submitted) /\ ticket'[j] \in Nat
    <3>1. Submitted \in SUBSET Job
      BY DEF Submitted
    <3> QED BY <2>1, <3>1, SetsOfJobs DEF IInv, TypeOK
  <2>3. \A k \in Job : ticket[k] <= Cardinality(Submitted) /\ ticket[k] \in Nat
    BY DEF ContractInv, Tickets, IInv, TypeOK
  <2>4. Cardinality(Submitted) \in Nat
    <3>1. Submitted \in SUBSET Job
      BY DEF Submitted
    <3> QED BY <3>1, SetsOfJobs
  <2>5. \A k \in Job : ticket[k] < ticket'[j]
    BY <2>2, <2>3, <2>4
  <2>6. ticket' = [ticket EXCEPT ![j] = ticket'[j]]
    BY <2>1, <2>2
  <2> QED BY <1>2, <2>1, <2>2, <2>5, <2>6 DEF Contract!Accept
<1> QED BY <1>1, <1>2

(* The jobs of a selection are the first of those of their key. *)
LEMMA AdmitContract ==
  ASSUME IInv, ContractInv, SealAdmit
  PROVE  (\E S \in SUBSET Job : Contract!Admit(S)) \/ UNCHANGED Contract!bvars
<1> DEFINE entering == rows \ ClaimedLocally
<1>1. /\ pc = "admit" /\ active' = entering
      /\ UNCHANGED <<future, ticket, cancelled, shutdown>>
  BY DEF SealAdmit, jobVars
<1>2. active = {} /\ ~shutdown /\ evicted = {} /\ stopping = {}
  BY <1>1 DEF IInv, Places, Running, ShutDown
<1>3. rows \in SUBSET Job /\ drained \cup ClaimedLocally \subseteq cancelled
  BY DEF IInv, TypeOK, ContractInv, ToldTheTruth
<1>4. CASE entering = {}
  BY <1>1, <1>2, <1>4, Unseen
<1>5. CASE entering # {}
  <2>1. entering \subseteq Contract!Waiting
    BY <1>1, <1>2, <1>3 DEF Contract!Waiting, ContractInv, QueueIsOpen
  <2>2. Cardinality(entering) <= MaxWidth /\ \A j, k \in entering : Key[j] = Key[k]
    <3>1. Cardinality(entering) <= Cardinality(rows) /\ Cardinality(rows) <= MaxWidth
      BY <1>1, <1>3, SetsOfJobs, FS_Subset DEF ContractInv, SelectionIsFirst
    <3>2. Cardinality(entering) \in Nat /\ Cardinality(rows) \in Nat
      BY <1>3, SetsOfJobs
    <3> QED BY <1>1, <3>1, <3>2, BatchAssumption DEF ContractInv, SelectionIsFirst
  <2>3. Contract!Waiting \ (entering \cup cancelled) \subseteq pending \ cancelled
    BY <1>2, <1>3 DEF Contract!Waiting, IInv, HeldAreOpen, Held
  <2>4. \A j \in entering, k \in Contract!Waiting \ (entering \cup cancelled) :
          Key[k] = Key[j] => ticket[j] < ticket[k]
    BY <1>1, <2>3 DEF ContractInv, SelectionIsFirst
  <2>5. Contract!Admit(entering)
    BY <1>1, <1>2, <1>3, <1>5, <2>1, <2>2, <2>4 DEF Contract!Admit
  <2> QED BY <1>3, <2>5
<1> QED BY <1>4, <1>5

(* An exception ends a row or the group; a cancellation that does has been
   asked for by every row it ends. *)
LEMMA CaughtContract ==
  ASSUME IInv, ContractInv, Caught
  PROVE  Contract!Settle
<1>1. pc = "caught" /\ ticket' = ticket /\ cancelled' = cancelled /\ active' = active /\ shutdown' = shutdown
  BY DEF Caught, serviceVars
<1>2. raised \in {"cancelled", "failed"}
  BY <1>1 DEF IInv, TypeOK, RunSettles
<1>3. raised = "cancelled" => Handled \subseteq cancelled
  BY DEF ContractInv, ToldTheTruth
<1>4. CASE SerialB1 /\ Cardinality(active) > 1 /\ ~shutdown
  <2>1. future' = Answer(Handled, raised)
    BY <1>4 DEF Caught
  <2> QED BY <1>1, <1>2, <1>3, <2>1, Settles DEF Answers
<1>5. CASE ~(SerialB1 /\ Cardinality(active) > 1 /\ ~shutdown)
  <2>1. future' = Answer(active, raised)
    BY <1>5 DEF Caught
  <2>2. raised = "cancelled" => active \subseteq cancelled
    <3>1. CASE shutdown
      BY <1>1, <3>1 DEF ContractInv, ToldTheTruth
    <3>2. CASE ~SerialB1
      BY <1>1, <1>3, <3>2, HandledIsActive DEF Running
    <3>3. CASE SerialB1 /\ ~(Cardinality(active) > 1)
      <4>1. Handled \subseteq active /\ Handled # {} /\ active \in SUBSET Job
        BY <1>1, HandledIsActive DEF Running, IInv, TypeOK
      <4>2. Cardinality(active) \in Nat /\ IsFiniteSet(active) /\ active # {}
        BY <4>1, SetsOfJobs
      <4>3. Cardinality(active) = 1
        BY <3>3, <4>2, FS_EmptySet
      <4>4. PICK x : active = {x}
        BY <4>2, <4>3, FS_Singleton
      <4> QED BY <1>3, <4>1, <4>4
    <3> QED BY <1>5, <3>1, <3>2, <3>3
  <2> QED BY <1>1, <1>2, <2>1, <2>2, Settles DEF Answers
<1> QED BY <1>4, <1>5

(* The other steps that answer jobs or end the group. *)
LEMMA AnswersContract ==
  ASSUME IInv, ContractInv,
         \/ Discard \/ Evict \/ Publish \/ RunEnds \/ StopFail
         \/ \E ok \in BOOLEAN : DriverReturns(ok)
         \/ \E j \in Job : RowCallbackRaises(j) \/ RowCloses(j)
  PROVE  Contract!Settle
<1> USE DEF jobVars, serviceVars
<1>1. CASE Discard
  <2>1. drained \subseteq cancelled
    BY DEF ContractInv, ToldTheTruth
  <2> QED BY <1>1, <2>1, Settles DEF Discard, Answers
<1>2. CASE Evict
  BY <1>2, Settles DEF Evict, Answers
<1>3. CASE Publish
  <2>1. good \subseteq active
    BY <1>3, HandledIsActive DEF Publish, Running, IInv, RunSettles
  <2> QED BY <1>3, <2>1, Settles DEF Publish, Answers
<1>4. CASE RunEnds
  <2>1. future' = Answer({}, "failed")
    BY <1>4 DEF RunEnds, Answer, IInv, TypeOK
  <2>2. \A j \in active : future'[j] \in Answers
    BY <1>4 DEF RunEnds, IInv, TypeOK, Places, RunSettles, HeldAreOpen, Held
  <2>3. /\ ticket' = ticket /\ shutdown' = shutdown /\ cancelled' = cancelled /\ active' = {}
    BY <1>4 DEF RunEnds
  <2> QED BY <2>1, <2>2, <2>3, Settles DEF Answers
<1>5. CASE StopFail
  BY <1>5, Settles DEF StopFail, Answers
<1>6. ASSUME NEW ok \in BOOLEAN, DriverReturns(ok) PROVE Contract!Settle
  <2>1. CASE ok
    <3>1. \A j \in active \ good' : j \in cancelled
      BY <1>6, <2>1 DEF DriverReturns, ContractInv, ToldTheTruth
    <3> QED BY <1>6, <2>1, <3>1, Settles DEF DriverReturns, Answers
  <2>2. CASE ~ok
    <3>1. future' = Answer({}, "failed")
      BY <1>6, <2>2 DEF DriverReturns, Answer, IInv, TypeOK
    <3> QED BY <1>6, <3>1, Settles DEF DriverReturns, Answers
  <2> QED BY <2>1, <2>2
<1>7. ASSUME NEW j \in Job, RowCallbackRaises(j) PROVE Contract!Settle
  <2>1. future' = Answer({j}, "failed") /\ cancelled' = cancelled \cup {j}
    BY <1>7 DEF RowCallbackRaises
  <2>2. future'[j] \in Answers
    BY <1>7, <2>1 DEF RowCallbackRaises, Answer, Answers, IInv, TypeOK, HeldAreOpen, Held
  <2> QED BY <1>7, <2>1, <2>2, Settles DEF RowCallbackRaises, Answers
<1>8. ASSUME NEW j \in Job, RowCloses(j) PROVE Contract!Settle
  BY <1>8, Settles DEF RowCloses, Answers
<1> QED BY <1>1, <1>2, <1>3, <1>4, <1>5, <1>6, <1>7, <1>8

(* A request to stop, and a failed cleanup, close the service. *)
LEMMA ClosesContract ==
  ASSUME IInv, StopBegin \/ Cleanup(FALSE)
  PROVE  Contract!CloseDown
BY DEF StopBegin, Cleanup, Contract!CloseDown, jobVars

(* Step by step. *)
LEMMA NextContract ==
  ASSUME IInv, ContractInv, [Next]_vars
  PROVE  [Contract!BNext]_(Contract!bvars)
<1> USE DEF jobVars, serviceVars
<1>1. ASSUME NEW j \in Job, Requests(j) PROVE Contract!BNext \/ UNCHANGED Contract!bvars
  <2>1. CASE Submit(j)
    BY <2>1, SubmitContract DEF Contract!BNext
  <2>2. CASE Cancel(j)
    BY <2>2 DEF Cancel, Contract!CancelJobs, Contract!BNext
  <2>3. CASE SchedulePump(j) \/ Claim(j)
    BY <2>3, Unseen DEF SchedulePump, Claim
  <2> QED BY <1>1, <2>1, <2>2, <2>3 DEF Requests
<1>2. ASSUME NEW j \in Job, RowCallbackRaises(j) \/ RowCloses(j)
      PROVE  Contract!BNext
  BY <1>2, AnswersContract DEF Contract!BNext
<1>3. CASE PumpStart \/ Unpump \/ Reschedule
  BY <1>3, Unseen DEF PumpStart, Unpump, Reschedule
<1>4. CASE Seal
  <2>1. ASSUME NEW late \in BOOLEAN, SealSelect(late) PROVE UNCHANGED Contract!bvars
    BY <2>1, Unseen DEF SealSelect
  <2>2. CASE SealBegin
    BY <2>2, Unseen DEF SealBegin
  <2>3. CASE SealWakes
    BY <2>3, Unseen DEF SealWakes, IInv, Places, Running
  <2> QED BY <1>4, <2>1, <2>2, <2>3, AdmitContract, AnswersContract DEF Seal, Contract!BNext
<1>5. CASE Run
  <2>1. ASSUME NEW how, SoloReturns(how) PROVE UNCHANGED Contract!bvars
    BY <2>1, Unseen DEF SoloReturns
  <2>2. ASSUME NEW ok \in BOOLEAN, DriverReturns(ok) PROVE Contract!BNext
    BY <2>2, AnswersContract DEF Contract!BNext
  <2>3. CASE Cleanup(TRUE)
    BY <2>3, Unseen DEF Cleanup
  <2>4. CASE Cleanup(FALSE)
    BY <2>4, ClosesContract DEF Contract!BNext
  <2>5. CASE RunBegin
    BY <2>5, Unseen DEF RunBegin
  <2>6. CASE Evict \/ Publish \/ Caught \/ RunEnds
    BY <2>6, AnswersContract, CaughtContract DEF Contract!BNext
  <2> QED BY <1>5, <2>1, <2>2, <2>3, <2>4, <2>5, <2>6 DEF Run
<1>6. CASE StopBegin \/ StopFail \/ StopEnds
  <2>1. CASE StopEnds
    BY <2>1, Unseen DEF StopEnds
  <2> QED BY <1>6, <2>1, AnswersContract, ClosesContract DEF Contract!BNext
<1>7. CASE UNCHANGED vars
  BY <1>7, Unseen DEF vars
<1> QED BY <1>1, <1>2, <1>3, <1>4, <1>5, <1>6, <1>7 DEF Next, Pump

(* The service with its pump, its seal, its two profiles of runs, its cleanup
   on the owner and its shutdown implements the contract. *)
THEOREM ServiceKeepsContract == Spec => ImplementsContract
<1>1. Init => Contract!BInit
  BY DEF Init, Contract!BInit
<1>2. IInv /\ ContractInv /\ [Next]_vars => [Contract!BNext]_(Contract!bvars)
  BY NextContract
<1> QED BY <1>1, <1>2, SpecIInv, SpecContractInv, PTL DEF Spec, ImplementsContract, Contract!BSpec

-----------------------------------------------------------------------------
(* What is proved of the contract holds of the service. *)
Fair == INSTANCE BatchContractProofs WITH
  Groups <- {S \in SUBSET Job : Cardinality(S) <= MaxWidth /\ \A j, k \in S : Key[j] = Key[k]},
  Joinable <- FALSE, group <- active, lost <- {}, open <- ~shutdown

(* It is the contract of the model. *)
LEMMA SameContract ==
  /\ Contract!BInit => Fair!BInit
  /\ [Contract!BNext]_(Contract!bvars) => [Fair!BNext]_(Fair!bvars)
<1>1. Contract!BInit => Fair!BInit
  BY DEF Contract!BInit, Fair!BInit
<1>2. [Contract!BNext]_(Contract!bvars) => [Fair!BNext]_(Fair!bvars)
  BY DEF Contract!BNext, Contract!Accept, Contract!Refuse, Contract!CancelJobs,
         Contract!CloseDown, Contract!Admit, Contract!Settle, Contract!Waiting,
         Contract!Answers, Contract!bvars, Fair!BNext, Fair!Accept, Fair!Refuse, Fair!CancelJobs,
         Fair!CloseDown, Fair!Admit, Fair!Settle, Fair!Waiting, Fair!Answers, Fair!bvars
<1> QED BY <1>1, <1>2

(* Part of a group that may run together may. *)
LEMMA GroupsShrink == Fair!GroupsAssumption
<1> DEFINE G == {S \in SUBSET Job : Cardinality(S) <= MaxWidth /\ \A j, k \in S : Key[j] = Key[k]}
<1>1. {} \in G
  BY FS_EmptySet, BatchAssumption
<1>2. ASSUME NEW S \in G, NEW T \in SUBSET S PROVE T \in G
  <2>1. Cardinality(T) <= Cardinality(S) /\ Cardinality(T) \in Nat /\ Cardinality(S) \in Nat
    BY SetsOfJobs, FS_Subset
  <2> QED BY <2>1, BatchAssumption
<1> QED BY <1>1, <1>2 DEF Fair!GroupsAssumption

(* So nobody who still wants an answer is overtaken by a job of his key, and a
   group never outgrows the lane nor mixes keys. *)
THEOREM AdmissionIsFair == Spec => []FairlyAdmitted
<1> DEFINE Inv == Fair!BTypeOK /\ Fair!NoOvertaking /\ Fair!GroupAllowed
<1>1. Init => Inv
  <2>1. Init => Contract!BInit
    BY DEF Init, Contract!BInit
  <2> QED BY <2>1, SameContract, GroupsShrink, Fair!InitContract
<1>2. IInv /\ ContractInv /\ Inv /\ [Next]_vars => Inv'
  BY NextContract, SameContract, GroupsShrink, Fair!StepContract
<1>3. Inv => FairlyAdmitted
  BY DEF FairlyAdmitted, Fair!NoOvertaking, Fair!GroupAllowed, Fair!Answers,
     Contract!NoOvertaking, Contract!GroupAllowed, Contract!Answers
<1> HIDE DEF Inv
<1> QED BY <1>1, <1>2, <1>3, SpecIInv, SpecContractInv, PTL DEF Spec

(* A job whose cleanup was called unnecessary is not admitted afterwards. *)
LEMMA UntouchedKeep ==
  ASSUME TypeOK, UntouchedStayOut, [Next]_vars
  PROVE  UntouchedStayOut'
<1> USE DEF ownership, jobVars
<1>1. ASSUME NEW j \in Job, Claim(j) PROVE UntouchedStayOut'
  BY <1>1 DEF Claim, TypeOK, UntouchedStayOut
<1>2. CASE SealAdmit
  BY <1>2 DEF SealAdmit, UntouchedStayOut, ClaimedLocally
<1>3. ASSUME scope' = scope, admitted' = admitted PROVE UntouchedStayOut'
  BY <1>3 DEF UntouchedStayOut
<1>4. ASSUME NEW j \in Job, Requests(j) \/ RowCallbackRaises(j) \/ RowCloses(j)
      PROVE  UntouchedStayOut'
  BY <1>1, <1>3, <1>4 DEF Requests, Submit, SchedulePump, Cancel, RowCallbackRaises, RowCloses
<1>5. CASE PumpStart \/ Unpump \/ Reschedule
  BY <1>3, <1>5 DEF PumpStart, Unpump, Reschedule
<1>6. CASE Seal
  BY <1>2, <1>3, <1>6 DEF Seal, SealBegin, SealSelect, SealWakes, Discard
<1>7. CASE Run
  <2>1. ASSUME NEW how, SoloReturns(how) PROVE UntouchedStayOut'
    BY <1>3, <2>1 DEF SoloReturns
  <2>2. ASSUME NEW ok, DriverReturns(ok) \/ Cleanup(ok) PROVE UntouchedStayOut'
    BY <1>3, <2>2 DEF DriverReturns, Cleanup
  <2>3. CASE RunBegin \/ Evict \/ Publish \/ Caught \/ RunEnds
    BY <1>3, <2>3 DEF RunBegin, Evict, Publish, Caught, RunEnds
  <2> QED BY <1>7, <2>1, <2>2, <2>3 DEF Run
<1>8. CASE StopBegin \/ StopFail \/ StopEnds
  BY <1>3, <1>8 DEF StopBegin, StopFail, StopEnds
<1>9. CASE UNCHANGED vars
  BY <1>3, <1>9 DEF vars
<1> QED BY <1>4, <1>5, <1>6, <1>7, <1>8, <1>9 DEF Next, Pump

(* In both numerics profiles: a claim that answers that no cleanup is needed
   is final, since the admission leaves such a job out. *)
THEOREM UntouchedJobsStayOut == Spec => []UntouchedStayOut
<1>1. Init => UntouchedStayOut
  BY DEF Init, UntouchedStayOut
<1>2. TypeOK /\ UntouchedStayOut /\ [Next]_vars => UntouchedStayOut'
  BY UntouchedKeep
<1> QED BY <1>1, <1>2, TypeCorrect, PTL DEF Spec
====
