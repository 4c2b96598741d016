-------------------------- MODULE ServeLoopProofs --------------------------
(***************************************************************************)
(* Theorems about ServeLoop, for any requests, tails, rungs and graces:    *)
(* the scheduler, as the server drives it, is a behaviour of               *)
(* ModelScheduler, so that every theorem about that holds here too; and    *)
(* the tail-gap fence.                                                     *)
(***************************************************************************)
EXTENDS ServeLoop, ModelSchedulerProofs

-----------------------------------------------------------------------------
(* The server is one of the scheduler's callers.                           *)

LEMMA RequestsAreItems ==
  ASSUME NEW r \in Requests
  PROVE  /\ Gen[r] \in Foreground /\ Gen[r] \in Items
         /\ Tail[r] # NoItem => Tail[r] \in Postcommit \cup Foreground /\ Tail[r] \in Items
BY ServeAssumption DEF Items

(* What a step of the server does to the scheduler. *)
LEMMA ServeStepsAreSteps ==
  ASSUME ServeNext
  PROVE  Callers \/ Owner \/ ServeTick \/ UNCHANGED vars
<1>1. ASSUME NEW r \in Requests, BeginRequest(r) PROVE Callers
  BY <1>1, RequestsAreItems DEF BeginRequest, Callers
<1>2. ASSUME NEW r \in Requests, SubmitTail(r) \/ CancelInlineTail(r) PROVE Callers
  BY <1>2, RequestsAreItems DEF SubmitTail, CancelInlineTail, TailOwed, Callers, Items
<1>3. ASSUME NEW i \in Items, SubmitRung(i) \/ AbortPostcommit(i) \/ DispatchEncode(i)
      PROVE  Callers
  BY <1>3 DEF SubmitRung, AbortPostcommit, DispatchEncode, Callers
<1>4. CASE (\E counts \in BOOLEAN : ServeStart(counts)) \/ ServeFinish \/ OwnerStep
  BY <1>4 DEF ServeStart, ServeFinish, OwnerStep, Owner
<1>5. CASE PumpCheck \/ BeginFlush \/ (\E timedOut \in BOOLEAN : EndFlush(timedOut))
  BY <1>5 DEF PumpCheck, PumpReads, BeginFlush, EndFlush
<1>6. CASE PumpArm \/ FlushPump
  BY <1>6, ServeAssumption DEF PumpArm, FlushPump, Callers
<1>7. CASE ShutdownScheduler
  BY <1>7 DEF ShutdownScheduler, Callers
<1> QED BY <1>1, <1>2, <1>3, <1>4, <1>5, <1>6, <1>7 DEF ServeNext

(* The scheduler under the server behaves as ModelScheduler says. *)
THEOREM ServeImplementsScheduler == ServeSpec => Spec
<1>1. ServeInit => Init
  BY DEF ServeInit
<1>2. [ServeNext]_allVars => [Next]_vars
  BY ServeStepsAreSteps DEF allVars, ServeTick, Next
<1> QED BY <1>1, <1>2, PTL DEF ServeSpec, Spec

(* Requests start in the order in which they were submitted (submit_foreground
   through the owner loop), under any timing of the server. *)
THEOREM RequestsStartInOrder == ServeSpec => []ForegroundInOrder
BY ServeImplementsScheduler, ForegroundFifo, PTL

(* The server's scheduler keeps the promise of the abstract work queue. *)
THEOREM ServeImplementsWorkQueue == ServeSpec => ImplementsWorkQueue
BY ServeImplementsScheduler, SchedulerImplementsWorkQueue, PTL

-----------------------------------------------------------------------------
(* The tail-gap fence.                                                     *)

(* How a future comes to be finished, and that none becomes new again. *)
LEMMA FuturesMove ==
  ASSUME IInv, Next, NEW i \in Items
  PROVE  /\ future'[i] = "new" => future[i] = "new"
         /\ future'[i] = "finished" /\ future[i] # "finished" =>
              pc = "running" /\ item = i /\ pc' = "recording" /\ item' = i
<1> USE DEF IInv, TypeOK
<1>1. CASE Tick
  BY <1>1 DEF Tick, submitted
<1>2. CASE Owner
  <2>1. CASE FinishItem
    BY <2>1 DEF FinishItem
  <2>2. CASE StartItem
    BY <2>2 DEF StartItem
  <2>3. CASE ~FinishItem /\ ~StartItem
    BY <1>2, <2>3 DEF Owner, TakeNext, TakeForeground, TakeIdle, TakePersistence, Take, Exit,
        TakeKeepalive, TakeOwnerIdle, Wait, WaitTimesOut, SkipCancelled, PublishActive,
        RecordCompletion, StartBeat, FinishBeat, RunOwnerIdle, submitted
  <2> QED BY <2>1, <2>2, <2>3
<1>3. CASE Callers
  <2>1. ASSUME NEW j \in Items,
               SubmitRefused(j) \/ SubmitForeground(j) \/ SubmitIdlePostcommit(j)
                 \/ CancelFuture(j) \/ BankReleases(j)
        PROVE  /\ future'[i] = "new" => future[i] = "new"
               /\ future'[i] = "finished" => future[i] = "finished"
    BY <2>1 DEF SubmitRefused, SubmitForeground, SubmitIdlePostcommit, CancelFuture, BankReleases
  <2>2. ASSUME NEW j \in Items, SubmitIdlePersistence(j)
        PROVE  /\ future'[i] = "new" => future[i] = "new"
               /\ future'[i] = "finished" => future[i] = "finished"
    BY <2>2 DEF SubmitIdlePersistence, CancelAll
  <2>3. ASSUME NEW k, CancelIdlePersistence(k)
        PROVE  /\ future'[i] = "new" => future[i] = "new"
               /\ future'[i] = "finished" => future[i] = "finished"
    BY <2>3 DEF CancelIdlePersistence, CancelAll
  <2>4. ASSUME NEW c, Shutdown(c)
        PROVE  /\ future'[i] = "new" => future[i] = "new"
               /\ future'[i] = "finished" => future[i] = "finished"
    BY <2>4 DEF Shutdown, CancelAll
  <2>5. ASSUME NEW b, PumpPersistence(b) \/ ArmIdleKeepalive \/ DisarmIdleKeepalive
        PROVE  future' = future
    BY <2>5 DEF PumpPersistence, ArmIdleKeepalive, DisarmIdleKeepalive, submitted
  <2> QED BY <1>3, <2>1, <2>2, <2>3, <2>4, <2>5 DEF Callers
<1> QED BY <1>1, <1>2, <1>3 DEF Next

(* Only time and the end of an item move the quiet clock, and only the record
   of its end takes an item that has finished from the owner. *)
LEMMA QuietClockMoves ==
  ASSUME IInv, Callers \/ Owner, ~RecordCompletion
  PROVE  /\ left'["quiet"] = left["quiet"]
         /\ pc = "recording" => pc' = "recording" /\ item' = item
<1> USE DEF IInv, TypeOK, Clocks
<1>1. CASE Owner
  BY <1>1 DEF Owner, TakeNext, TakeForeground, TakeIdle, TakePersistence, Take, Exit,
      TakeKeepalive, TakeOwnerIdle, Wait, WaitTimesOut, SkipCancelled, StartItem, PublishActive,
      FinishItem, StartBeat, FinishBeat, RunOwnerIdle
<1>2. CASE Callers
  BY <1>2 DEF Callers, SubmitRefused, SubmitForeground, SubmitIdlePostcommit,
      SubmitIdlePersistence, CancelFuture, BankReleases, CancelIdlePersistence, PumpPersistence,
      ArmIdleKeepalive, DisarmIdleKeepalive, Shutdown, Admit, Notify, ownerVars
<1> QED BY <1>1, <1>2

LEMMA FenceKept == IInv /\ FenceInv /\ [ServeNext]_allVars => FenceInv'
<1> SUFFICES ASSUME IInv, FenceInv, [ServeNext]_allVars, NEW r \in Requests, TailOwed(r)'
             PROVE  (pc' = "recording" /\ item' = Gen[r]) \/ left'["quiet"] = QuietGrace
  BY DEF FenceInv
<1>0. Gen[r] \in Foreground /\ Gen[r] \in Items /\ Tail[r] \in Items
  BY RequestsAreItems DEF TailOwed
<1>1. CASE UNCHANGED vars
  BY <1>1 DEF vars, FenceInv, TailOwed
<1>2. CASE ServeTick
  BY <1>2 DEF ServeTick, Tick, TailOwed, submitted
<1>3. CASE Callers \/ Owner
  <2>1. Next
    BY <1>3 DEF Next
  <2>2. future[Tail[r]] = "new"
    BY <1>0, <2>1, FuturesMove DEF TailOwed
  <2>3. CASE future[Gen[r]] # "finished"
    BY <1>0, <2>1, <2>3, FuturesMove DEF TailOwed
  <2>4. CASE future[Gen[r]] = "finished"
    <3>1. TailOwed(r)
      BY <2>2, <2>4 DEF TailOwed
    <3>2. CASE RecordCompletion
      <4>1. CASE pc = "recording" /\ item = Gen[r]
        BY <1>0, <3>2, <4>1, BandsAssumption DEF RecordCompletion, Clocks
      <4>2. CASE left["quiet"] = QuietGrace
        BY <3>2, <4>2 DEF RecordCompletion, Clocks
      <4> QED BY <3>1, <4>1, <4>2 DEF FenceInv
    <3>3. CASE ~RecordCompletion
      BY <1>3, <3>1, <3>3, QuietClockMoves DEF FenceInv
    <3> QED BY <3>2, <3>3
  <2> QED BY <2>3, <2>4
<1> QED BY <1>1, <1>2, <1>3, ServeStepsAreSteps DEF allVars

(* A pass of the owner thread that takes an encode pops it. *)
LEMMA EncodesArePopped ==
  ASSUME IInv, Callers \/ Owner, TakesEncode
  PROVE  TakePersistence
<1>1. CASE Callers
  BY <1>1, BandsAssumption DEF TakesEncode, Callers, SubmitRefused, SubmitForeground,
      SubmitIdlePostcommit, SubmitIdlePersistence, CancelFuture, BankReleases,
      CancelIdlePersistence, PumpPersistence, ArmIdleKeepalive, DisarmIdleKeepalive, Shutdown,
      Admit, ownerVars, Items
<1>2. CASE Owner
  <2>1. NoItem \notin Persistence
    BY BandsAssumption DEF Items
  <2>2. CASE TakeForeground
    BY <2>2, OldestIsHead, BandsAssumption DEF TakesEncode, TakeForeground, Take, IInv, TypeOK, Items
  <2>3. CASE TakeIdle
    BY <2>3, OldestIsHead, BandsAssumption DEF TakesEncode, TakeIdle, IdleDue, Take, IInv, TypeOK, Items
  <2>4. CASE ~TakeForeground /\ ~TakeIdle /\ ~TakePersistence
    BY <1>2, <2>1, <2>4 DEF TakesEncode, Owner, TakeNext, Exit, TakeKeepalive, TakeOwnerIdle,
        Wait, WaitTimesOut, SkipCancelled, StartItem, PublishActive, FinishItem,
        RecordCompletion, StartBeat, FinishBeat, RunOwnerIdle
  <2> QED BY <2>2, <2>3, <2>4
<1> QED BY <1>1, <1>2

(* Between the end of a generation and the start of its postcommit no encode
   starts without an armed slot (_persistence_ready_in_s and _take_next), for
   any positive quiet grace, whatever else is queued. *)
THEOREM TheFenceHolds == ASSUME QuietGrace > 0 PROVE ServeSpec => TailGapFence
<1>1. ServeInit => FenceInv
  <2> SUFFICES ASSUME ServeInit, NEW r \in Requests PROVE ~TailOwed(r)
    BY DEF FenceInv
  <2> QED BY RequestsAreItems DEF ServeInit, Init, TailOwed
<1>2. ServeSpec => []IInv
  BY ServeImplementsScheduler, SpecIInv, PTL
<1>3. ServeSpec => []FenceInv
  BY <1>1, <1>2, FenceKept, PTL DEF ServeSpec
<1>4. ASSUME IInv, FenceInv, [ServeNext]_allVars
      PROVE  [TakesEncode /\ (\E r \in Requests : TailPending(r)) => pumpBudget' < pumpBudget]_allVars
  <2> SUFFICES ASSUME ServeNext, TakesEncode, NEW r \in Requests, TailPending(r)
               PROVE  pumpBudget' < pumpBudget
    BY <1>4 DEF allVars
  <2>1. TakePersistence
    <3>1. item = NoItem /\ item' # item
      BY BandsAssumption DEF TakesEncode, Items
    <3>2. Callers \/ Owner
      BY <3>1, ServeStepsAreSteps DEF ServeTick, Tick, ownerVars, vars
    <3> QED BY <1>4, <3>2, EncodesArePopped
  <2>2. CASE idle # {}
    BY <1>4, <2>1, <2>2 DEF TakePersistence, PersistenceDue, PersistenceReachable, IInv, TypeOK
  <2>3. CASE idle = {}
    <3>1. TailOwed(r)
      BY <2>1, <2>3 DEF TailPending, TakePersistence
    <3>2. left["quiet"] = QuietGrace
      BY <1>4, <3>1, RequestsAreItems, BandsAssumption DEF FenceInv, TakesEncode
    <3>3. left["quiet"] = 0
      <4>1. PersistenceReadyIn = 0
        BY <2>1 DEF TakePersistence, PersistenceDue
      <4>2. Oldest(persistence) \in persistence
        BY <1>4, <2>1, OldestIsHead DEF TakePersistence, PersistenceDue, PersistenceReachable,
            IInv, TypeOK, Items
      <4>3. due[Oldest(persistence)] \in Nat /\ left["quiet"] \in Nat
        BY <1>4, <4>2 DEF IInv, TypeOK, Clocks, Items
      <4> QED BY <4>1, <4>3, MaxOfTwo DEF PersistenceReadyIn
    <3> QED BY <3>2, <3>3
  <2> QED BY <2>2, <2>3
<1> QED BY <1>2, <1>3, <1>4, PTL DEF ServeSpec, TailGapFence
=============================================================================
