-------------------------- MODULE MTPBatchService --------------------------
(***************************************************************************)
(* MTPBatchGenerationService of mtplx/server/mtp_batch.py: request threads *)
(* submit jobs and may cancel them; a pump on the model owner's thread     *)
(* seals compatible jobs into a group, runs the group (one fixed-width     *)
(* cohort, or one row after the other in the b1-exact profile), cleans up  *)
(* on the owner and answers the futures; the lifespan thread shuts the     *)
(* service down.  An action is what one thread does between two releases   *)
(* of the service's condition, or one call that may take long.  The order  *)
(* of the pending list and of a sealed group is the order of the tickets.  *)
(***************************************************************************)
EXTENDS Naturals, FiniteSets

CONSTANTS
  Job,        \* one job per request
  NoJob,
  Key,        \* job -> compatibility key
  MaxWidth,   \* the jobs of a full group (8)
  SerialB1    \* the lane's numerics profile is b1-exact

ASSUME BatchAssumption ==
  /\ IsFiniteSet(Job) /\ NoJob \notin Job /\ DOMAIN Key = Job
  /\ MaxWidth \in Nat \ {0} /\ SerialB1 \in BOOLEAN

VARIABLES
  future,      \* job -> "new", "waiting", "result", "cancelled" or "failed"
  ticket,      \* job -> its place in the order of submission, 0 before
  cancelled,   \* jobs whose cancel_event is set
  callbackFailed,   \* jobs with a callback_error
  admitted, finalized, finalizeFailed,  \* the flags of each job's finalize ownership
  finished,    \* jobs with finalize_owner_finished
  scope,       \* job -> what claim_cancellation_finalize answered, "none" before
  pending, active, pumpScheduled, shutdown,   \* the service's fields
  owing,       \* submitters that have yet to call _schedule_pump
  queued,      \* pump items in the model scheduler's foreground band
  pc,          \* where the pump is
  drained,     \* _seal's cancelled
  sealKey,     \* the job whose key the open seal collects
  rows,        \* jobs of the sealed group the run has yet to handle
  good,        \* jobs that will be answered with a result
  raised,      \* the exception on its way out of the run: "none", "cancelled", "failed"
  evicted,     \* the pending jobs a poisoned finalize took
  stop, stopping   \* the lifespan thread, and the pending jobs it took

ownership == <<admitted, finalized, finalizeFailed, finished>>
jobVars == <<future, ticket, cancelled, callbackFailed, scope>>
serviceVars == <<pending, active, pumpScheduled, shutdown, owing, queued>>
pumpVars == <<pc, drained, sealKey, rows, good, raised, evicted>>
stopVars == <<stop, stopping>>
vars == <<ownership, jobVars, serviceVars, pumpVars, stopVars>>

Init ==
  /\ future = [j \in Job |-> "new"] /\ ticket = [j \in Job |-> 0]
  /\ cancelled = {} /\ callbackFailed = {} /\ scope = [j \in Job |-> "none"]
  /\ admitted = {} /\ finalized = {} /\ finalizeFailed = {} /\ finished = {}
  /\ pending = {} /\ active = {} /\ pumpScheduled = FALSE /\ shutdown = FALSE
  /\ owing = {} /\ queued = 0
  /\ pc = "idle" /\ drained = {} /\ sealKey = NoJob /\ rows = {} /\ good = {}
  /\ raised = "none" /\ evicted = {}
  /\ stop = "serving" /\ stopping = {}

-----------------------------------------------------------------------------
(* Helpers.                                                                *)

Ahead(S, j) == {k \in S : ticket[k] < ticket[j]}
First(S, n) == {j \in S : Cardinality(Ahead(S, j)) < n}
Head(S) == CHOOSE j \in S : Ahead(S, j) = {}

(* The seal holds the condition from the drain of the pending list to the
   selection, and from the selection to the admission; no other thread enters a
   critical section of the service then, but one may cancel its job. *)
Unlocked == pc \notin {"select", "admit"}

(* set_exception and set_result, where the future is not done. *)
Answer(S, how) ==
  [j \in Job |-> IF j \in S /\ future[j] = "waiting" THEN how ELSE future[j]]

(* finish_finalize_ownership for each job of S. *)
FinishOwnership(S, ok) ==
  LET open == S \ finished
  IN /\ finished' = finished \cup open
     /\ finalized' = IF ok THEN finalized \cup open ELSE finalized
     /\ finalizeFailed' = IF ok THEN finalizeFailed
                          ELSE finalizeFailed \cup (open \cap admitted)

(* Mutant: a claim by the request thread is not looked at. *)
ClaimsIgnored == {}

ClaimedLocally == {j \in Job : scope[j] = "not_required_before_admission"}

-----------------------------------------------------------------------------
(* Request threads.                                                        *)

Submit(j) ==
  /\ Unlocked /\ future[j] = "new"
  /\ IF shutdown \/ j \in ClaimedLocally
     THEN /\ future' = [future EXCEPT ![j] = IF shutdown THEN "failed" ELSE "cancelled"]
          /\ cancelled' = IF shutdown THEN cancelled ELSE cancelled \cup {j}
          /\ UNCHANGED <<ticket, serviceVars>>
     ELSE /\ future' = [future EXCEPT ![j] = "waiting"]
          /\ ticket' = [ticket EXCEPT ![j] = 1 + Cardinality({k \in Job : ticket[k] > 0})]
          /\ pending' = pending \cup {j}
          /\ pumpScheduled' = TRUE
          /\ owing' = IF pumpScheduled THEN owing ELSE owing \cup {j}
          /\ UNCHANGED <<cancelled, active, shutdown, queued>>
  /\ UNCHANGED <<callbackFailed, scope, ownership, pumpVars, stopVars>>

(* Mutant: the submitter schedules and forgets that it has. *)
ScheduleAgain(j) ==
  /\ j \in owing
  /\ queued' = queued + 1
  /\ UNCHANGED <<ownership, jobVars, pending, active, pumpScheduled, shutdown, owing,
                 pumpVars, stopVars>>

SchedulePump(j) ==
  /\ j \in owing
  /\ owing' = owing \ {j} /\ queued' = queued + 1
  /\ UNCHANGED <<ownership, jobVars, pending, active, pumpScheduled, shutdown,
                 pumpVars, stopVars>>

(* The client goes away, or the stream is stopped. *)
Cancel(j) ==
  /\ future[j] # "result"
  /\ cancelled' = cancelled \cup {j}
  /\ UNCHANGED <<future, ticket, callbackFailed, scope, ownership, serviceVars,
                 pumpVars, stopVars>>

Claim(j) ==
  /\ j \in cancelled /\ scope[j] = "none"
  /\ scope' = [scope EXCEPT ![j] =
       IF j \in finalizeFailed THEN "cohort_owner_finalize_failed"
       ELSE IF j \in admitted \cup finalized THEN "cohort_owner_after_decode"
       ELSE "not_required_before_admission"]
  /\ UNCHANGED <<future, ticket, cancelled, callbackFailed, ownership, serviceVars,
                 pumpVars, stopVars>>

-----------------------------------------------------------------------------
(* The pump, on the model owner's thread: _pump and _seal.                 *)

(* Mutant: a pump starts that nobody scheduled. *)
PumpStartUnasked ==
  /\ pc = "idle"
  /\ queued' = queued - 1 /\ pc' = "seal"
  /\ UNCHANGED <<ownership, jobVars, pending, active, pumpScheduled, shutdown, owing,
                 drained, sealKey, rows, good, raised, evicted, stopVars>>

PumpStart ==
  /\ pc = "idle" /\ queued > 0
  /\ queued' = queued - 1 /\ pc' = "seal"
  /\ UNCHANGED <<ownership, jobVars, pending, active, pumpScheduled, shutdown, owing,
                 drained, sealKey, rows, good, raised, evicted, stopVars>>

Live == pending \ cancelled

(* Mutant: the seal takes the head's neighbours whatever their key. *)
CompatibleOrNot(j) == First(Live, MaxWidth)

Compatible(j) == First({k \in Live : Key[k] = Key[j]}, MaxWidth)

(* _drain_cancelled_locked: the pending list loses the cancelled jobs. *)
Drain == drained' = drained \cup (pending \cap cancelled) /\ pending' = Live

SealBegin ==
  /\ pc = "seal"
  /\ IF shutdown THEN pc' = "unpump" /\ UNCHANGED <<drained, pending, sealKey>>
     ELSE /\ Drain
          /\ IF Live = {} THEN pc' = "discard" /\ UNCHANGED sealKey
             ELSE pc' = "select" /\ sealKey' = Head(Live)
  /\ UNCHANGED <<ownership, jobVars, active, pumpScheduled, shutdown, owing, queued, rows,
                 good, raised, evicted, stopVars>>

(* Jobs of the key that are not cancelled by now are selected when they fill a
   group or the deadline has passed; otherwise the seal waits. *)
SealSelect(late) ==
  /\ pc = "select"
  /\ IF late \/ Cardinality(Compatible(sealKey)) = MaxWidth
     THEN /\ rows' = Compatible(sealKey) /\ pending' = pending \ rows'
          /\ sealKey' = NoJob /\ pc' = "admit"
     ELSE pc' = "sealWait" /\ UNCHANGED <<rows, pending, sealKey>>
  /\ UNCHANGED <<ownership, jobVars, active, pumpScheduled, shutdown, owing, queued, drained,
                 good, raised, evicted, stopVars>>

(* The timed wait ends, by a notify or at the deadline. *)
SealWakes ==
  /\ pc = "sealWait"
  /\ Drain
  /\ IF Live = {} THEN active' = {} /\ sealKey' = NoJob /\ pc' = "discard"
     ELSE pc' = "select" /\ UNCHANGED <<active, sealKey>>
  /\ UNCHANGED <<ownership, jobVars, pumpScheduled, shutdown, owing, queued, rows, good,
                 raised, evicted, stopVars>>

(* mark_admitted takes the ownership's own lock, so a claim may come between
   the selection and the admission; the condition is held throughout. *)
SealAdmit ==
  /\ pc = "admit"
  /\ LET entering == rows \ ClaimedLocally
     IN /\ admitted' = admitted \cup entering
        /\ active' = entering /\ rows' = entering
        /\ drained' = drained \cup (rows \ entering)
  /\ pc' = "discard"
  /\ UNCHANGED <<finalized, finalizeFailed, finished, jobVars, pending, pumpScheduled,
                 shutdown, owing, queued, sealKey, good, raised, evicted, stopVars>>

(* _seal after the condition is released. *)
Discard ==
  /\ pc = "discard"
  /\ future' = Answer(drained, "cancelled") /\ FinishOwnership(drained, FALSE)
  /\ drained' = {}
  /\ pc' = IF rows = {} THEN "unpump" ELSE "run"
  /\ UNCHANGED <<admitted, ticket, cancelled, callbackFailed, scope, serviceVars, sealKey,
                 rows, good, raised, evicted, stopVars>>

(* Mutant: the pump ends without a second look at the pending list. *)
UnpumpBlindly ==
  /\ pc = "unpump"
  /\ pumpScheduled' = FALSE /\ pc' = "idle"
  /\ UNCHANGED <<ownership, jobVars, pending, active, shutdown, owing, queued, drained,
                 sealKey, rows, good, raised, evicted, stopVars>>

Unpump ==
  /\ pc = "unpump"
  /\ pumpScheduled' = (pending # {} /\ ~shutdown)
  /\ pc' = IF pumpScheduled' THEN "reschedule" ELSE "idle"
  /\ UNCHANGED <<ownership, jobVars, pending, active, shutdown, owing, queued, drained,
                 sealKey, rows, good, raised, evicted, stopVars>>

Reschedule ==
  /\ pc = "reschedule"
  /\ queued' = queued + 1 /\ pc' = "idle"
  /\ UNCHANGED <<ownership, jobVars, pending, active, pumpScheduled, shutdown, owing,
                 drained, sealKey, rows, good, raised, evicted, stopVars>>

-----------------------------------------------------------------------------
(* Running the sealed group: _run_sealed, _run_solo, _run_b1_exact_serial, *)
(* _run_cohort.  The active jobs are the whole group until the run ends.   *)

Solo == SerialB1 \/ Cardinality(active) = 1
Handled == IF Solo THEN {Head(rows)} ELSE active

RunBegin ==
  /\ pc = "run"
  /\ raised' = IF Solo /\ Head(rows) \in cancelled THEN "cancelled" ELSE "none"
  /\ pc' = IF raised' # "none" THEN "cleanup" ELSE IF Solo THEN "solo" ELSE "driver"
  /\ good' = {}
  /\ UNCHANGED <<ownership, jobVars, serviceVars, drained, sealKey, rows, evicted, stopVars>>

SoloReturns(how) ==
  /\ pc = "solo"
  /\ how = "cancelled" => Handled \subseteq cancelled
  /\ IF how = "none"
     THEN FinishOwnership(Handled, TRUE) /\ good' = Handled /\ pc' = "publish"
     ELSE pc' = "cleanup" /\ UNCHANGED <<finished, finalized, finalizeFailed, good>>
  /\ raised' = how
  /\ UNCHANGED <<admitted, jobVars, serviceVars, drained, sealKey, rows, evicted, stopVars>>

(* emit_token: the row's own callback raises. *)
RowCallbackRaises(j) ==
  /\ pc = "driver" /\ j \in active \ (callbackFailed \cup cancelled)
  /\ callbackFailed' = callbackFailed \cup {j} /\ cancelled' = cancelled \cup {j}
  /\ future' = Answer({j}, "failed")
  /\ UNCHANGED <<ticket, scope, ownership, serviceVars, pumpVars, stopVars>>

(* _close_terminal_job on a cancelled row. *)
RowCloses(j) ==
  /\ pc = "driver" /\ j \in active \cap cancelled /\ future[j] = "waiting"
  /\ future' = Answer({j}, "cancelled")
  /\ UNCHANGED <<ticket, cancelled, callbackFailed, scope, ownership, serviceVars,
                 pumpVars, stopVars>>

(* Mutant: the rows are answered before the owner's cleanup. *)
DriverPublishes(ok) ==
  /\ pc = "driver"
  /\ good' = {} /\ future' = Answer(active, IF ok THEN "result" ELSE "failed")
  /\ raised' = (IF ok THEN "none" ELSE "failed") /\ pc' = "cleanup"
  /\ UNCHANGED <<ticket, cancelled, callbackFailed, scope, ownership, serviceVars, drained,
                 sealKey, rows, evicted, stopVars>>

DriverReturns(ok) ==
  /\ pc = "driver"
  /\ good' = IF ok THEN active \ (callbackFailed \cup cancelled) ELSE {}
  /\ future' = IF ok THEN Answer(active \ good', "cancelled") ELSE future
  /\ raised' = (IF ok THEN "none" ELSE "failed") /\ pc' = "cleanup"
  /\ UNCHANGED <<ticket, cancelled, callbackFailed, scope, ownership, serviceVars, drained,
                 sealKey, rows, evicted, stopVars>>

(* _finalize_on_owner.  A cleanup that fails poisons the service: it takes
   the pending jobs and no job is accepted or sealed any more. *)
Cleanup(ok) ==
  /\ pc = "cleanup"
  /\ IF ok
     THEN /\ FinishOwnership(Handled, TRUE)
          /\ pc' = IF raised # "none" THEN "caught" ELSE "publish"
          /\ UNCHANGED <<pending, shutdown, evicted, raised>>
     ELSE /\ shutdown' = TRUE /\ evicted' = pending /\ pending' = {}
          /\ raised' = "failed" /\ pc' = "evict"
          /\ UNCHANGED <<finished, finalized, finalizeFailed>>
  /\ UNCHANGED <<admitted, jobVars, active, pumpScheduled, owing, queued, drained, sealKey,
                 rows, good, stopVars>>

(* _poison_owner_finalize outside the condition, and the finally clause of
   its caller. *)
Evict ==
  /\ pc = "evict"
  /\ future' = Answer(evicted, "failed") /\ FinishOwnership(evicted \cup Handled, FALSE)
  /\ evicted' = {} /\ pc' = "caught"
  /\ UNCHANGED <<admitted, ticket, cancelled, callbackFailed, scope, serviceVars, drained,
                 sealKey, rows, good, raised, stopVars>>

(* Mutant: a b1-exact group ends with its first row. *)
NoNextRow == rows' = {} /\ pc' = "close"

NextRow ==
  /\ rows' = rows \ Handled
  /\ pc' = IF rows' = {} THEN "close" ELSE "run"

Publish ==
  /\ pc = "publish"
  /\ future' = Answer(good, "result") /\ good' = {}
  /\ NextRow
  /\ UNCHANGED <<ownership, ticket, cancelled, callbackFailed, scope, serviceVars, drained,
                 sealKey, raised, evicted, stopVars>>

(* A row of a b1-exact group fails alone unless the service is shut down;
   any other exception fails the whole group. *)
Caught ==
  /\ pc = "caught"
  /\ raised' = "none" /\ good' = {}
  /\ IF SerialB1 /\ Cardinality(active) > 1 /\ ~shutdown
     THEN future' = Answer(Handled, raised) /\ NextRow
     ELSE future' = Answer(active, raised) /\ rows' = {} /\ pc' = "close"
  /\ UNCHANGED <<ownership, ticket, cancelled, callbackFailed, scope, serviceVars, drained,
                 sealKey, evicted, stopVars>>

RunEnds ==
  /\ pc = "close"
  /\ active' = {} /\ pc' = "seal"
  /\ UNCHANGED <<ownership, jobVars, pending, pumpScheduled, shutdown, owing, queued,
                 drained, sealKey, rows, good, raised, evicted, stopVars>>

-----------------------------------------------------------------------------
(* The lifespan thread: shutdown.                                          *)

StopBegin ==
  /\ Unlocked /\ stop = "serving"
  /\ shutdown' = TRUE /\ stopping' = pending /\ pending' = {}
  /\ cancelled' = cancelled \cup pending \cup active
  /\ stop' = "failing"
  /\ UNCHANGED <<ownership, future, ticket, callbackFailed, scope, active, pumpScheduled,
                 owing, queued, pumpVars>>

StopFail ==
  /\ stop = "failing"
  /\ future' = Answer(stopping, "failed") /\ FinishOwnership(stopping, FALSE)
  /\ stopping' = {} /\ stop' = "waiting"
  /\ UNCHANGED <<admitted, ticket, cancelled, callbackFailed, scope, serviceVars, pumpVars>>

(* Mutant: shutdown does not wait for the owner. *)
StopAtOnce ==
  /\ stop = "waiting" /\ stop' = "returned"
  /\ UNCHANGED <<ownership, jobVars, serviceVars, pumpVars, stopping>>

(* The wait for the active group, until it is gone or 30 s have passed. *)
StopEnds ==
  /\ Unlocked /\ stop = "waiting"
  /\ stop' = IF active = {} THEN "returned" ELSE "raised"
  /\ UNCHANGED <<ownership, jobVars, serviceVars, pumpVars, stopping>>

-----------------------------------------------------------------------------
Requests(j) == Submit(j) \/ SchedulePump(j) \/ Cancel(j) \/ Claim(j)

Seal ==
  SealBegin \/ (\E late \in BOOLEAN : SealSelect(late)) \/ SealWakes \/ SealAdmit \/ Discard

Run ==
  \/ RunBegin
  \/ \E how \in {"none", "cancelled", "failed"} : SoloReturns(how)
  \/ \E ok \in BOOLEAN : DriverReturns(ok) \/ Cleanup(ok)
  \/ Evict \/ Publish \/ Caught \/ RunEnds

Pump == PumpStart \/ Seal \/ Run \/ Unpump \/ Reschedule

Next ==
  \/ \E j \in Job : Requests(j) \/ RowCallbackRaises(j) \/ RowCloses(j)
  \/ Pump
  \/ StopBegin \/ StopFail \/ StopEnds

Spec == Init /\ [][Next]_vars

(* The owner thread comes back to its pump, a solo run and the driver end,
   the 20 ms of the seal run out, and a submitter that set the flag calls
   _schedule_pump. *)
Fairness ==
  /\ WF_vars(Pump) /\ SF_vars(SealSelect(TRUE))
  /\ \A j \in Job : WF_vars(SchedulePump(j))
  /\ WF_vars(StopFail)

FairSpec == Spec /\ Fairness

-----------------------------------------------------------------------------
Answers == {"result", "cancelled", "failed"}

(* Type correctness of every field. *)
TypeOK ==
  /\ future \in [Job -> {"new", "waiting"} \cup Answers]
  /\ ticket \in [Job -> Nat]
  /\ scope \in [Job -> {"none", "not_required_before_admission",
                        "cohort_owner_after_decode", "cohort_owner_finalize_failed"}]
  /\ \A S \in {cancelled, callbackFailed, admitted, finalized, finalizeFailed, finished,
               pending, active, owing, drained, rows, good, evicted, stopping} :
       S \subseteq Job
  /\ pumpScheduled \in BOOLEAN /\ shutdown \in BOOLEAN /\ raised \in {"none", "cancelled", "failed"}
  /\ queued \in Nat /\ sealKey \in Job \cup {NoJob}
  /\ pc \in {"idle", "seal", "select", "sealWait", "admit", "discard", "unpump", "reschedule", "run", "solo",
             "driver", "cleanup", "evict", "publish", "caught", "close"}
  /\ stop \in {"serving", "failing", "waiting", "returned", "raised"}

(* The flag _pump_scheduled stands for exactly one pump: one owed by a
   submitter, queued at the scheduler or on the owner thread.  Two would
   seal each other's jobs, none would leave the pending list unserved. *)
PumpRunning == pc \notin {"idle"}
OnePump ==
  Cardinality(owing) + queued + (IF PumpRunning THEN 1 ELSE 0) = (IF pumpScheduled THEN 1 ELSE 0)

(* No job is stranded: while its future is open somebody holds it (the
   pending list with a pump on its way, the seal, the group that runs, a
   poisoned finalize or the shutdown), and nobody else does. *)
Holders(j) == {S \in {<<"pending", pending>>, <<"drained", drained>>, <<"active", active>>,
                      <<"selected", IF pc = "admit" THEN rows ELSE {}>>,
                      <<"evicted", evicted>>, <<"stopping", stopping>>} : j \in S[2]}
NoJobStranded ==
  /\ \A j \in Job : future[j] = "waiting" => Cardinality(Holders(j)) = 1
  /\ pending # {} => pumpScheduled /\ ~shutdown

(* claim_cancellation_finalize answers "the truthful cleanup scope" (its
   docstring): a job it calls untouched is never admitted, and a job whose
   cleanup it leaves to the owner is in the owner's hands or has been
   through its finalize. *)
TruthfulScope ==
  \A j \in Job :
    /\ scope[j] = "not_required_before_admission" => j \notin admitted
    /\ scope[j] = "cohort_owner_after_decode" => j \in active \cup finished

(* The half of TruthfulScope that both numerics profiles keep: a claim that
   calls a job untouched is never overtaken by the job's admission. *)
UntouchedStayOut ==
  \A j \in Job : scope[j] = "not_required_before_admission" => j \notin admitted

(* A row of a cohort is answered with its result only after the owner's
   cleanup succeeded for it. *)
PublishAfterCleanup ==
  \A j \in Job : future[j] = "result" => j \in finalized

(* Once the service is shut down, by the lifespan or by a failed cleanup,
   no job is admitted, not even by a seal that was waiting meanwhile; and
   when shutdown returns the owner runs no group. *)
ShutdownStopsAdmission ==
  [][shutdown => active' \subseteq active /\ admitted' = admitted]_vars
ShutdownWaitsForOwner == stop = "returned" => active = {} /\ rows = {}

(* A future is answered once: a result is not overwritten by a failure of the
   group, nor the cancellation or callback error of a row by the exception
   that ends its group, and shutdown takes nobody's answer back. *)
AnswersOnce ==
  [][\A j \in Job : future[j] \in Answers => future'[j] = future[j]]_vars

(* Every submitted job is answered in the end. *)
EveryJobAnswered == \A j \in Job : future[j] = "waiting" ~> future[j] \in Answers

(* The service keeps the promise of BatchContract, and loses nobody. *)
Contract == INSTANCE BatchContract WITH
  Groups <- {S \in SUBSET Job : Cardinality(S) <= MaxWidth /\ \A j, k \in S : Key[j] = Key[k]},
  Joinable <- FALSE, group <- active, lost <- {}, open <- ~shutdown
ImplementsContract == Contract!BSpec

(* What that comes to: a job enters the group only with or after every
   compatible job submitted before it that still wants an answer, and the
   group never outgrows the lane nor mixes keys. *)
FairlyAdmitted == Contract!NoOvertaking /\ Contract!GroupAllowed

-----------------------------------------------------------------------------
(* The inductive invariant behind the safety properties.                   *)

(* Which of the pump's sets are in use where. *)
Sealing == {"select", "sealWait", "admit", "discard"}
Running == {"run", "solo", "driver", "cleanup", "evict", "publish", "caught"}
Places ==
  /\ pc \notin Sealing => drained = {}
  /\ pc \notin Running \cup {"discard", "close"} => active = {}
  /\ pc # "admit" => rows \subseteq active
  /\ pc = "discard" => rows = active
  /\ pc \in Running => rows # {}
  /\ pc = "close" => rows = {}
  /\ pc # "evict" => evicted = {}
  /\ stop # "failing" => stopping = {}

(* Shutdown empties the pending list, and no seal goes on from a selection. *)
ShutDown ==
  /\ shutdown => pending = {} /\ pc \notin {"select", "admit"}
  /\ stop # "serving" => shutdown
  /\ pending # {} => pumpScheduled

(* The sets share out the jobs; an open job is in one of them. *)
Apart ==
  /\ pending \cap (drained \cup active \cup rows \cup evicted \cup stopping) = {}
  /\ stopping \cap (drained \cup active \cup rows \cup evicted) = {}
  /\ drained \cap (active \cup rows) = {} /\ active \cap evicted = {}
Held == pending \cup drained \cup active \cup rows \cup evicted \cup stopping
HeldAreOpen ==
  \A j \in Job : (future[j] = "waiting" => j \in Held) /\ (j \in Held => future[j] # "new")

(* What a run has settled so far: the rows it is done with are answered, those
   it is about to publish have a result or an answer, and an exception is on
   its way where it is caught. *)
RunSettles ==
  /\ \A j \in active \ rows : future[j] # "waiting"
  /\ pc = "publish" \/ (pc = "cleanup" /\ raised = "none") =>
       good \subseteq Handled /\ \A j \in Handled \ good : future[j] # "waiting"
  /\ pc \in {"evict", "caught"} => raised # "none"
  /\ pc = "driver" => ~Solo

(* Whose ownership is finished: nobody's that still waits, but for the rows
   about to be answered, and these have been finalized if it is by a result. *)
Finishes ==
  /\ finalized \subseteq finished
  /\ pc \in {"publish", "caught"} => Handled \subseteq finished
  /\ pc = "publish" => \A j \in good : future[j] = "waiting" => j \in finalized
  /\ \A j \in finished :
       /\ future[j] # "new"
       /\ future[j] = "waiting" => pc \in {"publish", "caught"} /\ j \in Handled

(* Without b1-exact a run handles its whole group at once. *)
GroupFinishes ==
  ~SerialB1 =>
    /\ admitted \subseteq active \cup finished
    /\ pc = "close" => active \subseteq finished
    /\ TruthfulScope

IInv ==
  /\ TypeOK /\ OnePump /\ Places /\ ShutDown /\ Apart /\ HeldAreOpen /\ RunSettles
  /\ Finishes /\ PublishAfterCleanup /\ ShutdownWaitsForOwner /\ GroupFinishes

-----------------------------------------------------------------------------
(* What makes the service keep the contract, on top of IInv: ...           *)

(* tickets are drawn once and in order, by the jobs accepted; ... *)
Submitted == {j \in Job : ticket[j] > 0}
Tickets ==
  /\ \A j \in Job : /\ future[j] = "new" => ticket[j] = 0
                    /\ future[j] = "waiting" => ticket[j] > 0
                    /\ ticket[j] <= Cardinality(Submitted)
  /\ \A j, k \in Submitted : ticket[j] = ticket[k] => j = k

(* ... a job is open as long as no group has it; ... *)
QueueIsOpen ==
  /\ \A j \in pending \cup drained \cup evicted \cup stopping : future[j] = "waiting"
  /\ pc = "admit" => \A j \in rows : future[j] = "waiting"

(* ... a selection takes the first of the live jobs of one key, and nobody
   submits or shuts down before it is admitted; ... *)
SelectionIsFirst ==
  pc = "admit" =>
    /\ Cardinality(rows) <= MaxWidth
    /\ \A j, k \in rows : Key[j] = Key[k]
    /\ \A j \in rows, k \in pending \ cancelled : Key[k] = Key[j] => ticket[j] < ticket[k]

(* ... and wherever jobs are about to be told that they are cancelled they
   are: a cancel ends its own row, or it is that of shutdown, which cancels
   the whole group. *)
ToldTheTruth ==
  /\ drained \cup callbackFailed \cup ClaimedLocally \subseteq cancelled
  /\ raised = "cancelled" => pc \in {"cleanup", "caught"} /\ Handled \subseteq cancelled
  /\ shutdown => \/ active \subseteq cancelled \/ pc = "close"
                 \/ pc \in {"evict", "caught"} /\ raised = "failed"

ContractInv == Tickets /\ QueueIsOpen /\ SelectionIsFirst /\ ToldTheTruth
=============================================================================
