-------------------------- MODULE BatchedARService --------------------------
(***************************************************************************)
(* _BatchedARGenerationService of mtplx/server/openai.py: request threads  *)
(* submit jobs and may cancel them; a pump on the model owner's thread     *)
(* builds a batch generator of mlx-lm, admits pending jobs as its rows     *)
(* between two steps, hands out the tokens of each step, and ends when it  *)
(* has been idle for a while.  Rows and jobs are the same thing in two     *)
(* places, the generator and the active map, which the pump keeps in step. *)
(* The order of the pending list is the order of the tickets.              *)
(***************************************************************************)
EXTENDS Naturals, FiniteSets

CONSTANTS
  Job,        \* one job per request
  MaxActive   \* max_active_requests

ASSUME BatchedARAssumption == IsFiniteSet(Job) /\ MaxActive \in Nat \ {0}

VARIABLES
  future,      \* job -> "new", "waiting", "result" or "failed"
  ticket,      \* job -> its place in the order of submission, 0 before
  cancelled,   \* jobs whose cancel_event is set
  pending, active, pumpScheduled,   \* the service's fields
  queued,      \* pump items in the model scheduler's foreground band
  pc,          \* where the pump is
  rows,        \* the rows of the batch generator
  batch,       \* the jobs _admit_pending has taken
  doomed,      \* those of them it has found cancelled
  removing,    \* the cancelled rows _remove_cancelled_active has taken
  responses, finishing,   \* the step's responses to handle; those with a finish_reason
  lost,        \* history: jobs an exception left in neither list
  unseen,      \* history: jobs cancelled between the two reads of _admit_pending
  dead         \* history: the construction of a generator has raised

jobVars == <<future, ticket, cancelled>>
serviceVars == <<pending, active, pumpScheduled, queued>>
stepVars == <<responses, finishing>>
history == <<lost, unseen, dead>>
batchVars == <<batch, doomed>>
vars == <<jobVars, serviceVars, pc, rows, batchVars, removing, stepVars, history>>

Init ==
  /\ future = [j \in Job |-> "new"] /\ ticket = [j \in Job |-> 0] /\ cancelled = {}
  /\ pending = {} /\ active = {} /\ pumpScheduled = FALSE /\ queued = 0
  /\ pc = "idle" /\ rows = {} /\ batch = {} /\ doomed = {} /\ removing = {}
  /\ responses = {} /\ finishing = {}
  /\ lost = {} /\ unseen = {} /\ dead = FALSE

(* Mutant: the pending list is served from its end. *)
Last(S, n) == {j \in S : Cardinality({k \in S : ticket[k] > ticket[j]}) < n}

First(S, n) == {j \in S : Cardinality({k \in S : ticket[k] < ticket[j]}) < n}

(* set_exception, where the future is not done. *)
Answer(S, how) ==
  [j \in Job |-> IF j \in S /\ future[j] = "waiting" THEN how ELSE future[j]]

-----------------------------------------------------------------------------
(* Request threads.                                                        *)

(* Mutant: every submission schedules a pump. *)
SubmitSchedules(j) ==
  /\ future[j] = "new"
  /\ future' = [future EXCEPT ![j] = "waiting"]
  /\ ticket' = [ticket EXCEPT ![j] = 1 + Cardinality({k \in Job : ticket[k] > 0})]
  /\ pending' = pending \cup {j}
  /\ pumpScheduled' = TRUE /\ queued' = queued + 1
  /\ UNCHANGED <<cancelled, active, pc, rows, batchVars, removing, stepVars, history>>

(* submit calls the scheduler inside its critical section. *)
Submit(j) ==
  /\ future[j] = "new"
  /\ future' = [future EXCEPT ![j] = "waiting"]
  /\ ticket' = [ticket EXCEPT ![j] = 1 + Cardinality({k \in Job : ticket[k] > 0})]
  /\ pending' = pending \cup {j}
  /\ pumpScheduled' = TRUE
  /\ queued' = IF pumpScheduled THEN queued ELSE queued + 1
  /\ UNCHANGED <<cancelled, active, pc, rows, batchVars, removing, stepVars, history>>

Cancel(j) ==
  /\ j \notin cancelled /\ future[j] \in {"new", "waiting"}
  /\ cancelled' = cancelled \cup {j}
  /\ UNCHANGED <<future, ticket, serviceVars, pc, rows, batchVars, removing, stepVars, history>>

-----------------------------------------------------------------------------
(* The pump: _pump and _admit_pending.                                     *)

(* Mutant: a pump starts that nobody scheduled. *)
PumpStartUnasked(ok) ==
  /\ pc = "idle"
  /\ queued' = queued - 1
  /\ pc' = IF ok THEN "loop" ELSE "idle"
  /\ dead' = (dead \/ ~ok)
  /\ UNCHANGED <<jobVars, pending, active, pumpScheduled, rows, batchVars, removing,
                 stepVars, lost, unseen>>

(* The generator is built before the try whose finally clause reschedules. *)
PumpStart(ok) ==
  /\ pc = "idle" /\ queued > 0
  /\ queued' = queued - 1
  /\ pc' = IF ok THEN "loop" ELSE "idle"
  /\ dead' = (dead \/ ~ok)
  /\ UNCHANGED <<jobVars, pending, active, pumpScheduled, rows, batchVars, removing,
                 stepVars, lost, unseen>>

AdmitTake ==
  /\ pc = "loop"
  /\ batch' = First(pending, MaxActive - Cardinality(active))
  /\ pending' = pending \ batch'
  /\ pc' = IF batch' = {} THEN "check" ELSE "screen"
  /\ UNCHANGED <<jobVars, active, pumpScheduled, queued, rows, doomed, removing, stepVars,
                 history>>

(* Two list comprehensions read every job's event, one after the other: the
   first finds the jobs to fail, the second those to go on with. *)
AdmitFirstRead ==
  /\ pc = "screen"
  /\ doomed' = batch \cap cancelled
  /\ pc' = "screened"
  /\ UNCHANGED <<jobVars, serviceVars, rows, batch, removing, stepVars, history>>

AdmitSecondRead ==
  /\ pc = "screened"
  /\ future' = Answer(doomed, "failed")
  /\ batch' = batch \ cancelled /\ doomed' = {}
  /\ unseen' = unseen \cup ((batch \cap cancelled) \ doomed)
  /\ pc' = IF batch' = {} THEN "check" ELSE "prepare"
  /\ UNCHANGED <<ticket, cancelled, serviceVars, rows, removing, stepVars, lost, dead>>

(* Preparing the prompts and inserting the rows; either may raise. *)
AdmitInsert(ok) ==
  /\ pc = "prepare"
  /\ batch' = {}
  /\ IF ok
     THEN /\ rows' = rows \cup batch /\ active' = active \cup batch
          /\ pc' = "check" /\ UNCHANGED lost
     ELSE /\ lost' = lost \cup batch /\ pc' = "fail" /\ UNCHANGED <<rows, active>>
  /\ UNCHANGED <<jobVars, pending, pumpScheduled, queued, doomed, removing, stepVars,
                 unseen, dead>>

(* Without work the pump goes round until its idle deadline, and returns. *)
Check(late) ==
  /\ pc = "check"
  /\ pc' = IF active # {} \/ pending # {} THEN "remove" ELSE IF late THEN "close" ELSE "loop"
  /\ UNCHANGED <<jobVars, serviceVars, rows, batchVars, removing, stepVars, history>>

-----------------------------------------------------------------------------
(* One step of the generator.                                              *)

(* Mutant: a cancelled row leaves the generator and stays in the active map. *)
RemoveKeepsActive ==
  /\ pc = "remove"
  /\ removing' = active \cap cancelled /\ active' = active
  /\ pc' = IF removing' = {} THEN "step" ELSE "removing"
  /\ UNCHANGED <<jobVars, pending, pumpScheduled, queued, rows, batchVars, stepVars, history>>

RemoveTake ==
  /\ pc = "remove"
  /\ removing' = active \cap cancelled /\ active' = active \ cancelled
  /\ pc' = IF removing' = {} THEN "step" ELSE "removing"
  /\ UNCHANGED <<jobVars, pending, pumpScheduled, queued, rows, batchVars, stepVars, history>>

(* generator.remove, and the finally clause that answers the rows. *)
RemoveRows(ok) ==
  /\ pc = "removing"
  /\ future' = Answer(removing, "failed") /\ removing' = {}
  /\ IF ok THEN rows' = rows \ removing /\ pc' = "step" ELSE pc' = "fail" /\ UNCHANGED rows
  /\ UNCHANGED <<ticket, cancelled, serviceVars, batchVars, stepVars, history>>

(* generator.next(): R have a token, of which F is the last; a row that
   finishes leaves the generator. *)
Step(R, F) ==
  /\ pc = "step" /\ F \subseteq R /\ R \subseteq rows
  /\ responses' = R /\ finishing' = F /\ rows' = rows \ F
  /\ pc' = IF R = {} THEN "loop" ELSE "handle"
  /\ UNCHANGED <<jobVars, serviceVars, batchVars, removing, history>>

StepRaises ==
  /\ pc = "step"
  /\ pc' = "fail"
  /\ UNCHANGED <<jobVars, serviceVars, rows, batchVars, removing, stepVars, history>>

(* The response of j has been handled. *)
Handled(j) ==
  /\ responses' = responses \ {j} /\ finishing' = finishing \ {j}
  /\ pc' = IF responses' = {} THEN "loop" ELSE "handle"

Handling(j) ==
  /\ pc = "handle" /\ j \in responses
  /\ UNCHANGED <<ticket, cancelled, pending, pumpScheduled, queued, batchVars, removing,
                 unseen, dead>>

(* A row whose job has left the active map. *)
HandleUnknown(j) ==
  /\ Handling(j) /\ j \notin active
  /\ Handled(j)
  /\ UNCHANGED <<future, active, rows, lost>>

HandleCancelled(j, ok) ==
  /\ Handling(j) /\ j \in active \cap cancelled
  /\ active' = active \ {j} /\ future' = Answer({j}, "failed")
  /\ IF ok THEN Handled(j) /\ rows' = rows \ {j}
     ELSE pc' = "fail" /\ UNCHANGED <<responses, finishing, rows>>
  /\ UNCHANGED lost

(* The token goes out, and the request goes on. *)
HandleToken(j) ==
  /\ Handling(j) /\ j \in active \ (cancelled \cup finishing)
  /\ Handled(j)
  /\ UNCHANGED <<future, active, rows, lost>>

(* emit_token raises: the job is failed, the generator keeps its row. *)
HandleCallbackRaises(j) ==
  /\ Handling(j) /\ j \in active \ cancelled
  /\ active' = active \ {j} /\ future' = Answer({j}, "failed")
  /\ Handled(j)
  /\ UNCHANGED <<rows, lost>>

(* _complete_job after the last token: decoding the text may raise, and
   set_result would on a future that is done. *)
HandleFinish(j, ok) ==
  /\ Handling(j) /\ j \in (active \cap finishing) \ cancelled
  /\ active' = active \ {j}
  /\ IF ok THEN /\ future' = [future EXCEPT ![j] = "result"]
                /\ Handled(j) /\ UNCHANGED lost
     ELSE /\ lost' = lost \cup {j} /\ pc' = "fail"
          /\ UNCHANGED <<future, responses, finishing>>
  /\ UNCHANGED rows

-----------------------------------------------------------------------------
(* The end of the pump.                                                    *)

(* Mutant: the pending jobs are failed and stay in the list. *)
FailAllKeepsPending ==
  /\ pc = "fail"
  /\ future' = Answer(pending \cup active, "failed")
  /\ active' = {}
  /\ responses' = {} /\ finishing' = {} /\ pc' = "close"
  /\ UNCHANGED <<ticket, cancelled, pending, pumpScheduled, queued, rows, batchVars,
                 removing, history>>

FailAll ==
  /\ pc = "fail"
  /\ future' = Answer(pending \cup active, "failed")
  /\ pending' = {} /\ active' = {}
  /\ responses' = {} /\ finishing' = {} /\ pc' = "close"
  /\ UNCHANGED <<ticket, cancelled, pumpScheduled, queued, rows, batchVars, removing, history>>

(* Mutant: the pump ends without a last look at the pending list. *)
CloseBlindly ==
  /\ pc = "close"
  /\ rows' = {} /\ pumpScheduled' = FALSE /\ pc' = "idle"
  /\ UNCHANGED <<jobVars, pending, active, queued, batchVars, removing, stepVars, history>>

(* The finally clause: the generator is closed, the flag decided again. *)
Close ==
  /\ pc = "close"
  /\ rows' = {}
  /\ pumpScheduled' = (pending # {})
  /\ queued' = IF pending # {} THEN queued + 1 ELSE queued
  /\ pc' = "idle"
  /\ UNCHANGED <<jobVars, pending, active, batchVars, removing, stepVars, history>>

Steps == \E R \in SUBSET rows : \E F \in SUBSET R : Step(R, F)

Handle ==
  \E j \in Job :
    \/ HandleUnknown(j) \/ HandleToken(j) \/ HandleCallbackRaises(j)
    \/ \E ok \in BOOLEAN : HandleCancelled(j, ok) \/ HandleFinish(j, ok)

Pump ==
  \/ \E ok \in BOOLEAN : PumpStart(ok) \/ AdmitInsert(ok) \/ RemoveRows(ok) \/ Check(ok)
  \/ AdmitTake \/ AdmitFirstRead \/ AdmitSecondRead \/ RemoveTake
  \/ Steps \/ StepRaises \/ Handle
  \/ FailAll \/ Close

Next == Pump \/ \E j \in Job : Submit(j) \/ Cancel(j)

Spec == Init /\ [][Next]_vars

(* The owner thread comes back to its pump, and every row that stays in a
   generator that is stepped reaches its token budget or a stop token. *)
Fairness ==
  /\ WF_vars(Pump)
  /\ \A j \in Job : SF_vars(Steps /\ j \in finishing')

FairSpec == Spec /\ Fairness

-----------------------------------------------------------------------------
(* Type correctness; the pump's counter never goes below zero. *)
TypeOK ==
  /\ future \in [Job -> {"new", "waiting", "result", "failed"}] /\ ticket \in [Job -> Nat]
  /\ \A S \in {cancelled, pending, active, rows, batch, doomed, removing, responses,
              finishing, lost, unseen} : S \subseteq Job
  /\ pumpScheduled \in BOOLEAN /\ queued \in Nat /\ dead \in BOOLEAN
  /\ pc \in {"idle", "loop", "screen", "screened", "prepare", "check", "remove", "removing", "step",
             "handle", "fail", "close"}

(* The flag stands for exactly one pump, queued or running, until the
   construction of a generator raises: then it stands for none, for ever. *)
OnePump ==
  queued + (IF pc # "idle" THEN 1 ELSE 0) = (IF pumpScheduled /\ ~dead THEN 1 ELSE 0)

(* The pump keeps no job it has answered, and loses an open one in two ways
   only: an exception between two of its lists, and a cancel between the two
   reads of an admission.  Every other open future is that of a job in exactly
   one list. *)
Lists(j) == {S \in {<<"pending", pending>>, <<"batch", batch>>, <<"active", active>>,
                    <<"removing", removing>>} : j \in S[2]}
HeldOnce ==
  \A j \in Job : Cardinality(Lists(j)) = 
    (IF future[j] = "waiting" /\ j \notin lost \cup unseen THEN 1 ELSE 0)

(* Between two steps every active job has its row in the generator (or it
   would wait for tokens nobody computes), no more jobs are active than the
   configuration allows, and the only rows without an active job are those of
   requests that have failed. *)
RowsInStep ==
  /\ pc \in {"loop", "check", "remove", "step"} =>
       active \subseteq rows /\ \A j \in rows \ active : future[j] = "failed"
  /\ Cardinality(active) <= MaxActive

(* A future is answered once: the last token of a row never completes a job
   that a callback, a cancel or a failing pump has answered before. *)
AnswersOnce ==
  [][\A j \in Job : future[j] \in {"result", "failed"} => future'[j] = future[j]]_vars

(* Every submitted job is answered, unless it is lost in one of those two ways
   or the pump could not be built. *)
EveryJobAnswered ==
  \A j \in Job : future[j] = "waiting" ~>
    future[j] # "waiting" \/ j \in lost \cup unseen \/ dead

(* _StreamCancelled is "raised inside the generation worker after a request is
   cancelled": a cancelled request that still waits is in a list whose owner
   will answer it, but for exceptions. *)
CancelReachesWorker ==
  \A j \in cancelled : future[j] = "waiting" => Lists(j) # {} \/ j \in lost

(* The service keeps the promise of BatchContract: one lane for all jobs,
   which may join it at any step; the rows it is about to remove still count. *)
Contract == INSTANCE BatchContract WITH
  Key <- [j \in Job |-> "lane"], Groups <- {S \in SUBSET Job : Cardinality(S) <= MaxActive},
  Joinable <- TRUE,
  group <- active \cup removing, lost <- lost \cup unseen, open <- TRUE
ImplementsContract == Contract!BSpec

(* What that comes to: a job enters the group only with or after every
   compatible job submitted before it that still wants an answer, and the
   group never outgrows the lane nor mixes keys. *)
FairlyAdmitted == Contract!NoOvertaking /\ Contract!GroupAllowed

-----------------------------------------------------------------------------
(* The inductive invariant behind the safety properties.                   *)

(* A pump that could not be built leaves the flag set. *)
DeadIsScheduled == dead => pumpScheduled

(* Tickets are drawn once and in order, by the jobs submitted. *)
Submitted == {k \in Job : ticket[k] > 0}
Tickets ==
  /\ \A j \in Job : (ticket[j] > 0) = (future[j] # "new") /\ ticket[j] <= Cardinality(Submitted)
  /\ \A j, k \in Submitted : ticket[j] = ticket[k] => j = k

(* The four lists share out the open jobs; those lost stay open. *)
Apart ==
  /\ pending \cap batch = {} /\ pending \cap active = {} /\ pending \cap removing = {}
  /\ batch \cap active = {} /\ batch \cap removing = {} /\ active \cap removing = {}
Held == pending \cup batch \cup active \cup removing
HeldAreOpen ==
  /\ \A j \in Job : j \in Held <=> future[j] = "waiting" /\ j \notin lost \cup unseen
  /\ \A j \in lost \cup unseen : future[j] = "waiting"

(* Which list is in use where. *)
ListsInUse ==
  /\ pc \notin {"screen", "screened", "prepare"} => batch = {}
  /\ pc # "removing" => removing = {}
  /\ doomed \subseteq batch \cap cancelled
  /\ pc \in {"idle", "close"} => active = {}
  /\ pc = "idle" => rows = {}

(* Rows and active map, and rows that have lost their job to a failure. *)
RowsFollow ==
  /\ pc \in {"loop", "screen", "screened", "prepare", "check", "remove", "removing", "step"} =>
       active \subseteq rows
  /\ pc = "handle" =>
       active \subseteq rows \cup finishing /\ finishing \subseteq responses \ rows
  /\ \A j \in rows \ (active \cup removing) : future[j] = "failed"

(* Room for the batch was counted when it was taken. *)
Room == Cardinality(active) + Cardinality(batch) <= MaxActive

IInv ==
  /\ TypeOK /\ OnePump /\ DeadIsScheduled /\ Tickets /\ Apart /\ HeldAreOpen
  /\ ListsInUse /\ RowsFollow /\ Room

(* On top of IInv for the contract: the batch was the head of the pending list. *)
BatchIsFirst == \A j \in batch, k \in pending : ticket[j] < ticket[k]
=============================================================================
