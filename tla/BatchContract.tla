---------------------------- MODULE BatchContract ----------------------------
(***************************************************************************)
(* What a batching generation service promises the requests that submit    *)
(* jobs to it, without its pump, locks, lists, rows and cleanup: it runs   *)
(* one bounded group of compatible jobs at a time; among compatible jobs   *)
(* nobody who still wants an answer is overtaken on the way into a group;  *)
(* only a job of the group gets a result, only a job whose request was     *)
(* cancelled is told so, and an answer is final; a closed service accepts  *)
(* and admits nobody.  MTPBatchService and BatchedARService implement it.  *)
(***************************************************************************)
EXTENDS Naturals

CONSTANTS
  Job,
  Key,       \* job -> the lane it waits for
  Groups,    \* the sets of jobs that may run together
  Joinable   \* jobs may join a group that runs

VARIABLES
  future,     \* job -> "new", "waiting" or its answer
  ticket,     \* job -> its place in the order of submission, 0 before
  cancelled,  \* jobs whose request was cancelled
  group,      \* the jobs of the group that runs
  lost,       \* jobs the service has dropped without an answer
  open        \* jobs are accepted and admitted

bvars == <<future, ticket, cancelled, group, lost, open>>

Answers == {"result", "cancelled", "failed"}

(* Accepted jobs that may still be admitted. *)
Waiting == {j \in Job : future[j] = "waiting"} \ (group \cup lost)

BInit ==
  /\ future = [j \in Job |-> "new"] /\ ticket = [j \in Job |-> 0]
  /\ cancelled = {} /\ group = {} /\ lost = {} /\ open = TRUE

Accept(j) ==
  /\ open /\ future[j] = "new"
  /\ future' = [future EXCEPT ![j] = "waiting"]
  /\ ticket' = [ticket EXCEPT ![j] = ticket'[j]]
  /\ ticket'[j] \in Nat /\ \A k \in Job : ticket[k] < ticket'[j]
  /\ UNCHANGED <<cancelled, group, lost, open>>

Refuse(j) ==
  /\ future[j] = "new"
  /\ \/ ~open /\ future' = [future EXCEPT ![j] = "failed"]
     \/ j \in cancelled /\ future' = [future EXCEPT ![j] = "cancelled"]
  /\ UNCHANGED <<ticket, cancelled, group, lost, open>>

CancelJobs ==
  /\ cancelled \subseteq cancelled'
  /\ UNCHANGED <<future, ticket, group, lost, open>>

(* The service may be closed by a request to stop, which cancels what it
   finds, or by a failure of its own. *)
CloseDown ==
  /\ open' = FALSE /\ cancelled \subseteq cancelled'
  /\ UNCHANGED <<future, ticket, group, lost>>

Admit(S) ==
  /\ open /\ S # {} /\ S \subseteq Waiting
  /\ Joinable \/ group = {}
  /\ group \cup S \in Groups
  /\ \A j \in S, k \in Waiting \ (S \cup cancelled) : Key[k] = Key[j] => ticket[j] < ticket[k]
  /\ group' = group \cup S
  /\ UNCHANGED <<future, ticket, cancelled, lost, open>>

(* Some jobs are answered, some of the group leave it, some are lost.  A row
   that fails by its own callback is cancelled as well. *)
Settle ==
  /\ future' \in [Job -> {"new", "waiting"} \cup Answers]
  /\ \A j \in Job : future'[j] # future[j] =>
       /\ future[j] = "waiting" /\ j \notin lost' /\ future'[j] \in Answers
       /\ future'[j] = "result" => j \in group
       /\ future'[j] = "cancelled" => j \in cancelled
  /\ group' \subseteq group
  /\ \A j \in group \ group' : future'[j] \in Answers \/ j \in lost'
  /\ lost \subseteq lost' /\ lost' \subseteq Job
  /\ \A j \in lost' \ lost : future[j] = "waiting" /\ j \notin group'
  /\ cancelled \subseteq cancelled'
  /\ \A j \in cancelled' \ cancelled : future'[j] \in Answers
  /\ UNCHANGED <<ticket, open>>

BNext ==
  \/ \E j \in Job : Accept(j) \/ Refuse(j)
  \/ CancelJobs \/ CloseDown
  \/ \E S \in SUBSET Job : Admit(S)
  \/ Settle

BSpec == BInit /\ [][BNext]_bvars

-----------------------------------------------------------------------------
(* What the promise comes to.                                              *)

(* Nobody is overtaken: when a job is in the group or has a result, every
   compatible job submitted before it that was never cancelled is in the
   group, has been answered, or is one the service lost. *)
NoOvertaking ==
  \A j, k \in Job :
    /\ 0 < ticket[j] /\ ticket[j] < ticket[k] /\ Key[j] = Key[k]
    /\ k \in group \/ future[k] = "result"
    => future[j] \in Answers \/ j \in group \cup cancelled \cup lost

(* Whatever runs together may. *)
GroupAllowed == group \in Groups
=============================================================================
