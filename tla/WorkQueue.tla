------------------------------ MODULE WorkQueue ------------------------------
(***************************************************************************)
(* What ModelWorkScheduler promises to those who submit work, without its  *)
(* timers, sequence numbers, condition variable or completion bookkeeping: *)
(* one item at a time, never preempted, never cancelled once it runs;      *)
(* foreground before anything else; a persistence item past a waiting      *)
(* postcommit only on a bridge that somebody granted, and a foreground     *)
(* arrival takes every bridge away.  ModelScheduler implements it.         *)
(***************************************************************************)
EXTENDS Naturals

CONSTANTS Foreground, Postcommit, Persistence, NoItem

Items == Foreground \cup Postcommit \cup Persistence

VARIABLES
  future,    \* what the holder of each item's future can see
  waiting,   \* accepted items that have not been taken
  taken,     \* the item the owner holds
  open,      \* submissions are accepted
  bridges    \* persistence items that may still pass a waiting postcommit

wvars == <<future, waiting, taken, open, bridges>>

WInit ==
  /\ future = [i \in Items |-> "new"]
  /\ waiting = {} /\ taken = NoItem /\ open = TRUE /\ bridges = 0

Cancelled(S) == [i \in Items |-> IF i \in S THEN "cancelled" ELSE future[i]]

Refuse(i) ==
  /\ ~open /\ future[i] = "new"
  /\ future' = [future EXCEPT ![i] = "refused"]
  /\ UNCHANGED <<waiting, taken, open, bridges>>

(* Accepting a persistence item may push others of its band out. *)
Accept(i) ==
  /\ open /\ future[i] = "new"
  /\ \E out \in SUBSET (waiting \cap Persistence) :
       /\ i \notin Persistence => out = {}
       /\ future' = [Cancelled(out) EXCEPT ![i] = "pending"]
       /\ waiting' = (waiting \cup {i}) \ out
  /\ bridges' = IF i \in Foreground THEN 0 ELSE bridges
  /\ UNCHANGED <<taken, open>>

Withdraw(S) ==
  /\ S \subseteq waiting \cap Persistence
  /\ waiting' = waiting \ S /\ future' = Cancelled(S)
  /\ UNCHANGED <<taken, open, bridges>>

Abandon(i) ==
  /\ future[i] = "pending"
  /\ future' = [future EXCEPT ![i] = "cancelled"]
  /\ UNCHANGED <<waiting, taken, open, bridges>>

GrantBridges ==
  /\ open
  /\ bridges' \in Nat /\ bridges' >= bridges
  /\ UNCHANGED <<future, waiting, taken, open>>

Close ==
  /\ open' = FALSE
  /\ \/ UNCHANGED <<future, waiting>>
     \/ waiting' = {} /\ future' = Cancelled(waiting)
  /\ UNCHANGED <<taken, bridges>>

TakeItem(i) ==
  /\ taken = NoItem /\ i \in waiting
  /\ i \notin Foreground => waiting \cap Foreground = {}
  /\ IF i \in Persistence /\ waiting \cap Postcommit # {}
     THEN bridges > 0 /\ bridges' = bridges - 1
     ELSE bridges' = bridges
  /\ taken' = i /\ waiting' = waiting \ {i}
  /\ UNCHANGED <<future, open>>

Run ==
  /\ taken # NoItem /\ future[taken] = "pending"
  /\ future' = [future EXCEPT ![taken] = "running"]
  /\ UNCHANGED <<waiting, taken, open, bridges>>

Resolve ==
  /\ taken # NoItem /\ future[taken] = "running"
  /\ future' = [future EXCEPT ![taken] = "finished"]
  /\ UNCHANGED <<waiting, taken, open, bridges>>

PutDown ==
  /\ taken # NoItem /\ future[taken] \in {"cancelled", "finished"}
  /\ taken' = NoItem
  /\ UNCHANGED <<future, waiting, open, bridges>>

WNext ==
  \/ \E i \in Items : Refuse(i) \/ Accept(i) \/ Abandon(i) \/ TakeItem(i)
  \/ \E S \in SUBSET Persistence : Withdraw(S)
  \/ GrantBridges \/ Close
  \/ Run \/ Resolve \/ PutDown

WSpec == WInit /\ [][WNext]_wvars
=============================================================================
