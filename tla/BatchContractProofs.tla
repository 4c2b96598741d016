------------------------- MODULE BatchContractProofs -------------------------
(***************************************************************************)
(* Theorems about BatchContract, for any set of jobs, any keys and any     *)
(* family of groups that is closed under subsets: what the promise of the  *)
(* two batch services comes to, whoever keeps it.                          *)
(***************************************************************************)
EXTENDS BatchContract, TLAPS

(* Types, and a job that is not accepted has no ticket and no group. *)
BTypeOK ==
  /\ future \in [Job -> {"new", "waiting"} \cup Answers]
  /\ ticket \in [Job -> Nat]
  /\ group \subseteq Job /\ lost \subseteq Job
  /\ \A j \in Job : future[j] = "new" => ticket[j] = 0 /\ j \notin group

(* What may run together may run without some of its jobs: a row that ends
   leaves the others where they are. *)
GroupsAssumption ==
  {} \in Groups /\ \A S \in Groups : SUBSET S \subseteq Groups

(* The contract begins with nobody overtaken. *)
LEMMA InitContract ==
  ASSUME BInit, GroupsAssumption
  PROVE  BTypeOK /\ NoOvertaking /\ GroupAllowed
BY DEF BInit, BTypeOK, NoOvertaking, GroupAllowed, Answers, GroupsAssumption

(* No step of it lets anybody be overtaken: whoever is admitted comes before
   all who wait for the same lane, and whoever gets a result was in the group. *)
LEMMA StepContract ==
  ASSUME BTypeOK, NoOvertaking, GroupAllowed, GroupsAssumption, [BNext]_bvars
  PROVE  BTypeOK' /\ NoOvertaking' /\ GroupAllowed'
<1>1. ASSUME NEW j \in Job, Accept(j) PROVE BTypeOK' /\ NoOvertaking' /\ GroupAllowed'
  <2>1. BTypeOK'
    BY <1>1 DEF Accept, BTypeOK, Answers
  <2>2. NoOvertaking'
    BY <1>1 DEF Accept, BTypeOK, NoOvertaking, Answers
  <2>3. GroupAllowed'
    BY <1>1 DEF Accept, GroupAllowed
  <2> QED BY <2>1, <2>2, <2>3
<1>2. ASSUME NEW j \in Job, Refuse(j) PROVE BTypeOK' /\ NoOvertaking' /\ GroupAllowed'
  BY <1>2 DEF Refuse, BTypeOK, NoOvertaking, GroupAllowed, Answers
<1>3. ASSUME CancelJobs \/ CloseDown \/ UNCHANGED bvars
      PROVE  BTypeOK' /\ NoOvertaking' /\ GroupAllowed'
  BY <1>3 DEF CancelJobs, CloseDown, bvars, BTypeOK, NoOvertaking, GroupAllowed
<1>4. ASSUME NEW S \in SUBSET Job, Admit(S) PROVE BTypeOK' /\ NoOvertaking' /\ GroupAllowed'
  <2>1. BTypeOK' /\ GroupAllowed'
    BY <1>4 DEF Admit, BTypeOK, GroupAllowed, Waiting
  <2>2. NoOvertaking'
    BY <1>4 DEF Admit, BTypeOK, NoOvertaking, Waiting, Answers
  <2> QED BY <2>1, <2>2
<1>5. ASSUME Settle PROVE BTypeOK' /\ NoOvertaking' /\ GroupAllowed'
  <2>1. BTypeOK'
    BY <1>5 DEF Settle, BTypeOK, Answers
  <2>2. NoOvertaking'
    BY <1>5 DEF Settle, BTypeOK, NoOvertaking, Answers
  <2>3. GroupAllowed'
    BY <1>5 DEF Settle, GroupAllowed, GroupsAssumption
  <2> QED BY <2>1, <2>2, <2>3
<1> QED BY <1>1, <1>2, <1>3, <1>4, <1>5 DEF BNext

(* Whoever keeps the contract treats the jobs of a lane fairly: when a job is
   in the group or has its result, those submitted before it for the same lane
   are too, unless they were cancelled, answered or lost; and only groups run
   that may. *)
THEOREM ContractIsFair ==
  ASSUME GroupsAssumption
  PROVE  BSpec => [](NoOvertaking /\ GroupAllowed)
<1>1. BInit => BTypeOK /\ NoOvertaking /\ GroupAllowed
  BY InitContract
<1>2. BTypeOK /\ NoOvertaking /\ GroupAllowed /\ [BNext]_bvars
      => (BTypeOK /\ NoOvertaking /\ GroupAllowed)'
  BY StepContract
<1> QED BY <1>1, <1>2, PTL DEF BSpec
=============================================================================
