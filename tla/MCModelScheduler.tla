-------------------------- MODULE MCModelScheduler --------------------------
(***************************************************************************)
(* Small instances of ModelScheduler for TLC: a backlog of four encodes,   *)
(* and a postcommit with an encode for the liveness properties.            *)
(***************************************************************************)
EXTENDS ModelScheduler, TLC

CONSTANTS f1, p1, c1, c2, c3, c4, session1

(* Two jobs of one session share a coalesce key, the others have none; a
   budget of two is exceeded by c3 alone, and by no set of the others. *)
MCCoalesceKey == c1 :> session1 @@ c2 :> session1 @@ c3 :> NoKey @@ c4 :> NoKey
MCPinnedBytes == c1 :> 1 @@ c2 :> 1 @@ c3 :> 3 @@ c4 :> 1

MCOneKey == c1 :> NoKey
MCOneWeight == c1 :> 1
=============================================================================
