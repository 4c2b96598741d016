---------------------------- MODULE MCServeLoop ----------------------------
(***************************************************************************)
(* Small instances of ServeLoop: two requests, one with a postcommit as    *)
(* its tail and one with an inline one; a warm rung; an SSD encode.        *)
(***************************************************************************)
EXTENDS ServeLoop, TLC

CONSTANTS r1, r2, f1, f2, x2, p1, w1, c1

MCGen == r1 :> f1 @@ r2 :> f2
MCTail == r1 :> p1 @@ r2 :> x2
MCCoalesceKey == [i \in Persistence |-> NoKey]
MCPinnedBytes == [i \in Persistence |-> 1]
=============================================================================
