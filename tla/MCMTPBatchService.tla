------------------------- MODULE MCMTPBatchService -------------------------
(***************************************************************************)
(* Small instances of MTPBatchService for TLC: groups are full at two.     *)
(***************************************************************************)
EXTENDS MTPBatchService, TLC

CONSTANTS j1, j2, j3, k1, k2

(* Two jobs can share a group, the third never joins them. *)
MCKey == j1 :> k1 @@ j2 :> k1 @@ j3 :> k2

MCOneKey == j1 :> k1 @@ j2 :> k1
=============================================================================
