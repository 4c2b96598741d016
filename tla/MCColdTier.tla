----------------------------- MODULE MCColdTier -----------------------------
(***************************************************************************)
(* Small instances of ColdTier for TLC.                                    *)
(***************************************************************************)
EXTENDS ColdTier, TLC

CONSTANTS e1, e2, a, b

(* Two entries share a blob, as the copies of one conversation do. *)
MCTwo == e1 :> {a, b} @@ e2 :> {b}
=============================================================================
