----------------------------- MODULE MCSmartFans -----------------------------
(***************************************************************************)
(* Small instances of SmartFans for TLC.                                   *)
(***************************************************************************)
EXTENDS SmartFans, TLC

CONSTANTS q1, q2
=============================================================================
