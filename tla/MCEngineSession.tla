--------------------------- MODULE MCEngineSession ---------------------------
(***************************************************************************)
(* Small instances of EngineSession for TLC.                               *)
(***************************************************************************)
EXTENDS EngineSession

CONSTANTS q1, q2, q3
=============================================================================
