------------------------ MODULE MCBatchedARService -------------------------
(***************************************************************************)
(* Small instance of BatchedARService for TLC: three jobs for two rows, so *)
(* that one job waits for a row to end.                                    *)
(***************************************************************************)
EXTENDS BatchedARService

CONSTANTS j1, j2, j3
MCJob == {j1, j2, j3}
=============================================================================
