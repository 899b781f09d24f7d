--------------------------- MODULE MC_SdmmcTasks ---------------------------
(***************************************************************************)
(* Model-checking instance of SdmmcTasks.                                  *)
(***************************************************************************)
EXTENDS SdmmcTasks, TLC

CONSTANTS r1, r2, c1, c2
=============================================================================
