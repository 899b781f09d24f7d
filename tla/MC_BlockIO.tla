----------------------------- MODULE MC_BlockIO -----------------------------
(***************************************************************************)
(* Model-checking instance of BlockIO: the bounds are in the configs.      *)
(***************************************************************************)
EXTENDS BlockIO
=============================================================================
