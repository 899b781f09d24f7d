---------------------------- MODULE MC_RtsxIntr ----------------------------
(***************************************************************************)
(* Model-checking instance of RtsxIntr: the bounds are in the configs.     *)
(***************************************************************************)
EXTENDS RtsxIntr
=============================================================================
