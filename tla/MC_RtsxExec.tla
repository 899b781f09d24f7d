---------------------------- MODULE MC_RtsxExec ----------------------------
(***************************************************************************)
(* Model-checking instance of RtsxExec: the bounds are in the config.      *)
(***************************************************************************)
EXTENDS RtsxExec
=============================================================================
