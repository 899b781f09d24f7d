---------------------------- MODULE MC_CardInit ----------------------------
(***************************************************************************)
(* Model-checking instance of CardInit: the bounds are in the config.      *)
(***************************************************************************)
EXTENDS CardInit
=============================================================================
