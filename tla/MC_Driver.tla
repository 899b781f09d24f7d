------------------------------ MODULE MC_Driver ------------------------------
(***************************************************************************)
(* Model-checking instance of Driver: the bounds are in the config.        *)
(***************************************************************************)
EXTENDS Driver
=============================================================================
