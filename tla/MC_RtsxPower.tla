---------------------------- MODULE MC_RtsxPower ---------------------------
(***************************************************************************)
(* Model-checking instance of RtsxPower: the bounds are in the config.     *)
(* Seen is the VIEW of the run: it leaves out values no later step and no  *)
(* property reads (saved before rtsx_save_regs and after the write back of *)
(* rtsx_restore_regs; limit, off and restored once two threads have met),  *)
(* so states that only differ in them are explored once.                   *)
(***************************************************************************)
EXTENDS RtsxPower

SavedIsRead ==
    \/ power \in {"saving", "asleep", "init"}
    \/ power = "restore" /\ todo["pm"] # <<>>

Seen == <<regs, window, lock, todo, op, IF SavedIsRead THEN saved ELSE 0,
          power, counts, leaks, overlap,
          IF overlap THEN 0 ELSE <<limit, off, restored>> >>
=============================================================================
