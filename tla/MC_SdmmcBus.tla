---------------------------- MODULE MC_SdmmcBus ----------------------------
(***************************************************************************)
(* Model-checking instance of SdmmcBus.  Seen is the VIEW of the run that  *)
(* checks safety: it leaves out values no later step and no property of    *)
(* that run reads (exist outside "ack", cur where no step uses it, fnError *)
(* outside the scan, the rest of a disk that is gone, the record of a      *)
(* finished request, the history variable eventLost), so states that only  *)
(* differ in them are explored once.  Their domains are in the type        *)
(* invariant that SdmmcBus_proofs proves, not in the run.                  *)
(***************************************************************************)
EXTENDS SdmmcBus

CONSTANTS r1, r2

Finished(r) == rstate[r] \in {"done", "error", "dropped"} /\ ~ Live(r)

Seen == <<slot, inserted, sdInt, answering, cardPresent, ipc, ipc = "ack" /\ exist,
          ejectVars, pmVars, dying, queue, tpc,
          IF tpc \in AttachLabels \cup {"check", "io", "detach", "disable"} THEN cur ELSE 0,
          present, attached, fn0, tpc \in {"init", "blkattach"} /\ fnError,
          [d \in 1 .. Len(disks) |->
             IF disks[d].state = "live" THEN disks[d] ELSE disks[d].state],
          sddisk,
          [r \in Reqs |->
             IF Finished(r) THEN <<>> ELSE <<rdisk[r], rstate[r], touched[r]>>]>>
=============================================================================
