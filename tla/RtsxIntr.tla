------------------------------ MODULE RtsxIntr ------------------------------
(***************************************************************************)
(* How a host command completes (3rdParty/openbsd/rtsx.c): the thread that *)
(* executes commands starts the chip (rtsx_hostcmd_send, rtsx_xfer_exec)   *)
(* and waits (rtsx_wait_intr); the interrupt thread acknowledges the       *)
(* interrupt, records it in sc->intr_status and wakes the waiter           *)
(* (rtsx_intr, called by Sinetek_rtsx::InterruptHandler).                  *)
(*                                                                         *)
(* rtsx_wait_intr holds the global lock, but rtsx_intr does not take it    *)
(* for sc->intr_status and the wakeup, so the lock orders nothing here and *)
(* is left out.  "sc->intr_status |= status" and "sc->intr_status &=       *)
(* ~status" are unordered read-modify-writes of two threads: each is a     *)
(* step that reads and a step that writes.                                 *)
(***************************************************************************)
EXTENDS Naturals, FiniteSets

CONSTANTS
    MaxCmds,       \* bound: commands that are executed
    MaxCardEvents  \* bound: times a card is inserted or removed

ASSUME BoundsAssumption == MaxCmds \in Nat /\ MaxCardEvents \in Nat

VARIABLES
    (* the chip *)
    chip,        \* the command that it executes, 0 when it is idle
    bipr,        \* the RTSX_BIPR interrupts that are pending
    slot,        \* RTSX_SD_EXIST: a card is in the slot
    events,      \* number of card events so far
    (* struct rtsx_softc *)
    intr_status, \* sc->intr_status
    cardPresent, \* RTSX_F_CARD_PRESENT in sc->flags
    (* the interrupt thread *)
    ipc, istatus, ival,
    (* the thread that executes commands *)
    wpc, cmd, wstatus, werror, wval,
    (* history *)
    outcome,     \* how the chip ended each command
    result,      \* what rtsx_wait_intr returned for each command
    timedOut     \* some wait has timed out

chipVars == <<chip, bipr, slot, events>>
intrVars == <<ipc, istatus, ival>>
waitVars == <<wpc, cmd, wstatus, werror, wval>>
history  == <<outcome, result, timedOut>>
vars == <<chipVars, intr_status, cardPresent, intrVars, waitVars, history>>

Cmds == 1 .. MaxCmds

\* RTSX_TRANS_OK_INT and RTSX_TRANS_FAIL_INT; RTSX_SD_INT is "SD".
Trans == {"OK", "FAIL"}
Bits  == Trans \cup {"SD"}

Results == {"none", "ok", "EIO", "ETIMEDOUT", "ENODEV"}

TypeOK ==
    /\ chip \in Cmds \cup {0}
    /\ bipr \in SUBSET Bits
    /\ slot \in BOOLEAN
    /\ events \in 0 .. MaxCardEvents
    /\ intr_status \in SUBSET Bits
    /\ cardPresent \in BOOLEAN
    /\ ipc \in {"idle", "or", "orstore", "wakeup"}
    /\ istatus \in SUBSET Bits
    /\ ival \in SUBSET Bits
    /\ wpc \in {"idle", "wait", "sleep", "asleep", "woken", "deadline", "clear", "clearstore"}
    /\ cmd \in 0 .. MaxCmds
    /\ wstatus \in SUBSET Trans
    /\ werror \in {"none", "ETIMEDOUT"}
    /\ wval \in SUBSET Bits
    /\ outcome \in [Cmds -> Trans \cup {"none"}]
    /\ result \in [Cmds -> Results]
    /\ timedOut \in BOOLEAN

\* rtsx_init has enabled the interrupts and read whether a card is present.
Init ==
    /\ chip = 0
    /\ bipr = {}
    /\ slot \in BOOLEAN
    /\ events = 0
    /\ intr_status = {}
    /\ cardPresent = slot
    /\ ipc = "idle"
    /\ istatus = {}
    /\ ival = {}
    /\ wpc = "idle"
    /\ cmd = 0
    /\ wstatus = {}
    /\ werror = "none"
    /\ wval = {}
    /\ outcome = [c \in Cmds |-> "none"]
    /\ result = [c \in Cmds |-> "none"]
    /\ timedOut = FALSE

-----------------------------------------------------------------------------
(***************************************************************************)
(* The chip and the card slot.  A command may end well, fail, or never     *)
(* end; a card event may come at any time.                                 *)
(***************************************************************************)
ChipDone(bit) ==
    /\ chip # 0
    /\ chip' = 0
    /\ bipr' = bipr \cup {bit}
    /\ outcome' = [outcome EXCEPT ![chip] = bit]
    /\ UNCHANGED <<slot, events, intr_status, cardPresent, intrVars, waitVars,
                   result, timedOut>>

CardEvent ==
    /\ events < MaxCardEvents
    /\ events' = events + 1
    /\ slot' = ~slot
    /\ bipr' = bipr \cup {"SD"}
    /\ UNCHANGED <<chip, intr_status, cardPresent, intrVars, waitVars, history>>

-----------------------------------------------------------------------------
(***************************************************************************)
(* rtsx_intr                                                               *)
(***************************************************************************)

\* RTSX_BIPR is read and acknowledged; a card event sets or clears
\* RTSX_F_CARD_PRESENT (rtsx_card_insert, rtsx_card_eject).
IntrRead ==
    /\ ipc = "idle"
    /\ bipr # {}
    /\ istatus' = bipr
    /\ bipr' = {}
    /\ cardPresent' = IF "SD" \in bipr THEN slot ELSE cardPresent
    /\ ipc' = IF bipr \cap Trans # {} THEN "or" ELSE "idle"
    /\ UNCHANGED <<chip, slot, events, intr_status, ival, waitVars, history>>

\* sc->intr_status |= status: the read, then the write
IntrOr ==
    /\ ipc = "or"
    /\ ival' = intr_status
    /\ ipc' = "orstore"
    /\ UNCHANGED <<chipVars, intr_status, cardPresent, istatus, waitVars, history>>

\* Mutant of IntrOrStore: only the success bit is recorded
IntrOrStoreOkOnly ==
    /\ ipc = "orstore"
    /\ intr_status' = ival \cup {"OK"}
    /\ ipc' = "wakeup"
    /\ UNCHANGED <<chipVars, cardPresent, istatus, ival, waitVars, history>>

IntrOrStore ==
    /\ ipc = "orstore"
    /\ intr_status' = ival \cup istatus
    /\ ipc' = "wakeup"
    /\ UNCHANGED <<chipVars, cardPresent, istatus, ival, waitVars, history>>

\* wakeup(&sc->intr_status) reaches a thread that sleeps, and no other
IntrWakeup ==
    /\ ipc = "wakeup"
    /\ ipc' = "idle"
    /\ wpc' = IF wpc = "asleep" THEN "woken" ELSE wpc
    /\ UNCHANGED <<chipVars, intr_status, cardPresent, istatus, ival,
                   cmd, wstatus, werror, wval, history>>

-----------------------------------------------------------------------------
(***************************************************************************)
(* rtsx_hostcmd_send or rtsx_xfer_exec, then rtsx_wait_intr                *)
(***************************************************************************)

\* The registers that start the chip are written; intr_status is not cleared.
Send ==
    /\ wpc = "idle"
    /\ cmd < MaxCmds
    /\ cmd' = cmd + 1
    /\ chip' = cmd + 1
    /\ werror' = "none"
    /\ wpc' = "wait"
    /\ UNCHANGED <<bipr, slot, events, intr_status, cardPresent, intrVars,
                   wstatus, wval, history>>

\* status = sc->intr_status & mask, before the first sleep and after each one
WaitTest ==
    /\ wpc \in {"wait", "woken"}
    /\ wstatus' = intr_status \cap Trans
    /\ wpc' = IF intr_status \cap Trans = {} THEN "sleep" ELSE "clear"
    /\ UNCHANGED <<chipVars, intr_status, cardPresent, intrVars, cmd, werror,
                   wval, history>>

WaitSleep ==
    /\ wpc = "sleep"
    /\ wpc' = "asleep"
    /\ UNCHANGED <<chipVars, intr_status, cardPresent, intrVars, cmd, wstatus,
                   werror, wval, history>>

\* Mutant of WaitDeadline: the sleep has no deadline (INFSLP)
WaitDeadlineNever == FALSE /\ UNCHANGED vars

\* the deadline of the sleep passes (EWOULDBLOCK)
WaitDeadline ==
    /\ wpc = "asleep"
    /\ wpc' = "deadline"
    /\ timedOut' = TRUE
    /\ UNCHANGED <<chipVars, intr_status, cardPresent, intrVars, cmd, wstatus,
                   werror, wval, outcome, result>>

\* rtsx_soft_reset stops the command; an interrupt already raised stays.
WaitSoftReset ==
    /\ wpc = "deadline"
    /\ chip' = 0
    /\ werror' = "ETIMEDOUT"
    /\ wpc' = "clear"
    /\ UNCHANGED <<bipr, slot, events, intr_status, cardPresent, intrVars, cmd,
                   wstatus, wval, history>>

\* sc->intr_status &= ~status: the read ...
WaitClear ==
    /\ wpc = "clear"
    /\ wval' = intr_status
    /\ wpc' = "clearstore"
    /\ UNCHANGED <<chipVars, intr_status, cardPresent, intrVars, cmd, wstatus,
                   werror, history>>

\* Mutant of WaitReturn: intr_status is not cleared
WaitReturnKeepsStatus ==
    /\ wpc = "clearstore"
    /\ result' = [result EXCEPT ![cmd] =
            IF ~cardPresent THEN "ENODEV"
            ELSE IF werror # "none" THEN werror
            ELSE IF "FAIL" \in wstatus THEN "EIO" ELSE "ok"]
    /\ wpc' = "idle"
    /\ UNCHANGED <<chipVars, intr_status, cardPresent, intrVars, cmd, wstatus, werror, wval,
                   outcome, timedOut>>

\* ... and the write; then the result: a card that has disappeared hides any
\* other error, and a timeout hides a failure.
WaitReturn ==
    /\ wpc = "clearstore"
    /\ intr_status' = wval \ wstatus
    /\ result' = [result EXCEPT ![cmd] =
            IF ~cardPresent THEN "ENODEV"
            ELSE IF werror # "none" THEN werror
            ELSE IF "FAIL" \in wstatus THEN "EIO" ELSE "ok"]
    /\ wpc' = "idle"
    /\ UNCHANGED <<chipVars, cardPresent, intrVars, cmd, wstatus, werror, wval,
                   outcome, timedOut>>

-----------------------------------------------------------------------------
IntrStep == IntrRead \/ IntrOr \/ IntrOrStore \/ IntrWakeup
WaitStep == WaitTest \/ WaitSleep \/ WaitSoftReset \/ WaitClear \/ WaitReturn

Next == \/ \E bit \in Trans : ChipDone(bit)
        \/ CardEvent
        \/ IntrStep
        \/ Send
        \/ WaitStep
        \/ WaitDeadline

Spec == Init /\ [][Next]_vars

(***************************************************************************)
(* Both threads run when they can, and a deadline passes for a thread that *)
(* stays asleep.  Nothing makes the chip finish a command.                 *)
(***************************************************************************)
FairSpec == Spec /\ WF_vars(IntrStep) /\ WF_vars(WaitStep) /\ WF_vars(WaitDeadline)

-----------------------------------------------------------------------------
(***************************************************************************)
(* Properties                                                              *)
(***************************************************************************)

Returned(c) == result[c] # "none"

\* As long as no wait has timed out, a wait returns only after the chip has
\* ended that very command, and says what the chip said (or that the card has
\* gone), and the chip is idle whenever the driver sends a command.
ExactUntilTimeout ==
    ~timedOut =>
        /\ \A c \in Cmds : Returned(c) =>
              /\ outcome[c] # "none"
              /\ result[c] = "ok" => outcome[c] = "OK"
              /\ result[c] = "EIO" => outcome[c] = "FAIL"
              /\ result[c] # "ETIMEDOUT"
        /\ wpc = "idle" => chip = 0

\* Even after timeouts, no success is invented out of nothing: a wait that
\* succeeds comes after the chip has ended some command well, that one or an
\* earlier one; and as long as the chip has failed no command, each completion
\* is counted once.  (Once it has, one completion can make two waits succeed:
\* the unlocked |= of rtsx_intr stores again a bit that rtsx_wait_intr has
\* cleared, beside a failure that is then cleared alone.)
SuccessesBacked ==
    /\ \A c \in Cmds : result[c] = "ok" => \E d \in 1 .. c : outcome[d] = "OK"
    /\ (\A c \in Cmds : outcome[c] # "FAIL") =>
          Cardinality({c \in Cmds : result[c] = "ok"})
              <= Cardinality({c \in Cmds : outcome[c] = "OK"})

\* rtsx_wait_intr returns, whatever the chip does and whichever wakeup is lost.
WaitReturns == wpc # "idle" ~> wpc = "idle"

(***************************************************************************)
(* A claim of the repository that the code does not keep.                  *)
(***************************************************************************)

\* rtsx.c:1538 "Run the command queue and wait for completion", rtsx.c:1213
\* "Wait for completion": a command that succeeds has been completed.
SuccessMeansDone == \A c \in Cmds : result[c] = "ok" => outcome[c] = "OK"
=============================================================================
