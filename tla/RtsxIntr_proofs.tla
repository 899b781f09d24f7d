--------------------------- MODULE RtsxIntr_proofs ---------------------------
(***************************************************************************)
(* Theorems about RtsxIntr, for any number of commands and card events.    *)
(***************************************************************************)
EXTENDS RtsxIntr, FiniteSetTheorems, TLAPS

(***************************************************************************)
(* Until a wait times out, the completion of the command in hand is in one *)
(* place at a time: still to come from the chip, pending in RTSX_BIPR,     *)
(* in the hands of the interrupt thread, or recorded in intr_status.       *)
(***************************************************************************)
NoneOf(S)  == S \cap Trans = {}
OnlyOf(S)  == outcome[cmd] \in Trans /\ S \cap Trans = {outcome[cmd]}
Recording  == ipc \in {"or", "orstore"}

Nowhere == chip = 0 /\ NoneOf(bipr) /\ ~Recording /\ NoneOf(intr_status)
InChip  == chip = cmd /\ NoneOf(bipr) /\ ~Recording /\ NoneOf(intr_status)
InBipr  == chip = 0 /\ OnlyOf(bipr) /\ ~Recording /\ NoneOf(intr_status)
InIntr  == /\ chip = 0 /\ NoneOf(bipr) /\ Recording /\ OnlyOf(istatus)
           /\ NoneOf(intr_status)
           /\ ipc = "orstore" => NoneOf(ival)
InStatus == chip = 0 /\ NoneOf(bipr) /\ ~Recording /\ OnlyOf(intr_status)

Waiting == wpc \in {"wait", "sleep", "asleep", "woken"}
Closing == wpc \in {"clear", "clearstore"}

\* Where the completion is, by what the waiting thread does
Handshake ==
    /\ wpc # "deadline"
    /\ wpc = "idle" => Nowhere
    /\ Waiting => InChip \/ InBipr \/ InIntr \/ InStatus
    /\ Closing => InStatus /\ wstatus = {outcome[cmd]}
    /\ wpc = "clearstore" => wval = intr_status
    /\ wpc # "idle" => cmd # 0 /\ werror = "none"

\* Results agree with outcomes, and later commands have neither
Agree ==
    \A c \in Cmds :
        /\ Returned(c) => /\ c <= cmd
                          /\ c = cmd => wpc = "idle"
                          /\ outcome[c] \in Trans
                          /\ result[c] = "ok" => outcome[c] = "OK"
                          /\ result[c] = "EIO" => outcome[c] = "FAIL"
                          /\ result[c] # "ETIMEDOUT"
        /\ c > cmd => outcome[c] = "none"

IInv == TypeOK /\ (~timedOut => Handshake /\ Agree)

-----------------------------------------------------------------------------
\* Every step keeps the types.
LEMMA TypeStep == TypeOK /\ [Next]_vars => TypeOK'
<1> SUFFICES ASSUME TypeOK, [Next]_vars PROVE TypeOK'
  OBVIOUS
<1> USE BoundsAssumption DEF TypeOK, Cmds, Trans, Bits, Results
<1>1. ASSUME NEW bit \in Trans, ChipDone(bit) PROVE TypeOK'
  BY <1>1 DEF ChipDone, intrVars, waitVars
<1>2. CASE CardEvent
  BY <1>2 DEF CardEvent, intrVars, waitVars, history
<1>3. CASE IntrRead
  BY <1>3 DEF IntrRead, waitVars, history
<1>4. CASE IntrOr
  BY <1>4 DEF IntrOr, chipVars, waitVars, history
<1>5. CASE IntrOrStore
  BY <1>5 DEF IntrOrStore, chipVars, waitVars, history
<1>6. CASE IntrWakeup
  BY <1>6 DEF IntrWakeup, chipVars, history
<1>7. CASE Send
  BY <1>7 DEF Send, intrVars, history
<1>8. CASE WaitTest
  BY <1>8 DEF WaitTest, chipVars, intrVars, history
<1>9. CASE WaitSleep
  BY <1>9 DEF WaitSleep, chipVars, intrVars, history
<1>10. CASE WaitDeadline
  BY <1>10 DEF WaitDeadline, chipVars, intrVars
<1>11. CASE WaitSoftReset
  BY <1>11 DEF WaitSoftReset, intrVars, history
<1>12. CASE WaitClear
  BY <1>12 DEF WaitClear, chipVars, intrVars, history
<1>13. CASE WaitReturn
  BY <1>13 DEF WaitReturn, chipVars, intrVars
<1>14. CASE UNCHANGED vars
  BY <1>14 DEF vars, chipVars, intrVars, waitVars, history
<1> QED
  BY <1>1, <1>2, <1>3, <1>4, <1>5, <1>6, <1>7, <1>8, <1>9, <1>10, <1>11,
     <1>12, <1>13, <1>14
  DEF Next, IntrStep, WaitStep

\* The types hold initially.
LEMMA InitType == Init => TypeOK
<1> SUFFICES ASSUME Init PROVE TypeOK
  OBVIOUS
<1>1. 0 \in 0 .. MaxCmds /\ 0 \in 0 .. MaxCardEvents
  BY BoundsAssumption
<1>2. /\ outcome \in [Cmds -> Trans \cup {"none"}]
      /\ result \in [Cmds -> Results]
  BY DEF Init, Results
<1>3. cardPresent \in BOOLEAN /\ slot \in BOOLEAN
  BY DEF Init
<1> QED
  BY <1>1, <1>2, <1>3 DEF Init, TypeOK, Bits, Trans

\* rtsx.c keeps every variable of the handshake within its type.
THEOREM TypeCorrect == Spec => []TypeOK
BY InitType, TypeStep, PTL DEF Spec

-----------------------------------------------------------------------------
\* Until a wait times out, every step moves the completion to its next place.
LEMMA HandshakeStep ==
    ASSUME IInv, [Next]_vars, ~timedOut'
    PROVE  Handshake' /\ Agree'
<1> DEFINE Goal == Handshake' /\ Agree'
<1>0. ~timedOut /\ TypeOK /\ Handshake /\ Agree
  <2>1. timedOut => timedOut'
    BY DEF IInv, TypeOK, Next, IntrStep, WaitStep, ChipDone, CardEvent, IntrRead,
           IntrOr, IntrOrStore, IntrWakeup, Send, WaitTest, WaitSleep, WaitDeadline,
           WaitSoftReset, WaitClear, WaitReturn, history, vars
  <2> QED
    BY <2>1 DEF IInv
<1> USE DEF Handshake, Agree, Nowhere, InChip, InBipr, InIntr, InStatus, NoneOf,
            OnlyOf, Recording, Waiting, Closing, Returned
<1>1. ASSUME NEW bit \in Trans, ChipDone(bit) PROVE Goal
  BY <1>0, <1>1 DEF ChipDone, intrVars, waitVars, TypeOK, Cmds, Trans
<1>2. CASE CardEvent
  BY <1>0, <1>2 DEF CardEvent, intrVars, waitVars, history, Trans
<1>3. CASE IntrRead
  BY <1>0, <1>3 DEF IntrRead, waitVars, history, Trans
<1>4. CASE IntrOr
  BY <1>0, <1>4 DEF IntrOr, chipVars, waitVars, history
<1>5. CASE IntrOrStore
  BY <1>0, <1>5 DEF IntrOrStore, chipVars, waitVars, history
<1>6. CASE IntrWakeup
  BY <1>0, <1>6 DEF IntrWakeup, chipVars, history
<1>7. CASE Send
  BY <1>0, <1>7 DEF Send, intrVars, history, TypeOK, Cmds, Trans
<1>8. CASE WaitTest
  BY <1>0, <1>8 DEF WaitTest, chipVars, intrVars, history
<1>9. CASE WaitSleep
  BY <1>0, <1>9 DEF WaitSleep, chipVars, intrVars, history
<1>10. CASE WaitDeadline
  BY <1>10 DEF WaitDeadline
<1>11. CASE WaitSoftReset
  BY <1>0, <1>11 DEF WaitSoftReset
<1>12. CASE WaitClear
  BY <1>0, <1>12 DEF WaitClear, chipVars, intrVars, history
<1>13. CASE WaitReturn
  BY <1>0, <1>13 DEF WaitReturn, chipVars, intrVars, TypeOK, Cmds, Trans
<1>14. CASE UNCHANGED vars
  BY <1>0, <1>14 DEF vars, chipVars, intrVars, waitVars, history
<1> QED
  BY <1>1, <1>2, <1>3, <1>4, <1>5, <1>6, <1>7, <1>8, <1>9, <1>10, <1>11,
     <1>12, <1>13, <1>14
  DEF Next, IntrStep, WaitStep

\* The strengthening holds in every reachable state.
LEMMA Inductive == Spec => []IInv
<1>1. Init => IInv
  <2>2. Init => Handshake /\ Agree
    BY DEF Init, Handshake, Agree, Nowhere, NoneOf, Recording, Waiting, Closing,
           Returned, Cmds
  <2> QED
    BY <2>2, InitType DEF IInv
<1>2. IInv /\ [Next]_vars => IInv'
  BY TypeStep, HandshakeStep DEF IInv
<1> QED
  BY <1>1, <1>2, PTL DEF Spec

\* Until a wait times out, rtsx_wait_intr returns only when the chip has ended
\* the command it was called for, with the chip's own verdict, and no command
\* is sent to a chip that is busy: for any number of commands and card events.
THEOREM Exact == Spec => []ExactUntilTimeout
<1>1. IInv => ExactUntilTimeout
  BY DEF IInv, TypeOK, Handshake, Agree, Nowhere, ExactUntilTimeout, Returned, Trans
<1> QED
  BY <1>1, Inductive, PTL

-----------------------------------------------------------------------------
(***************************************************************************)
(* Successes are backed by completions, timeouts or not.  Sourced: every   *)
(* status bit, wherever it is, comes from a command that ended so, and it  *)
(* is Sourced alone that bounds what a success can stand for once a        *)
(* command has failed.  WaitShape: what the waiting thread has seen at     *)
(* each of its places.  Counted: as long as no command has failed, the     *)
(* completions that are still on their way, one at most in RTSX_BIPR, in   *)
(* the interrupt thread and in intr_status, and the successes already      *)
(* returned are no more than the commands that have ended well.            *)
(***************************************************************************)
Source(b, n) == \E d \in 1 .. n : outcome[d] = b
Pending == bipr \cup istatus \cup ival \cup intr_status \cup wstatus \cup wval

Sourced ==
    /\ chip = 0 \/ (chip = cmd /\ outcome[cmd] = "none")
    /\ \A c \in Cmds : c > cmd => outcome[c] = "none"
    /\ \A b \in Trans : b \in Pending => Source(b, cmd)
    /\ \A c \in Cmds : result[c] = "ok" => Source("OK", c)

WaitShape ==
    /\ Recording => istatus \cap Trans # {}
    /\ wpc \in {"sleep", "asleep", "deadline"} => wstatus = {}
    /\ Closing => IF werror = "none" THEN wstatus # {} ELSE wstatus = {}
    /\ wpc \in {"wait", "sleep", "asleep", "woken", "deadline"} => werror = "none"
    /\ wpc # "idle" => cmd \in Cmds /\ result[cmd] = "none"
    /\ \A c \in Cmds : c > cmd => result[c] = "none"

NoFailure == \A c \in Cmds : outcome[c] # "FAIL"
Succeeded == {c \in Cmds : result[c] = "ok"}
EndedWell == {c \in Cmds : outcome[c] = "OK"}

InBIPR   == IF "OK" \in bipr THEN 1 ELSE 0
InThread == IF Recording /\ "OK" \in istatus THEN 1 ELSE 0
InRecord == IF "OK" \in intr_status THEN 1 ELSE 0

Clearing ==
    /\ Closing => wstatus \subseteq intr_status
    /\ wpc = "clearstore" => wval \cap Trans \subseteq intr_status

Balance ==
    Cardinality(Succeeded) + InBIPR + InThread + InRecord <= Cardinality(EndedWell)

Counted == NoFailure => Clearing /\ Balance

IInvBacked == TypeOK /\ Sourced /\ WaitShape /\ Counted

\* Both sets of commands are finite: Cardinality counts them.
LEMMA CountsAreFinite ==
    ASSUME NEW S \in SUBSET Cmds
    PROVE  IsFiniteSet(S) /\ Cardinality(S) \in Nat
<1>1. IsFiniteSet(Cmds)
  BY FS_Interval, BoundsAssumption DEF Cmds
<1> QED
  BY <1>1, FS_Subset, FS_CardinalityType

\* Every step keeps every status bit accounted for.
LEMMA SourcedStep ==
    ASSUME TypeOK, Sourced, WaitShape, [Next]_vars
    PROVE  Sourced'
<1> USE BoundsAssumption DEF Sourced, Source, Pending, TypeOK, Cmds, Trans, Bits
<1>1. ASSUME NEW bit \in Trans, ChipDone(bit) PROVE Sourced'
  BY <1>1 DEF ChipDone, intrVars, waitVars
<1>2. CASE CardEvent
  BY <1>2 DEF CardEvent, intrVars, waitVars, history
<1>3. CASE IntrRead
  BY <1>3 DEF IntrRead, waitVars, history
<1>4. CASE IntrOr
  BY <1>4 DEF IntrOr, chipVars, waitVars, history
<1>5. CASE IntrOrStore
  BY <1>5 DEF IntrOrStore, chipVars, waitVars, history
<1>6. CASE IntrWakeup
  BY <1>6 DEF IntrWakeup, chipVars, history
<1>7. CASE Send
  BY <1>7 DEF Send, intrVars, history
<1>8. CASE WaitTest
  BY <1>8 DEF WaitTest, chipVars, intrVars, history
<1>9. CASE WaitSleep
  BY <1>9 DEF WaitSleep, chipVars, intrVars, history
<1>10. CASE WaitDeadline
  BY <1>10 DEF WaitDeadline, chipVars, intrVars
<1>11. CASE WaitSoftReset
  BY <1>11 DEF WaitSoftReset, intrVars, history
<1>12. CASE WaitClear
  BY <1>12 DEF WaitClear, chipVars, intrVars, history
<1>13. CASE WaitReturn
  <2>1. cmd \in Cmds /\ werror \in {"none", "ETIMEDOUT"} /\ wstatus \subseteq Trans
    BY <1>13 DEF WaitReturn, WaitShape
  <2>2. Pending' \subseteq Pending /\ UNCHANGED <<chip, cmd, outcome>>
    BY <1>13 DEF WaitReturn, chipVars, intrVars
  <2>3. result'[cmd] = "ok" => Source("OK", cmd)
    <3>1. CASE werror = "none"
      <4>1. wstatus # {}
        BY <1>13, <3>1 DEF WaitReturn, WaitShape, Closing
      <4>2. result'[cmd] = "ok" => "FAIL" \notin wstatus
        BY <1>13, <2>1, <3>1 DEF WaitReturn
      <4>3. result'[cmd] = "ok" => "OK" \in Pending
        BY <2>1, <4>1, <4>2
      <4> QED
        BY <4>3
    <3>2. CASE werror = "ETIMEDOUT"
      BY <1>13, <2>1, <3>2 DEF WaitReturn
    <3> QED
      BY <2>1, <3>1, <3>2
  <2>4. \A c \in Cmds : c # cmd => result'[c] = result[c]
    BY <1>13 DEF WaitReturn
  <2>5. \A c \in Cmds : result'[c] = "ok" => Source("OK", c)
    BY <2>3, <2>4 DEF Sourced
  <2> HIDE DEF Pending
  <2> QED
    BY <2>2, <2>5 DEF Sourced, Source
<1>14. CASE UNCHANGED vars
  BY <1>14 DEF vars, chipVars, intrVars, waitVars, history
<1> QED
  BY <1>1, <1>2, <1>3, <1>4, <1>5, <1>6, <1>7, <1>8, <1>9, <1>10, <1>11,
     <1>12, <1>13, <1>14
  DEF Next, IntrStep, WaitStep

\* Every step keeps the places of the waiting thread as WaitShape says.
LEMMA WaitShapeStep ==
    ASSUME TypeOK, WaitShape, [Next]_vars
    PROVE  WaitShape'
<1> USE BoundsAssumption DEF WaitShape, Recording, Closing, TypeOK, Cmds, Trans, Bits
<1>1. ASSUME NEW bit \in Trans, ChipDone(bit) PROVE WaitShape'
  BY <1>1 DEF ChipDone, intrVars, waitVars
<1>2. CASE CardEvent
  BY <1>2 DEF CardEvent, intrVars, waitVars, history
<1>3. CASE IntrRead
  BY <1>3 DEF IntrRead, waitVars, history
<1>4. CASE IntrOr
  BY <1>4 DEF IntrOr, chipVars, waitVars, history
<1>5. CASE IntrOrStore
  BY <1>5 DEF IntrOrStore, chipVars, waitVars, history
<1>6. CASE IntrWakeup
  BY <1>6 DEF IntrWakeup, chipVars, history
<1>7. CASE Send
  BY <1>7 DEF Send, intrVars, history
<1>8. CASE WaitTest
  BY <1>8 DEF WaitTest, chipVars, intrVars, history
<1>9. CASE WaitSleep
  BY <1>9 DEF WaitSleep, chipVars, intrVars, history
<1>10. CASE WaitDeadline
  BY <1>10 DEF WaitDeadline, chipVars, intrVars
<1>11. CASE WaitSoftReset
  BY <1>11 DEF WaitSoftReset, intrVars, history
<1>12. CASE WaitClear
  BY <1>12 DEF WaitClear, chipVars, intrVars, history
<1>13. CASE WaitReturn
  BY <1>13 DEF WaitReturn, chipVars, intrVars
<1>14. CASE UNCHANGED vars
  BY <1>14 DEF vars, chipVars, intrVars, waitVars, history
<1> QED
  BY <1>1, <1>2, <1>3, <1>4, <1>5, <1>6, <1>7, <1>8, <1>9, <1>10, <1>11,
     <1>12, <1>13, <1>14
  DEF Next, IntrStep, WaitStep

\* Without a failure there is no failure bit anywhere.
LEMMA OnlySuccess ==
    ASSUME TypeOK, Sourced, NoFailure
    PROVE  "FAIL" \notin Pending
<1>1. "FAIL" \in Pending => Source("FAIL", cmd)
  BY DEF Sourced, Trans
<1> QED
  BY <1>1, BoundsAssumption DEF Source, NoFailure, TypeOK, Cmds

\* A step that ends no command and returns from no wait changes no count.
LEMMA SameCounts ==
    ASSUME UNCHANGED <<outcome, result>>
    PROVE  /\ NoFailure' = NoFailure
           /\ Cardinality(Succeeded') = Cardinality(Succeeded)
           /\ Cardinality(EndedWell') = Cardinality(EndedWell)
BY DEF NoFailure, Succeeded, EndedWell

\* The balance of successes and completions is kept while no command fails: a
\* completion adds one on both sides, a status bit moves or is lost, and a wait
\* that succeeds has cleared the bit that it counts.
LEMMA CountedStep ==
    ASSUME TypeOK, Sourced, WaitShape, Counted, [Next]_vars
    PROVE  Counted'
<1> SUFFICES ASSUME NoFailure' PROVE Clearing' /\ Balance'
  BY DEF Counted
<1> DEFINE Goal == Clearing' /\ Balance'
<1>a. Succeeded \in SUBSET Cmds /\ EndedWell \in SUBSET Cmds
  BY DEF Succeeded, EndedWell
<1>b. /\ Cardinality(Succeeded) \in Nat /\ IsFiniteSet(Succeeded)
      /\ Cardinality(EndedWell) \in Nat /\ IsFiniteSet(EndedWell)
  BY <1>a, CountsAreFinite
<1> USE DEF Clearing, Balance, InBIPR, InThread, InRecord, Recording, Closing
<1> HIDE DEF Goal
<1>1. ASSUME NEW bit \in Trans, ChipDone(bit) PROVE Goal
  <2>1. chip \in Cmds /\ outcome[chip] = "none" /\ outcome \in [Cmds -> Trans \cup {"none"}]
    BY <1>1 DEF ChipDone, TypeOK, Sourced
  <2>2. outcome' = [outcome EXCEPT ![chip] = bit] /\ result' = result /\ bipr' = bipr \cup {bit}
        /\ UNCHANGED <<ipc, istatus, intr_status, wpc, wstatus, wval>>
    BY <1>1 DEF ChipDone, intrVars, waitVars
  <2>3. NoFailure /\ bit = "OK"
    BY <2>1, <2>2 DEF NoFailure, Trans
  <2>4. EndedWell' = EndedWell \cup {chip} /\ chip \notin EndedWell
    BY <2>1, <2>2, <2>3 DEF EndedWell
  <2>5. Cardinality(EndedWell') = Cardinality(EndedWell) + 1
    BY <2>4, <1>b, FS_AddElement
  <2>6. Succeeded' = Succeeded
    BY <2>2 DEF Succeeded
  <2>7. Clearing'
    BY <2>2, <2>3 DEF Counted
  <2>8. Balance'
    BY <2>2, <2>3, <2>5, <2>6, <1>b DEF Counted
  <2> QED
    BY <2>7, <2>8 DEF Goal
<1>2. CASE CardEvent
  BY <1>2, <1>b, SameCounts DEF CardEvent, intrVars, waitVars, history, Counted, Goal
<1>3. CASE IntrRead
  <2>1. NoFailure /\ Balance /\ Clearing
    BY <1>3, SameCounts DEF IntrRead, history, Counted
  <2>2. /\ InThread = 0 /\ InBIPR' = 0 /\ InRecord' = InRecord /\ InThread' <= InBIPR
        /\ UNCHANGED <<wpc, wstatus, wval, intr_status>>
    BY <1>3 DEF IntrRead, waitVars
  <2>3. InBIPR \in {0, 1} /\ InRecord \in {0, 1} /\ InThread' \in {0, 1}
    OBVIOUS
  <2>4. Balance'
    <3> HIDE DEF InBIPR, InThread, InRecord
    <3> QED
      BY <1>3, <1>b, <2>1, <2>2, <2>3, SameCounts DEF IntrRead, history
  <2>5. Clearing'
    BY <2>1, <2>2
  <2> QED
    BY <2>4, <2>5 DEF Goal
<1>4. CASE IntrOr
  BY <1>4, <1>b, SameCounts DEF IntrOr, chipVars, waitVars, history, Counted, Goal
<1>5. CASE IntrOrStore
  <2>1. NoFailure
    BY <1>5, SameCounts DEF IntrOrStore, history
  <2>2. "OK" \in istatus /\ "FAIL" \notin Pending
    BY <2>1, <1>5, OnlySuccess DEF IntrOrStore, WaitShape, Pending, Trans
  <2> QED
    BY <1>5, <1>b, <2>1, <2>2, SameCounts
    DEF IntrOrStore, chipVars, waitVars, history, Counted, Pending, TypeOK, Trans, Goal
<1>6. CASE IntrWakeup
  BY <1>6, <1>b, SameCounts DEF IntrWakeup, chipVars, history, Counted, Goal
<1>7. CASE Send
  BY <1>7, <1>b, SameCounts DEF Send, intrVars, history, Counted, Goal
<1>8. CASE WaitTest
  BY <1>8, <1>b, SameCounts DEF WaitTest, chipVars, intrVars, history, Counted, Goal
<1>9. CASE WaitSleep
  BY <1>9, <1>b, SameCounts DEF WaitSleep, chipVars, intrVars, history, Counted, Goal
<1>10. CASE WaitDeadline
  BY <1>10, <1>b, SameCounts DEF WaitDeadline, chipVars, intrVars, Counted, Goal
<1>11. CASE WaitSoftReset
  BY <1>11, <1>b, SameCounts DEF WaitSoftReset, intrVars, history, Counted, WaitShape, Goal
<1>12. CASE WaitClear
  BY <1>12, <1>b, SameCounts DEF WaitClear, chipVars, intrVars, history, Counted, Goal
<1>13. CASE WaitReturn
  <2>1. cmd \in Cmds /\ result[cmd] = "none" /\ result \in [Cmds -> Results]
    BY <1>13 DEF WaitReturn, WaitShape, TypeOK
  <2>2. NoFailure /\ EndedWell' = EndedWell
    BY <1>13 DEF WaitReturn, NoFailure, EndedWell
  <2>3. wval \cap Trans \subseteq intr_status /\ wstatus \subseteq intr_status /\ Balance
    BY <1>13, <2>2 DEF WaitReturn, Counted
  <2>4. wpc' = "idle" /\ UNCHANGED <<bipr, ipc, istatus>> /\ intr_status' = wval \ wstatus
    BY <1>13 DEF WaitReturn, chipVars, intrVars
  <2>5. CASE result'[cmd] = "ok"
    <3>1. Succeeded' = Succeeded \cup {cmd} /\ cmd \notin Succeeded
      BY <1>13, <2>1, <2>5 DEF WaitReturn, Succeeded
    <3>2. Cardinality(Succeeded') = Cardinality(Succeeded) + 1
      BY <3>1, <1>b, FS_AddElement
    <3>3. werror = "none"
      BY <1>13, <2>1, <2>5 DEF WaitReturn, TypeOK
    <3>4. wstatus # {} /\ wstatus \subseteq Trans /\ "FAIL" \notin wstatus
      BY <1>13, <2>2, <3>3, OnlySuccess DEF WaitReturn, WaitShape, TypeOK, Pending
    <3>5. "OK" \in wstatus
      BY <3>4 DEF Trans
    <3>6. Balance'
      BY <3>2, <3>5, <2>2, <2>3, <2>4, <1>b
    <3> QED
      BY <3>6, <2>4 DEF Goal
  <2>6. CASE result'[cmd] # "ok"
    <3>1. Succeeded' = Succeeded
      BY <1>13, <2>1, <2>6 DEF WaitReturn, Succeeded
    <3>2. Balance'
      BY <3>1, <2>2, <2>3, <2>4, <1>b DEF Trans
    <3> QED
      BY <3>2, <2>4 DEF Goal
  <2> QED
    BY <2>5, <2>6
<1>14. CASE UNCHANGED vars
  BY <1>14, <1>b, SameCounts DEF vars, chipVars, intrVars, waitVars, history, Counted, Goal
<1> QED
  BY <1>1, <1>2, <1>3, <1>4, <1>5, <1>6, <1>7, <1>8, <1>9, <1>10, <1>11,
     <1>12, <1>13, <1>14
  DEF Next, IntrStep, WaitStep, Goal

\* A wait that succeeds comes after a command that the chip has ended well, and
\* while the chip has failed none each completion is counted once, whatever
\* times out: for any number of commands.
THEOREM Backed == Spec => []SuccessesBacked
<1>1. Init => IInvBacked
  <2> SUFFICES ASSUME Init PROVE IInvBacked
    OBVIOUS
  <2>1. Sourced
    BY DEF Init, Sourced, Pending, Trans
  <2>2. WaitShape
    BY DEF Init, WaitShape, Recording, Closing
  <2>3. Succeeded = {}
    BY DEF Init, Succeeded
  <2>4. Cardinality(EndedWell) \in Nat
    BY CountsAreFinite DEF EndedWell
  <2>5. Counted
    BY <2>3, <2>4, FS_EmptySet
    DEF Init, Counted, Clearing, Closing, Balance, InBIPR, InThread, InRecord, Recording
  <2> QED
    BY <2>1, <2>2, <2>5, InitType DEF IInvBacked
<1>2. IInvBacked /\ [Next]_vars => IInvBacked'
  BY TypeStep, SourcedStep, WaitShapeStep, CountedStep DEF IInvBacked
<1>3. IInvBacked => SuccessesBacked
  <2> SUFFICES ASSUME IInvBacked PROVE SuccessesBacked
    OBVIOUS
  <2>1. \A c \in Cmds : result[c] = "ok" => \E d \in 1 .. c : outcome[d] = "OK"
    BY DEF IInvBacked, Sourced, Source
  <2>2. ASSUME NoFailure PROVE Cardinality(Succeeded) <= Cardinality(EndedWell)
    <3>1. Cardinality(Succeeded) \in Nat /\ Cardinality(EndedWell) \in Nat
      BY CountsAreFinite DEF Succeeded, EndedWell
    <3> QED
      BY <2>2, <3>1 DEF IInvBacked, Counted, Balance, InBIPR, InThread, InRecord
  <2> QED
    BY <2>1, <2>2 DEF SuccessesBacked, NoFailure, Succeeded, EndedWell
<1> QED
  BY <1>1, <1>2, <1>3, PTL DEF Spec
=============================================================================
