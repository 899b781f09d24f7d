---------------------------- MODULE CardInit_proofs ----------------------------
(***************************************************************************)
(* Theorems about CardInit, for any kinds, number of cards, tries and      *)
(* faults.                                                                 *)
(***************************************************************************)
EXTENDS CardInit, TLAPS

DisableLabels == {"deselect", "clockoff", "poweroff"}
FunctionLabels == {"select", "blocklen", "attach", "attached", "deselect"} \cup SdLabels
                  \cup MmcLabels

\* the card in the slot is the one that the function was made for
Ours == card.kind # "none" /\ card.id = fn

\* The types of what the argument is about
Known == card \in Cards /\ inserted \in 0 .. MaxInserts /\ fn \in 0 .. MaxInserts

\* A card that is inserted is no card that was there before.
Fresh ==
    /\ fn <= inserted /\ card.id <= inserted
    /\ card.kind # "none" => card.id # 0

\* sc_card is set while a function is in use, and is that function.
Selected == scCard # 0 => scCard = fn /\ pc \in FunctionLabels

\* There is no function before the scan, nor if sdmmc_enable has failed.
NoFunctionYet ==
    /\ pc \in EnableLabels \cup {"idle"} => fn = 0
    /\ pc \in DisableLabels /\ unwinding = "enable" => fn = 0

\* A card has a function only once it has an address, and loses its address
\* only with its function.
Addressed == Ours => card.state \in {"stby", "tran"}

\* Clocks: 400 kHz until the scan is over, and no more than 25 MHz for a card
\* that has not switched; a switch may only have been without memory.
Slow == pc \in (EnableLabels \cup ScanLabels) \ {"power", "clock"} => clock = 400
Limited == Ours => clock <= 50000 /\ (~card.hs /\ ~starved => clock <= 25000)
Switched == pc = "hsclock" /\ Ours => card.hs \/ starved

IInv == /\ Known /\ Fresh /\ Selected /\ NoFunctionYet /\ Addressed
        /\ Slow /\ Limited /\ Switched /\ OffWhenIdle

-----------------------------------------------------------------------------
\* What rtsx_bus_clock makes of the frequencies that the driver asks for
LEMMA RoundDownFreqs ==
    /\ RoundDown(400) = 400 /\ RoundDown(20000) = 400 /\ RoundDown(25000) = 25000
    /\ RoundDown(26000) = 25000 /\ RoundDown(50000) = 50000
BY DEF RoundDown

\* The initial states satisfy the invariant.
LEMMA InitIInv == Init => IInv
<1> SUFFICES ASSUME Init PROVE IInv
  OBVIOUS
<1> USE CardAssumption
<1>1. Known
  BY DEF Init, Known, NoCard, Cards
<1>2. Fresh /\ Selected /\ NoFunctionYet /\ Addressed /\ Slow /\ Limited /\ Switched
  BY DEF Init, NoCard, Fresh, Selected, NoFunctionYet, Addressed, Slow, Limited,
         Switched, Ours, EnableLabels, ScanLabels, DisableLabels
<1>3. OffWhenIdle
  BY DEF Init, OffWhenIdle
<1> QED
  BY <1>1, <1>2, <1>3 DEF IInv

\* A card that starts again is the same card.
SameCard == card' \in Cards /\ card'.id = card.id /\ card'.kind = card.kind

\* Power and GO_IDLE_STATE start a card again.
LEMMA RestartedCard ==
    ASSUME NEW on \in BOOLEAN, card \in Cards, card' = Restarted(card, on) PROVE SameCard
BY DEF Restarted, Cards, SameCard

\* Where there is no function, nothing that happens to the card matters.
LEMMA WithoutFunction ==
    ASSUME IInv, SameCard, fn' = 0, scCard' = 0, inserted' = inserted, Slow', OffWhenIdle'
    PROVE  IInv'
<1>1. Known' /\ Fresh'
  BY CardAssumption DEF IInv, Known, Fresh, SameCard, Cards
<1>2. ~Ours'
  BY DEF IInv, Fresh, SameCard, Ours
<1>3. Selected' /\ NoFunctionYet' /\ Addressed' /\ Limited' /\ Switched'
  BY <1>2 DEF Selected, NoFunctionYet, Addressed, Limited, Switched
<1> QED
  BY <1>1, <1>3 DEF IInv

\* The steps that may restart the card keep the invariant: the first power on,
LEMMA EnablePowerInv == IInv /\ EnablePower => IInv'
<1> SUFFICES ASSUME IInv, EnablePower PROVE IInv'
  OBVIOUS
<1>1. SameCard
  <2>1. card' = card \/ \E on \in BOOLEAN : card' = Restarted(card, on)
    BY DEF EnablePower, BusPowerOn, BusPowerFails
  <2> QED
    BY <2>1, RestartedCard DEF IInv, Known, SameCard
<1>2. fn' = 0 /\ scCard' = 0 /\ inserted' = inserted
  BY DEF EnablePower, fnVars, IInv, NoFunctionYet, Selected, FunctionLabels, EnableLabels,
         SdLabels, MmcLabels
<1>3. pc' \in {"clock", "deselect"}
  BY DEF EnablePower, BusPowerOn, BusPowerFails, Goto, Disable
<1>4. Slow' /\ OffWhenIdle'
  BY <1>3 DEF Slow, OffWhenIdle, EnableLabels, ScanLabels
<1> QED
  BY <1>1, <1>2, <1>4, WithoutFunction

\* ... the power for the voltages that card and host have in common
LEMMA SetVoltageInv == IInv /\ SetVoltage => IInv'
<1> SUFFICES ASSUME IInv, SetVoltage PROVE IInv'
  OBVIOUS
<1>1. SameCard
  <2>1. card' = card \/ \E on \in BOOLEAN : card' = Restarted(card, on)
    BY DEF SetVoltage, BusPowerOn, BusPowerFails
  <2> QED
    BY <2>1, RestartedCard DEF IInv, Known, SameCard
<1>2. fn' = 0 /\ scCard' = 0 /\ inserted' = inserted
  BY DEF SetVoltage, fnVars, IInv, NoFunctionYet, Selected, FunctionLabels, EnableLabels,
         SdLabels, MmcLabels
<1>3. pc' \in {"idle2", "deselect"} /\ clock' = clock
  BY DEF SetVoltage, BusPowerOn, BusPowerFails, Goto, Disable, hostVars
<1>4. Slow' /\ OffWhenIdle'
  BY <1>3 DEF SetVoltage, IInv, Slow, OffWhenIdle, EnableLabels, ScanLabels
<1> QED
  BY <1>1, <1>2, <1>4, WithoutFunction

\* ... GO_IDLE_STATE
LEMMA GoIdleInv ==
    ASSUME IInv, NEW from \in {"idle1", "idle2"}, NEW to \in {"ocr0", "ifcond"},
           GoIdle(from, to)
    PROVE  IInv'
<1>1. SameCard
  <2>1. card' = card \/ card' = Restarted(card, TRUE)
    BY DEF GoIdle, Exchange
  <2> QED
    BY <2>1, RestartedCard DEF IInv, Known, SameCard
<1>2. fn' = 0 /\ scCard' = 0 /\ inserted' = inserted
  BY DEF GoIdle, fnVars, IInv, NoFunctionYet, Selected, FunctionLabels, EnableLabels,
         SdLabels, MmcLabels
<1>3. pc = from /\ pc' = to /\ clock' = clock
  BY DEF GoIdle, Exchange, Goto, hostVars
<1>4. Slow' /\ OffWhenIdle'
  BY <1>3 DEF IInv, Slow, OffWhenIdle, EnableLabels, ScanLabels
<1> QED
  BY <1>1, <1>2, <1>4, WithoutFunction

\* ... and the power off
LEMMA PowerOffInv == IInv /\ PowerOff => IInv'
<1> SUFFICES ASSUME IInv, PowerOff PROVE IInv'
  OBVIOUS
<1>1. SameCard
  <2>1. card' = card \/ card' = Restarted(card, FALSE)
    BY DEF PowerOff
  <2> QED
    BY <2>1, RestartedCard DEF IInv, Known, SameCard
<1>2. fn' = 0 /\ scCard' = 0 /\ inserted' = inserted
  <2>1. scCard = 0
    BY DEF PowerOff, IInv, Selected, FunctionLabels, SdLabels, MmcLabels
  <2>2. unwinding = "enable" => fn = 0
    BY DEF PowerOff, IInv, NoFunctionYet, DisableLabels
  <2> QED
    BY <2>1, <2>2 DEF PowerOff, Disabled, fnVars
<1>3. Slow'
  BY DEF PowerOff, Disabled, Goto, Slow, EnableLabels, ScanLabels
<1>4. OffWhenIdle'
  BY <1>2 DEF PowerOff, OffWhenIdle
<1> QED
  BY <1>1, <1>2, <1>3, <1>4, WithoutFunction

\* The switch to high speed: the host goes on only if the card has switched, or
\* if there was no memory to ask it.
LEMMA SwitchSetInv == IInv /\ SwitchSet => IInv'
<1> SUFFICES ASSUME IInv, SwitchSet PROVE IInv'
  OBVIOUS
<1>1. card' = card \/ card' = [card EXCEPT !.hs = TRUE]
  BY DEF SwitchSet, SwitchResults, NoMemory, Exchange
<1>0. starved => starved'
  BY DEF SwitchSet, NoMemory
<1>2. SameCard /\ card'.state = card.state /\ (card.hs => card'.hs)
  BY <1>1 DEF IInv, Known, Cards, SameCard
<1>3. pc = "switch1" /\ pc' \in {"hsclock", "attach"}
  BY DEF SwitchSet, SwitchResults, NoMemory, Exchange, Goto, InitReturns
<1>4. pc' = "hsclock" => card'.hs \/ starved'
  <2>1. CASE NoMemory
    BY <2>1 DEF NoMemory
  <2>2. ASSUME NEW after \in SwitchResults, starved' = starved, pc' = "hsclock",
               Exchange(DataAnswered, after, Goto("hsclock") /\ UNCHANGED initOk, InitReturns(FALSE))
        PROVE  card'.hs \/ starved'
    <3>1. card' = after
      BY <2>2 DEF Exchange, InitReturns, Goto
    <3>2. after = [card EXCEPT !.hs = TRUE] \/ starved
      BY DEF SwitchResults
    <3>3. [card EXCEPT !.hs = TRUE].hs
      BY DEF IInv, Known, Cards
    <3> QED
      BY <2>2, <3>1, <3>2, <3>3
  <2> QED
    BY <2>1, <2>2 DEF SwitchSet
<1>5. fn' = fn /\ scCard' = scCard /\ inserted' = inserted /\ clock' = clock
  BY DEF SwitchSet, hostVars
<1>6. Known' /\ Fresh'
  BY <1>2, <1>5 DEF IInv, Known, Fresh, SameCard
<1>7. Selected' /\ NoFunctionYet'
  BY <1>3, <1>5 DEF IInv, Selected, NoFunctionYet, FunctionLabels, SdLabels, DisableLabels,
     EnableLabels
<1>8. Addressed' /\ Limited' /\ Switched'
  <2>1. Ours' => Ours
    BY <1>2, <1>5 DEF Ours, SameCard
  <2>2. Addressed'
    BY <1>2, <2>1 DEF IInv, Addressed
  <2>3. Limited'
    <3>1. Ours' => clock' <= 50000 /\ (~card.hs /\ ~starved => clock' <= 25000)
      BY <1>5, <2>1 DEF IInv, Limited
    <3> QED
      BY <1>0, <1>2, <3>1 DEF Limited
  <2>4. Switched'
    BY <1>4 DEF Switched
  <2> QED
    BY <2>2, <2>3, <2>4
<1>9. Slow' /\ OffWhenIdle'
  BY <1>3 DEF Slow, OffWhenIdle, EnableLabels, ScanLabels
<1> QED
  BY <1>6, <1>7, <1>8, <1>9 DEF IInv

\* Every step keeps the invariant: first the steps of the lemmas above.
LEMMA InvStep == IInv /\ [Next]_vars => IInv'
<1> SUFFICES ASSUME IInv, [Next]_vars PROVE IInv'
  OBVIOUS
<1>1. CASE EnablePower
  BY <1>1, EnablePowerInv
<1>2. ASSUME NEW from \in {"idle1", "idle2"}, NEW to \in {"ocr0", "ifcond"},
            GoIdle(from, to) PROVE IInv'
  BY <1>2, GoIdleInv
<1>3. CASE SetVoltage
  BY <1>3, SetVoltageInv
<1>4. CASE SwitchSet
  BY <1>4, SwitchSetInv
<1>5. CASE PowerOff
  BY <1>5, PowerOffInv
<1> USE CardAssumption DEF IInv, Known, Fresh, Selected, NoFunctionYet, Addressed, Slow,
        Limited, Switched, OffWhenIdle, Ours, FunctionLabels, DisableLabels,
        EnableLabels, ScanLabels, SdLabels, MmcLabels, Freqs, Cards, fnVars, hostVars, ctlVars
<1>6. CASE EnableClock
  BY <1>6, RoundDownFreqs DEF EnableClock, BusClock, Goto, Disable
<1>7. CASE OcrQuery
  BY <1>7 DEF OcrQuery, Exchange, Answers, Goto, Disable, OcrAnswered
<1>8. CASE SendIfCond
  BY <1>8 DEF SendIfCond, Exchange, Answers, Goto
<1>9. CASE OcrReady
  BY <1>9 DEF OcrReady, Exchange, Answers, Goto, Disable, OcrAnswered
<1>10. CASE OcrBusy
  BY <1>10 DEF OcrBusy, Answers, Goto, Disable
<1>11. CASE AllSendCid
  BY <1>11 DEF AllSendCid, Exchange, Answers, Goto
<1>12. CASE SetRelativeAddr
  BY <1>12 DEF SetRelativeAddr, Exchange, Answers, Goto
<1>13. CASE NoFunction
  BY <1>13 DEF NoFunction, Disable
<1>14. CASE SendCsd
  BY <1>14 DEF SendCsd, Exchange, Answers, Goto
<1>15. CASE Select
  BY <1>15 DEF Select, Exchange, Answers, Goto, AfterSelect
<1>16. CASE SetBlocklen
  BY <1>16 DEF SetBlocklen, Exchange, Answers, Goto, AfterSelect
<1>17. CASE SdClock
  BY <1>17, RoundDownFreqs DEF SdClock, BusClock, Goto, InitReturns
<1>18. CASE SendScr
  BY <1>18 DEF SendScr, DecodeScr, Exchange, Answers, Goto, InitReturns, AppAnswered, DataAnswered
<1>19. CASE SetCardWidth
  BY <1>19 DEF SetCardWidth, Exchange, Answers, Goto, InitReturns, AppAnswered
<1>20. CASE SetHostWidth
  BY <1>20 DEF SetHostWidth, BusWidth, InitReturns, Goto
<1>21. CASE SwitchQuery
  BY <1>21 DEF SwitchQuery, NoMemory, Exchange, Answers, Goto, InitReturns, DataAnswered
<1>22. CASE HighSpeedClock
  BY <1>22, RoundDownFreqs DEF HighSpeedClock, BusClock, InitReturns, Goto
<1>23. CASE MmcClock
  BY <1>23, RoundDownFreqs DEF MmcClock, BusClock, InitReturns, Goto
<1>24. CASE ReadExtCsd
  BY <1>24 DEF ReadExtCsd, Exchange, Answers, Goto, InitReturns, DataAnswered
<1>25. CASE MmcClockByType
  BY <1>25, RoundDownFreqs DEF MmcClockByType, BusClock, InitReturns, Goto
<1>26. CASE MmcCardWidth
  BY <1>26 DEF MmcCardWidth, Exchange, Answers, Goto, InitReturns
<1>27. CASE MmcHostWidth
  BY <1>27 DEF MmcHostWidth, BusWidth, InitReturns, Goto
<1>28. CASE Attach
  BY <1>28 DEF Attach, Goto, Disable
<1>29. CASE Deselect
  BY <1>29 DEF Deselect, Exchange, Answers, Goto
<1>30. CASE ClockOff
  BY <1>30 DEF ClockOff, Goto
<1>31. CASE InsertCard
  BY <1>31 DEF InsertCard
<1>32. CASE RemoveCard
  BY <1>32 DEF RemoveCard, NoCard
<1>33. CASE Begin
  BY <1>33 DEF Begin, Goto
<1>34. CASE CardDetach
  BY <1>34 DEF CardDetach, Disable
<1>35. CASE UNCHANGED vars
  BY <1>35 DEF vars
<1> QED
  BY <1>1, <1>2, <1>3, <1>4, <1>5, <1>6, <1>7, <1>8, <1>9, <1>10, <1>11, <1>12,
     <1>13, <1>14, <1>15, <1>16, <1>17, <1>18, <1>19, <1>20, <1>21, <1>22,
     <1>23, <1>24, <1>25, <1>26, <1>27, <1>28, <1>29, <1>30, <1>31, <1>32,
     <1>33, <1>34, <1>35
  DEF Next, DriverStep, EnableStep, ScanStep, InitStep, SdInitStep, MmcInitStep, DetachStep

\* What IInv says, it says of every reachable state.
LEMMA Invariant == Spec => []IInv
BY InitIInv, InvStep, PTL DEF Spec

-----------------------------------------------------------------------------
\* sc_card never outlives the function it points to.
THEOREM NoDangling == Spec => []NoDanglingCard
<1>1. IInv => NoDanglingCard
  BY DEF IInv, Selected, NoDanglingCard
<1> QED
  BY Invariant, <1>1, PTL

\* No card is sent a command at a clock that is too fast for it, whatever commands
\* and settings fail and whenever cards are swapped, unless sdmmc_mem_sd_switch has
\* had no memory for its buffer.
THEOREM NotOverclocked == Spec => []NeverOverclocked
<1>1. IInv => NeverOverclocked
  <2> SUFFICES ASSUME IInv, card.kind # "none", ~starved,
                      card.id = fn \/ pc \in (EnableLabels \cup ScanLabels) \ {"power", "clock"}
               PROVE  clock <= ClockLimit
    BY DEF NeverOverclocked
  <2>1. CASE card.id = fn
    BY <2>1 DEF IInv, Addressed, Limited, Ours, ClockLimit
  <2>2. CASE pc \in (EnableLabels \cup ScanLabels) \ {"power", "clock"}
    BY <2>2 DEF IInv, Slow, ClockLimit
  <2> QED
    BY <2>1, <2>2
<1> QED
  BY Invariant, <1>1, PTL

\* A card that is given up is left without power and its function freed.
THEOREM LeftOff == Spec => []OffWhenIdle
<1>1. IInv => OffWhenIdle
  BY DEF IInv
<1> QED
  BY Invariant, <1>1, PTL

-----------------------------------------------------------------------------
(***************************************************************************)
(* CardAndHostAgree, on top of the invariant above.  The card starts       *)
(* again, 1 bit wide, as the bus gets power, answers in one mode only, and *)
(* is widened before the host.                                             *)
(***************************************************************************)

StartLabels  == {"clock", "idle1", "ocr0", "volt", "idle2", "ifcond"}
NarrowLabels == (EnableLabels \ {"power"}) \cup ScanLabels
                \cup {"select", "blocklen", "sdclock", "scr", "width",
                      "mmcclock", "extcsd", "mmcclock2", "mmcwidth"}
InUse        == {"select", "blocklen", "attach", "attached"} \cup SdLabels \cup MmcLabels

NoneIsNoCard == card.kind = "none" => card = NoCard

\* Only a card of the mode that was found becomes ready.
Mode ==
    /\ pc \in StartLabels => card.state \in {"off", "idle"}
    /\ card.state \notin {"off", "idle"} => IsSD(card) = sdMode
    /\ (pc \in SdLabels => sdMode) /\ (pc \in MmcLabels => ~sdMode)

\* The card is widened first, the host next.
Widths ==
    /\ pc \in NarrowLabels => width = 1 /\ card.width = 1
    /\ pc \in {"hostwidth", "mmchostwidth"} /\ Ours => card.width = 4
    /\ pc \in {"switch0", "switch1", "hsclock"} /\ Ours => width = card.width
    /\ pc \in {"attach", "attached"} /\ initOk /\ Ours => width = card.width

\* What the CSD, and later the EXT_CSD, have told of the card
Addressing ==
    /\ pc \in InUse => fn # 0
    /\ pc \in InUse /\ Ours /\ ~fnError => fnExtCsd = (card.kind = "MMC4")
    /\ pc \in {"extcsd", "mmcclock2", "mmcwidth", "mmchostwidth"} => fnExtCsd
    /\ pc \in InUse \ {"attach", "attached"} /\ Ours /\ ~fnError =>
          fnSdhc = (card.kind = "SDHC")
    /\ pc \in {"attach", "attached"} /\ initOk /\ Ours /\ ~fnError =>
          fnSdhc = (card.kind \in {"SDHC", "MMC4"})
    /\ pc = "attached" => ~fnError

Agreement == NoneIsNoCard /\ Mode /\ Widths /\ Addressing

\* The types of the rest: Known has those of card, inserted and fn.
Places  == pc \in Labels /\ unwinding \in {"enable", "detach"}
Counts  == /\ tries \in 0 .. OpCondTries /\ (pc = "ocr" => tries < OpCondTries)
           /\ scCard \in 0 .. MaxInserts /\ faults \in 0 .. MaxFaults
Flags   == sdMode \in BOOLEAN /\ hcs \in BOOLEAN
FnFlags == /\ fnError \in BOOLEAN /\ fnSdhc \in BOOLEAN
           /\ fnExtCsd \in BOOLEAN /\ starved \in BOOLEAN /\ initOk \in BOOLEAN
Host    == /\ power \in BOOLEAN /\ run \in BOOLEAN /\ width \in {1, 4}
           /\ hostFault \in BOOLEAN
Speed   == clock \in Freqs

Scalars == Places /\ Counts /\ Flags /\ FnFlags /\ Host /\ Speed

-----------------------------------------------------------------------------
\* The labels that the actions go to
LEMMA AllLabels ==
    {"power", "clock", "idle1", "ocr0", "volt", "idle2", "ifcond", "ocr", "cid",
     "rca", "csd", "sdclock", "scr", "width", "hostwidth", "switch0",
     "switch1", "hsclock", "mmcclock", "extcsd", "mmcclock2", "mmcwidth",
     "mmchostwidth", "idle", "select", "blocklen", "attach", "attached",
     "deselect", "clockoff", "poweroff"}
    \subseteq Labels
BY DEF Labels, EnableLabels, ScanLabels, SdLabels, MmcLabels

\* The frequencies that the driver asks for
LEMMA FreqsHit ==
    /\ RoundDown(400) \in Freqs /\ RoundDown(20000) \in Freqs /\ RoundDown(25000) \in Freqs
    /\ RoundDown(26000) \in Freqs /\ RoundDown(50000) \in Freqs
BY DEF RoundDown, Freqs

\* The initial states satisfy both invariants.
LEMMA AgreementInit == Init => Scalars /\ Agreement
<1> SUFFICES ASSUME Init PROVE Scalars /\ Agreement
  OBVIOUS
<1>1. Scalars
  <2>1. Places /\ Flags /\ FnFlags /\ Host
    BY AllLabels DEF Init, Places, Flags, FnFlags, Host
  <2>2. Counts /\ Speed
    BY CardAssumption DEF Init, Counts, Speed
  <2> QED
    BY <2>1, <2>2 DEF Scalars
<1>2. Agreement
  BY DEF Init, Agreement, NoneIsNoCard, Mode, Widths, Addressing, NoCard,
         StartLabels, NarrowLabels, InUse, EnableLabels, ScanLabels, SdLabels, MmcLabels
<1> QED
  BY <1>1, <1>2

-----------------------------------------------------------------------------
\* Every step keeps the types, part by part: the place of the task thread,
LEMMA PlacesStep ==
    ASSUME IInv, Places, [Next]_vars
    PROVE  Places'
<1> USE AllLabels DEF Places, fnVars, hostVars, ctlVars
<1>1. CASE EnableStep
  BY <1>1 DEF EnableStep, EnablePower, BusPowerOn, BusPowerFails, Goto, Disable,
     EnableClock, BusClock, GoIdle, Exchange, OcrQuery, Answers, OcrAnswered, SetVoltage,
     SendIfCond, OcrReady, OcrBusy
<1>2. CASE ScanStep
  BY <1>2 DEF ScanStep, AllSendCid, Exchange, Answers, Goto, SetRelativeAddr, NoFunction,
     Disable, SendCsd
<1>3. CASE SdInitStep
  BY <1>3 DEF SdInitStep, SdClock, BusClock, Goto, InitReturns, SendScr, DecodeScr, Exchange,
     Answers, AppAnswered, DataAnswered, SetCardWidth, SetHostWidth, BusWidth,
     SwitchQuery, SwitchSet, SwitchResults, NoMemory, HighSpeedClock
<1>4. CASE MmcInitStep
  BY <1>4 DEF MmcInitStep, MmcClock, BusClock, InitReturns, Goto, ReadExtCsd, Exchange,
     Answers, DataAnswered, MmcClockByType, MmcCardWidth, MmcHostWidth, BusWidth
<1>5. CASE Select
  BY <1>5 DEF Select, Exchange, Answers, Goto, AfterSelect
<1>6. CASE SetBlocklen
  BY <1>6 DEF SetBlocklen, Exchange, Answers, Goto, AfterSelect
<1>7. CASE Attach
  BY <1>7 DEF Attach, Goto, Disable
<1>8. CASE DetachStep
  BY <1>8 DEF DetachStep, Deselect, Exchange, Answers, Goto, ClockOff, PowerOff, Disabled
<1>9. CASE InsertCard
  BY <1>9 DEF InsertCard
<1>10. CASE RemoveCard
  BY <1>10 DEF RemoveCard, NoCard
<1>11. CASE Begin
  BY <1>11 DEF Begin, Goto
<1>12. CASE CardDetach
  BY <1>12 DEF CardDetach, Disable
<1>13. CASE UNCHANGED vars
  BY <1>13 DEF vars
<1> QED
  BY <1>1, <1>2, <1>3, <1>4, <1>5, <1>6, <1>7, <1>8, <1>9, <1>10, <1>11, <1>12, <1>13
  DEF Next, DriverStep, InitStep

\* ... what is counted, and sc_card, which is a function,
LEMMA CountsStep ==
    ASSUME IInv, Counts, [Next]_vars
    PROVE  Counts'
<1> USE CardAssumption DEF IInv, Known, Counts, fnVars, hostVars, ctlVars
<1>1. CASE EnableStep
  <2>1. CASE EnablePower
    BY <2>1 DEF EnablePower, BusPowerOn, BusPowerFails, Goto, Disable
  <2>2. CASE EnableClock
    BY <2>2 DEF EnableClock, BusClock, Goto, Disable
  <2>3. CASE GoIdle("idle1", "ocr0")
    <3>1. pc' # "ocr" /\ tries' = tries /\ scCard' = scCard
      BY <2>3 DEF GoIdle, Exchange, Goto
    <3>2. faults' = faults \/ (faults < MaxFaults /\ faults' = faults + 1)
      BY <2>3 DEF GoIdle, Exchange, Answers, Goto
    <3> QED
      BY <3>1, <3>2
  <2>4. CASE OcrQuery
    BY <2>4 DEF OcrQuery, Exchange, Answers, Goto, Disable, OcrAnswered
  <2>5. CASE SetVoltage
    BY <2>5 DEF SetVoltage, BusPowerOn, BusPowerFails, Goto, Disable
  <2>6. CASE GoIdle("idle2", "ifcond")
    <3>1. pc' # "ocr" /\ tries' = tries /\ scCard' = scCard
      BY <2>6 DEF GoIdle, Exchange, Goto
    <3>2. faults' = faults \/ (faults < MaxFaults /\ faults' = faults + 1)
      BY <2>6 DEF GoIdle, Exchange, Answers, Goto
    <3> QED
      BY <3>1, <3>2
  <2>7. CASE SendIfCond
    BY <2>7 DEF SendIfCond, Exchange, Answers, Goto
  <2>8. CASE OcrReady
    BY <2>8 DEF OcrReady, Exchange, Answers, Goto, Disable, OcrAnswered
  <2>9. CASE OcrBusy
    BY <2>9 DEF OcrBusy, Answers, Goto, Disable
  <2> QED
    BY <2>1, <2>2, <2>3, <2>4, <2>5, <2>6, <2>7, <2>8, <2>9, <1>1 DEF EnableStep
<1>2. CASE ScanStep
  BY <1>2 DEF ScanStep, AllSendCid, Exchange, Answers, Goto, SetRelativeAddr, NoFunction,
     Disable, SendCsd
<1>3. CASE SdInitStep
  BY <1>3 DEF SdInitStep, SdClock, BusClock, Goto, InitReturns, SendScr, DecodeScr, Exchange,
     Answers, AppAnswered, DataAnswered, SetCardWidth, SetHostWidth, BusWidth,
     SwitchQuery, SwitchSet, SwitchResults, NoMemory, HighSpeedClock
<1>4. CASE MmcInitStep
  BY <1>4 DEF MmcInitStep, MmcClock, BusClock, InitReturns, Goto, ReadExtCsd, Exchange,
     Answers, DataAnswered, MmcClockByType, MmcCardWidth, MmcHostWidth, BusWidth
<1>5. CASE Select
  BY <1>5 DEF Select, Exchange, Answers, Goto, AfterSelect
<1>6. CASE SetBlocklen
  BY <1>6 DEF SetBlocklen, Exchange, Answers, Goto, AfterSelect
<1>7. CASE Attach
  BY <1>7 DEF Attach, Goto, Disable
<1>8. CASE DetachStep
  <2>1. CASE Deselect
    BY <2>1 DEF Deselect, Exchange, Answers, Goto
  <2>2. CASE ClockOff
    BY <2>2 DEF ClockOff, Goto
  <2>3. CASE PowerOff
    BY <2>3 DEF PowerOff, Disabled, Goto
  <2> QED
    BY <2>1, <2>2, <2>3, <1>8 DEF DetachStep
<1>9. CASE InsertCard
  BY <1>9 DEF InsertCard
<1>10. CASE RemoveCard
  BY <1>10 DEF RemoveCard, NoCard
<1>11. CASE Begin
  BY <1>11 DEF Begin, Goto
<1>12. CASE CardDetach
  BY <1>12 DEF CardDetach, Disable
<1>13. CASE UNCHANGED vars
  BY <1>13 DEF vars
<1> QED
  BY <1>1, <1>2, <1>3, <1>4, <1>5, <1>6, <1>7, <1>8, <1>9, <1>10, <1>11, <1>12, <1>13
  DEF Next, DriverStep, InitStep

\* ... what was found of the card in the slot,
LEMMA FlagsStep ==
    ASSUME IInv, Flags, [Next]_vars
    PROVE  Flags'
<1> USE DEF Flags, fnVars, hostVars, ctlVars
<1>1. CASE EnableStep
  BY <1>1 DEF EnableStep, EnablePower, BusPowerOn, BusPowerFails, Goto, Disable,
     EnableClock, BusClock, GoIdle, Exchange, OcrQuery, Answers, OcrAnswered, SetVoltage,
     SendIfCond, OcrReady, OcrBusy
<1>2. CASE ScanStep
  BY <1>2 DEF ScanStep, AllSendCid, Exchange, Answers, Goto, SetRelativeAddr, NoFunction,
     Disable, SendCsd
<1>3. CASE SdInitStep
  BY <1>3 DEF SdInitStep, SdClock, BusClock, Goto, InitReturns, SendScr, DecodeScr, Exchange,
     Answers, AppAnswered, DataAnswered, SetCardWidth, SetHostWidth, BusWidth,
     SwitchQuery, SwitchSet, SwitchResults, NoMemory, HighSpeedClock
<1>4. CASE MmcInitStep
  BY <1>4 DEF MmcInitStep, MmcClock, BusClock, InitReturns, Goto, ReadExtCsd, Exchange,
     Answers, DataAnswered, MmcClockByType, MmcCardWidth, MmcHostWidth, BusWidth
<1>5. CASE Select
  BY <1>5 DEF Select, Exchange, Answers, Goto, AfterSelect
<1>6. CASE SetBlocklen
  BY <1>6 DEF SetBlocklen, Exchange, Answers, Goto, AfterSelect
<1>7. CASE Attach
  BY <1>7 DEF Attach, Goto, Disable
<1>8. CASE DetachStep
  BY <1>8 DEF DetachStep, Deselect, Exchange, Answers, Goto, ClockOff, PowerOff, Disabled
<1>9. CASE InsertCard
  BY <1>9 DEF InsertCard
<1>10. CASE RemoveCard
  BY <1>10 DEF RemoveCard, NoCard
<1>11. CASE Begin
  BY <1>11 DEF Begin, Goto
<1>12. CASE CardDetach
  BY <1>12 DEF CardDetach, Disable
<1>13. CASE UNCHANGED vars
  BY <1>13 DEF vars
<1> QED
  BY <1>1, <1>2, <1>3, <1>4, <1>5, <1>6, <1>7, <1>8, <1>9, <1>10, <1>11, <1>12, <1>13
  DEF Next, DriverStep, InitStep

\* ... the flags of the function,
LEMMA FnFlagsStep ==
    ASSUME IInv, FnFlags, [Next]_vars
    PROVE  FnFlags'
<1> USE DEF FnFlags, fnVars, hostVars, ctlVars
<1>1. CASE EnableStep
  BY <1>1 DEF EnableStep, EnablePower, BusPowerOn, BusPowerFails, Goto, Disable,
     EnableClock, BusClock, GoIdle, Exchange, OcrQuery, Answers, OcrAnswered, SetVoltage,
     SendIfCond, OcrReady, OcrBusy
<1>2. CASE ScanStep
  BY <1>2 DEF ScanStep, AllSendCid, Exchange, Answers, Goto, SetRelativeAddr, NoFunction,
     Disable, SendCsd
<1>3. CASE SdInitStep
  <2>1. CASE SdClock
    <3>1. initOk' = initOk \/ initOk' = TRUE \/ initOk' = FALSE
      BY <2>1 DEF SdClock, BusClock, Goto, InitReturns
    <3>2. fnError' = fnError /\ fnSdhc' = fnSdhc /\ fnExtCsd' = fnExtCsd /\ starved' = starved
      BY <2>1 DEF SdClock, BusClock, Goto, InitReturns
    <3> QED
      BY <3>1, <3>2
  <2>2. CASE SendScr
    BY <2>2 DEF SendScr, DecodeScr, Exchange, Answers, Goto, InitReturns, AppAnswered, DataAnswered
  <2>3. CASE SetCardWidth
    BY <2>3 DEF SetCardWidth, Exchange, Answers, Goto, InitReturns, AppAnswered
  <2>4. CASE SetHostWidth
    BY <2>4 DEF SetHostWidth, BusWidth, InitReturns, Goto
  <2>5. CASE SwitchQuery
    BY <2>5 DEF SwitchQuery, NoMemory, Exchange, Answers, Goto, InitReturns, DataAnswered
  <2>6. CASE SwitchSet
    BY <2>6 DEF SwitchSet, SwitchResults, NoMemory, Exchange, Answers, Goto, InitReturns, DataAnswered
  <2>7. CASE HighSpeedClock
    <3>1. initOk' = initOk \/ initOk' = TRUE \/ initOk' = FALSE
      BY <2>7 DEF HighSpeedClock, BusClock, InitReturns, Goto
    <3>2. fnError' = fnError /\ fnSdhc' = fnSdhc /\ fnExtCsd' = fnExtCsd /\ starved' = starved
      BY <2>7 DEF HighSpeedClock, BusClock, InitReturns, Goto
    <3> QED
      BY <3>1, <3>2
  <2> QED
    BY <2>1, <2>2, <2>3, <2>4, <2>5, <2>6, <2>7, <1>3 DEF SdInitStep
<1>4. CASE MmcInitStep
  <2>1. CASE MmcClock
    <3>1. initOk' = initOk \/ initOk' = TRUE \/ initOk' = FALSE
      BY <2>1 DEF MmcClock, BusClock, InitReturns, Goto
    <3>2. fnError' = fnError /\ fnSdhc' = fnSdhc /\ fnExtCsd' = fnExtCsd /\ starved' = starved
      BY <2>1 DEF MmcClock, BusClock, InitReturns, Goto
    <3> QED
      BY <3>1, <3>2
  <2>2. CASE ReadExtCsd
    BY <2>2 DEF ReadExtCsd, Exchange, Answers, Goto, InitReturns, DataAnswered
  <2>3. CASE MmcClockByType
    <3>1. initOk' = initOk \/ initOk' = TRUE \/ initOk' = FALSE
      BY <2>3 DEF MmcClockByType, BusClock, InitReturns, Goto
    <3>2. fnError' = fnError /\ fnSdhc' = fnSdhc /\ fnExtCsd' = fnExtCsd /\ starved' = starved
      BY <2>3 DEF MmcClockByType, BusClock, InitReturns, Goto
    <3> QED
      BY <3>1, <3>2
  <2>4. CASE MmcCardWidth
    BY <2>4 DEF MmcCardWidth, Exchange, Answers, Goto, InitReturns
  <2>5. CASE MmcHostWidth
    BY <2>5 DEF MmcHostWidth, BusWidth, InitReturns, Goto
  <2> QED
    BY <2>1, <2>2, <2>3, <2>4, <2>5, <1>4 DEF MmcInitStep
<1>5. CASE Select
  BY <1>5 DEF Select, Exchange, Answers, Goto, AfterSelect
<1>6. CASE SetBlocklen
  BY <1>6 DEF SetBlocklen, Exchange, Answers, Goto, AfterSelect
<1>7. CASE Attach
  BY <1>7 DEF Attach, Goto, Disable
<1>8. CASE DetachStep
  BY <1>8 DEF DetachStep, Deselect, Exchange, Answers, Goto, ClockOff, PowerOff, Disabled
<1>9. CASE InsertCard
  BY <1>9 DEF InsertCard
<1>10. CASE RemoveCard
  BY <1>10 DEF RemoveCard, NoCard
<1>11. CASE Begin
  BY <1>11 DEF Begin, Goto
<1>12. CASE CardDetach
  BY <1>12 DEF CardDetach, Disable
<1>13. CASE UNCHANGED vars
  BY <1>13 DEF vars
<1> QED
  BY <1>1, <1>2, <1>3, <1>4, <1>5, <1>6, <1>7, <1>8, <1>9, <1>10, <1>11, <1>12, <1>13
  DEF Next, DriverStep, InitStep

\* ... the switches of the host,
LEMMA HostStep ==
    ASSUME IInv, Host, [Next]_vars
    PROVE  Host'
<1> USE DEF Host, fnVars, hostVars, ctlVars
<1>1. CASE EnableStep
  <2>1. CASE EnablePower
    BY <2>1 DEF EnablePower, BusPowerOn, BusPowerFails, Goto, Disable
  <2>2. CASE EnableClock
    <3>1. hostFault' = hostFault \/ hostFault' = TRUE
      BY <2>2 DEF EnableClock, BusClock, Goto, Disable
    <3>2. power' = power /\ run' = run /\ width' = width
      BY <2>2 DEF EnableClock, BusClock, Goto, Disable
    <3> QED
      BY <3>1, <3>2
  <2>3. CASE GoIdle("idle1", "ocr0")
    BY <2>3 DEF GoIdle, Exchange, Goto
  <2>4. CASE OcrQuery
    BY <2>4 DEF OcrQuery, Exchange, Answers, Goto, Disable, OcrAnswered
  <2>5. CASE SetVoltage
    BY <2>5 DEF SetVoltage, BusPowerOn, BusPowerFails, Goto, Disable
  <2>6. CASE GoIdle("idle2", "ifcond")
    BY <2>6 DEF GoIdle, Exchange, Goto
  <2>7. CASE SendIfCond
    BY <2>7 DEF SendIfCond, Exchange, Answers, Goto
  <2>8. CASE OcrReady
    BY <2>8 DEF OcrReady, Exchange, Answers, Goto, Disable, OcrAnswered
  <2>9. CASE OcrBusy
    BY <2>9 DEF OcrBusy, Answers, Goto, Disable
  <2> QED
    BY <2>1, <2>2, <2>3, <2>4, <2>5, <2>6, <2>7, <2>8, <2>9, <1>1 DEF EnableStep
<1>2. CASE ScanStep
  BY <1>2 DEF ScanStep, AllSendCid, Exchange, Answers, Goto, SetRelativeAddr, NoFunction,
     Disable, SendCsd
<1>3. CASE SdInitStep
  <2>1. CASE SdClock
    <3>1. hostFault' = hostFault \/ hostFault' = TRUE
      BY <2>1 DEF SdClock, BusClock, Goto, InitReturns
    <3>2. power' = power /\ run' = run /\ width' = width
      BY <2>1 DEF SdClock, BusClock, Goto, InitReturns
    <3> QED
      BY <3>1, <3>2
  <2>2. CASE SendScr
    BY <2>2 DEF SendScr, DecodeScr, Exchange, Answers, Goto, InitReturns, AppAnswered, DataAnswered
  <2>3. CASE SetCardWidth
    BY <2>3 DEF SetCardWidth, Exchange, Answers, Goto, InitReturns, AppAnswered
  <2>4. CASE SetHostWidth
    BY <2>4 DEF SetHostWidth, BusWidth, InitReturns, Goto
  <2>5. CASE SwitchQuery
    BY <2>5 DEF SwitchQuery, NoMemory, Exchange, Answers, Goto, InitReturns, DataAnswered
  <2>6. CASE SwitchSet
    BY <2>6 DEF SwitchSet, SwitchResults, NoMemory, Exchange, Answers, Goto, InitReturns, DataAnswered
  <2>7. CASE HighSpeedClock
    <3>1. hostFault' = hostFault \/ hostFault' = TRUE
      BY <2>7 DEF HighSpeedClock, BusClock, InitReturns, Goto
    <3>2. power' = power /\ run' = run /\ width' = width
      BY <2>7 DEF HighSpeedClock, BusClock, InitReturns, Goto
    <3> QED
      BY <3>1, <3>2
  <2> QED
    BY <2>1, <2>2, <2>3, <2>4, <2>5, <2>6, <2>7, <1>3 DEF SdInitStep
<1>4. CASE MmcInitStep
  <2>1. CASE MmcClock
    <3>1. hostFault' = hostFault \/ hostFault' = TRUE
      BY <2>1 DEF MmcClock, BusClock, InitReturns, Goto
    <3>2. power' = power /\ run' = run /\ width' = width
      BY <2>1 DEF MmcClock, BusClock, InitReturns, Goto
    <3> QED
      BY <3>1, <3>2
  <2>2. CASE ReadExtCsd
    BY <2>2 DEF ReadExtCsd, Exchange, Answers, Goto, InitReturns, DataAnswered
  <2>3. CASE MmcClockByType
    <3>1. hostFault' = hostFault \/ hostFault' = TRUE
      BY <2>3 DEF MmcClockByType, BusClock, InitReturns, Goto
    <3>2. power' = power /\ run' = run /\ width' = width
      BY <2>3 DEF MmcClockByType, BusClock, InitReturns, Goto
    <3> QED
      BY <3>1, <3>2
  <2>4. CASE MmcCardWidth
    BY <2>4 DEF MmcCardWidth, Exchange, Answers, Goto, InitReturns
  <2>5. CASE MmcHostWidth
    BY <2>5 DEF MmcHostWidth, BusWidth, InitReturns, Goto
  <2> QED
    BY <2>1, <2>2, <2>3, <2>4, <2>5, <1>4 DEF MmcInitStep
<1>5. CASE Select
  BY <1>5 DEF Select, Exchange, Answers, Goto, AfterSelect
<1>6. CASE SetBlocklen
  BY <1>6 DEF SetBlocklen, Exchange, Answers, Goto, AfterSelect
<1>7. CASE Attach
  BY <1>7 DEF Attach, Goto, Disable
<1>8. CASE DetachStep
  BY <1>8 DEF DetachStep, Deselect, Exchange, Answers, Goto, ClockOff, PowerOff, Disabled
<1>9. CASE InsertCard
  BY <1>9 DEF InsertCard
<1>10. CASE RemoveCard
  BY <1>10 DEF RemoveCard, NoCard
<1>11. CASE Begin
  BY <1>11 DEF Begin, Goto
<1>12. CASE CardDetach
  BY <1>12 DEF CardDetach, Disable
<1>13. CASE UNCHANGED vars
  BY <1>13 DEF vars
<1> QED
  BY <1>1, <1>2, <1>3, <1>4, <1>5, <1>6, <1>7, <1>8, <1>9, <1>10, <1>11, <1>12, <1>13
  DEF Next, DriverStep, InitStep

\* ... and its clock.
LEMMA SpeedStep ==
    ASSUME IInv, Speed, [Next]_vars
    PROVE  Speed'
<1> USE DEF Speed, fnVars, hostVars, ctlVars
<1>1. CASE EnableStep
  <2>1. CASE EnablePower
    BY <2>1 DEF EnablePower, BusPowerOn, BusPowerFails, Goto, Disable
  <2>2. CASE EnableClock
    BY <2>2, FreqsHit DEF EnableClock, BusClock, Goto, Disable
  <2>3. CASE GoIdle("idle1", "ocr0")
    BY <2>3 DEF GoIdle, Exchange, Goto
  <2>4. CASE OcrQuery
    BY <2>4 DEF OcrQuery, Exchange, Answers, Goto, Disable, OcrAnswered
  <2>5. CASE SetVoltage
    BY <2>5 DEF SetVoltage, BusPowerOn, BusPowerFails, Goto, Disable
  <2>6. CASE GoIdle("idle2", "ifcond")
    BY <2>6 DEF GoIdle, Exchange, Goto
  <2>7. CASE SendIfCond
    BY <2>7 DEF SendIfCond, Exchange, Answers, Goto
  <2>8. CASE OcrReady
    BY <2>8 DEF OcrReady, Exchange, Answers, Goto, Disable, OcrAnswered
  <2>9. CASE OcrBusy
    BY <2>9 DEF OcrBusy, Answers, Goto, Disable
  <2> QED
    BY <2>1, <2>2, <2>3, <2>4, <2>5, <2>6, <2>7, <2>8, <2>9, <1>1 DEF EnableStep
<1>2. CASE ScanStep
  BY <1>2 DEF ScanStep, AllSendCid, Exchange, Answers, Goto, SetRelativeAddr, NoFunction,
     Disable, SendCsd
<1>3. CASE SdInitStep
  <2>1. CASE SdClock
    BY <2>1, FreqsHit DEF SdClock, BusClock, Goto, InitReturns
  <2>2. CASE SendScr
    BY <2>2 DEF SendScr, DecodeScr, Exchange, Answers, Goto, InitReturns, AppAnswered, DataAnswered
  <2>3. CASE SetCardWidth
    BY <2>3 DEF SetCardWidth, Exchange, Answers, Goto, InitReturns, AppAnswered
  <2>4. CASE SetHostWidth
    BY <2>4 DEF SetHostWidth, BusWidth, InitReturns, Goto
  <2>5. CASE SwitchQuery
    BY <2>5 DEF SwitchQuery, NoMemory, Exchange, Answers, Goto, InitReturns, DataAnswered
  <2>6. CASE SwitchSet
    BY <2>6 DEF SwitchSet, SwitchResults, NoMemory, Exchange, Answers, Goto, InitReturns, DataAnswered
  <2>7. CASE HighSpeedClock
    BY <2>7, FreqsHit DEF HighSpeedClock, BusClock, InitReturns, Goto
  <2> QED
    BY <2>1, <2>2, <2>3, <2>4, <2>5, <2>6, <2>7, <1>3 DEF SdInitStep
<1>4. CASE MmcInitStep
  <2>1. CASE MmcClock
    BY <2>1, FreqsHit DEF MmcClock, BusClock, InitReturns, Goto
  <2>2. CASE ReadExtCsd
    BY <2>2 DEF ReadExtCsd, Exchange, Answers, Goto, InitReturns, DataAnswered
  <2>3. CASE MmcClockByType
    BY <2>3, FreqsHit DEF MmcClockByType, BusClock, InitReturns, Goto
  <2>4. CASE MmcCardWidth
    BY <2>4 DEF MmcCardWidth, Exchange, Answers, Goto, InitReturns
  <2>5. CASE MmcHostWidth
    BY <2>5 DEF MmcHostWidth, BusWidth, InitReturns, Goto
  <2> QED
    BY <2>1, <2>2, <2>3, <2>4, <2>5, <1>4 DEF MmcInitStep
<1>5. CASE Select
  BY <1>5 DEF Select, Exchange, Answers, Goto, AfterSelect
<1>6. CASE SetBlocklen
  BY <1>6 DEF SetBlocklen, Exchange, Answers, Goto, AfterSelect
<1>7. CASE Attach
  BY <1>7 DEF Attach, Goto, Disable
<1>8. CASE DetachStep
  <2>1. CASE Deselect
    BY <2>1 DEF Deselect, Exchange, Answers, Goto
  <2>2. CASE ClockOff
    BY <2>2 DEF ClockOff, Goto
  <2>3. CASE PowerOff
    BY <2>3 DEF PowerOff, Disabled, Goto
  <2> QED
    BY <2>1, <2>2, <2>3, <1>8 DEF DetachStep
<1>9. CASE InsertCard
  BY <1>9 DEF InsertCard
<1>10. CASE RemoveCard
  BY <1>10 DEF RemoveCard, NoCard
<1>11. CASE Begin
  BY <1>11 DEF Begin, Goto
<1>12. CASE CardDetach
  BY <1>12 DEF CardDetach, Disable
<1>13. CASE UNCHANGED vars
  BY <1>13 DEF vars
<1> QED
  BY <1>1, <1>2, <1>3, <1>4, <1>5, <1>6, <1>7, <1>8, <1>9, <1>10, <1>11, <1>12, <1>13
  DEF Next, DriverStep, InitStep

-----------------------------------------------------------------------------
\* A card that starts again
LEMMA RestartedState ==
    ASSUME card \in Cards, NoneIsNoCard, NEW on \in BOOLEAN
    PROVE  Restarted(card, on).state \in {"off", "idle"} /\ Restarted(card, on).width = 1
BY DEF NoneIsNoCard, NoCard, Restarted, Cards

\* The first power on
LEMMA PoweredCard ==
    ASSUME EnablePower, card \in Cards, NoneIsNoCard
    PROVE  /\ card' = card \/ (card'.state \in {"off", "idle"} /\ card'.width = 1)
           /\ pc' \in {"clock", "deselect"} /\ sdMode' = sdMode
           /\ pc' = "clock" => width' = 1 /\ card'.state \in {"off", "idle"} /\ card'.width = 1
<1>1. \/ pc' = "clock" /\ width' = 1 /\ card' = Restarted(card, TRUE)
      \/ pc' = "deselect" /\ card' = card
      \/ pc' = "deselect" /\ \E on \in BOOLEAN : card' = Restarted(card, on)
  BY DEF EnablePower, BusPowerOn, BusPowerFails, Goto, Disable
<1>2. card' = card \/ (card'.state \in {"off", "idle"} /\ card'.width = 1)
  BY <1>1, RestartedState
<1>3. pc' = "clock" => width' = 1 /\ card'.state \in {"off", "idle"} /\ card'.width = 1
  BY <1>1, RestartedState
<1> QED
  BY <1>1, <1>2, <1>3 DEF EnablePower

\* ... and the power for the voltage that it takes
LEMMA VoltageCard ==
    ASSUME SetVoltage, card \in Cards, NoneIsNoCard
    PROVE  /\ pc = "volt" /\ pc' \in {"idle2", "deselect"} /\ sdMode' = sdMode
           /\ card' = card \/ card'.state \in {"off", "idle"}
<1>1. /\ pc = "volt" /\ pc' \in {"idle2", "deselect"} /\ sdMode' = sdMode
      /\ card' = card \/ \E on \in BOOLEAN : card' = Restarted(card, on)
  BY DEF SetVoltage, BusPowerOn, BusPowerFails, Goto, Disable
<1> QED
  BY <1>1, RestartedState

\* Where the clocks of an MMC lead to
LEMMA MmcClocks ==
    /\ MmcClock => /\ pc = "mmcclock" /\ pc' \in {"extcsd", "attach"}
                   /\ pc' = "extcsd" => fnExtCsd
                   /\ pc' = "attach" => initOk' = FALSE \/ ~fnExtCsd
    /\ MmcClockByType => /\ pc = "mmcclock2" /\ pc' \in {"mmcwidth", "attach"}
                         /\ pc' = "attach" => initOk' = FALSE
<1>1. ASSUME MmcClock PROVE pc = "mmcclock" /\ pc' \in {"extcsd", "attach"}
  BY <1>1 DEF MmcClock, BusClock, InitReturns, Goto
<1>2. ASSUME MmcClock, pc' = "extcsd" PROVE fnExtCsd
  BY <1>2 DEF MmcClock, BusClock, InitReturns, Goto
<1>3. ASSUME MmcClock, pc' = "attach" PROVE initOk' = FALSE \/ ~fnExtCsd
  BY <1>3 DEF MmcClock, BusClock, InitReturns, Goto
<1>4. ASSUME MmcClockByType PROVE pc = "mmcclock2" /\ pc' \in {"mmcwidth", "attach"}
  BY <1>4 DEF MmcClockByType, BusClock, InitReturns, Goto
<1>5. ASSUME MmcClockByType, pc' = "attach" PROVE initOk' = FALSE
  BY <1>5 DEF MmcClockByType, BusClock, InitReturns, Goto
<1> QED
  BY <1>1, <1>2, <1>3, <1>4, <1>5

\* Every step keeps the invariant, part by part: the empty slot,
LEMMA NoneIsNoCardStep ==
    ASSUME IInv, Agreement, [Next]_vars
    PROVE  NoneIsNoCard'
<1> USE DEF Agreement, IInv, Known, NoneIsNoCard, Cards, NoCard, fnVars, hostVars,
        ctlVars, Restarted
<1>1. CASE EnableStep
  BY <1>1 DEF EnableStep, EnablePower, BusPowerOn, BusPowerFails, Goto, Disable,
     EnableClock, BusClock, GoIdle, Exchange, OcrQuery, Answers, OcrAnswered, SetVoltage,
     SendIfCond, OcrReady, OcrBusy
<1>2. CASE ScanStep
  BY <1>2 DEF ScanStep, AllSendCid, Exchange, Answers, Goto, SetRelativeAddr, NoFunction,
     Disable, SendCsd
<1>3. CASE SdInitStep
  BY <1>3 DEF SdInitStep, SdClock, BusClock, Goto, InitReturns, SendScr, DecodeScr, Exchange,
     Answers, AppAnswered, DataAnswered, SetCardWidth, SetHostWidth, BusWidth,
     SwitchQuery, SwitchSet, SwitchResults, NoMemory, HighSpeedClock
<1>4. CASE MmcInitStep
  BY <1>4 DEF MmcInitStep, MmcClock, BusClock, InitReturns, Goto, ReadExtCsd, Exchange,
     Answers, DataAnswered, MmcClockByType, MmcCardWidth, MmcHostWidth, BusWidth
<1>5. CASE Select
  BY <1>5 DEF Select, Exchange, Answers, Goto, AfterSelect
<1>6. CASE SetBlocklen
  BY <1>6 DEF SetBlocklen, Exchange, Answers, Goto, AfterSelect
<1>7. CASE Attach
  BY <1>7 DEF Attach, Goto, Disable
<1>8. CASE DetachStep
  BY <1>8 DEF DetachStep, Deselect, Exchange, Answers, Goto, ClockOff, PowerOff, Disabled
<1>9. CASE InsertCard
  <2>1. card'.kind \in Kinds
    BY <1>9 DEF InsertCard
  <2> QED
    BY <2>1, CardAssumption DEF AllKinds
<1>10. CASE RemoveCard
  BY <1>10 DEF RemoveCard, NoCard
<1>11. CASE Begin
  BY <1>11 DEF Begin, Goto
<1>12. CASE CardDetach
  BY <1>12 DEF CardDetach, Disable
<1>13. CASE UNCHANGED vars
  BY <1>13 DEF vars
<1> QED
  BY <1>1, <1>2, <1>3, <1>4, <1>5, <1>6, <1>7, <1>8, <1>9, <1>10, <1>11, <1>12, <1>13
  DEF Next, DriverStep, InitStep

\* ... the mode in which the card answers,
LEMMA ModeStep ==
    ASSUME IInv, Agreement, [Next]_vars
    PROVE  Mode'
<1> USE DEF Agreement, IInv, Known, NoneIsNoCard, Mode, Cards, NoCard, fnVars, hostVars,
        ctlVars, Restarted, IsSD, StartLabels, NarrowLabels, InUse, EnableLabels,
        ScanLabels, SdLabels, MmcLabels
<1>1. CASE EnableStep
  <2>1. CASE EnablePower
    <3>1. /\ card' = card \/ (card'.state \in {"off", "idle"} /\ card'.width = 1)
          /\ pc' \in {"clock", "deselect"} /\ sdMode' = sdMode
          /\ pc' = "clock" => card'.state \in {"off", "idle"}
      BY <2>1, PoweredCard DEF Known
    <3>2. pc' \in StartLabels => card'.state \in {"off", "idle"}
      BY <3>1
    <3>3. card'.state \notin {"off", "idle"} => IsSD(card') = sdMode'
      BY <3>1
    <3>4. pc' \notin SdLabels /\ pc' \notin MmcLabels
      BY <3>1
    <3> HIDE DEF Agreement, IInv, Known, NoneIsNoCard, Cards, NoCard, fnVars, hostVars, ctlVars,
             Restarted, IsSD, StartLabels, NarrowLabels, InUse, EnableLabels, ScanLabels,
             SdLabels, MmcLabels
    <3> QED  BY <3>2, <3>3, <3>4
  <2>2. CASE EnableClock
    BY <2>2 DEF EnableClock, BusClock, Goto, Disable
  <2>3. CASE GoIdle("idle1", "ocr0")
    BY <2>3 DEF GoIdle, Exchange, Goto
  <2>4. CASE OcrQuery
    BY <2>4 DEF OcrQuery, Exchange, Answers, Goto, Disable, OcrAnswered
  <2>5. CASE SetVoltage
    <3>1. /\ pc = "volt" /\ pc' \in {"idle2", "deselect"} /\ sdMode' = sdMode
          /\ card' = card \/ card'.state \in {"off", "idle"}
      BY <2>5, VoltageCard DEF Known
    <3>2. card'.state \in {"off", "idle"}
      BY <3>1
    <3>3. pc' \notin SdLabels /\ pc' \notin MmcLabels
      BY <3>1
    <3> HIDE DEF Agreement, IInv, Known, NoneIsNoCard, Cards, NoCard, fnVars, hostVars, ctlVars,
             Restarted, IsSD, StartLabels, NarrowLabels, InUse, EnableLabels, ScanLabels,
             SdLabels, MmcLabels
    <3> QED  BY <3>2, <3>3
  <2>6. CASE GoIdle("idle2", "ifcond")
    BY <2>6 DEF GoIdle, Exchange, Goto
  <2>7. CASE SendIfCond
    BY <2>7 DEF SendIfCond, Exchange, Answers, Goto
  <2>8. CASE OcrReady
    BY <2>8 DEF OcrReady, Exchange, Answers, Goto, Disable, OcrAnswered
  <2>9. CASE OcrBusy
    BY <2>9 DEF OcrBusy, Answers, Goto, Disable
  <2> QED
    BY <2>1, <2>2, <2>3, <2>4, <2>5, <2>6, <2>7, <2>8, <2>9, <1>1 DEF EnableStep
<1>2. CASE ScanStep
  BY <1>2 DEF ScanStep, AllSendCid, Exchange, Answers, Goto, SetRelativeAddr, NoFunction,
     Disable, SendCsd
<1>3. CASE SdInitStep
  <2>1. CASE SdClock
    <3>1. pc = "sdclock" /\ pc' \in {"scr", "attach"}
      BY <2>1 DEF SdClock, BusClock, Goto, InitReturns
    <3>2. card' = card /\ sdMode' = sdMode
      BY <2>1 DEF SdClock, BusClock, Goto, InitReturns
    <3> QED
      BY <3>1, <3>2
  <2>2. CASE SendScr
    BY <2>2 DEF SendScr, DecodeScr, Exchange, Answers, Goto, InitReturns, AppAnswered, DataAnswered
  <2>3. CASE SetCardWidth
    BY <2>3 DEF SetCardWidth, Exchange, Answers, Goto, InitReturns, AppAnswered
  <2>4. CASE SetHostWidth
    BY <2>4 DEF SetHostWidth, BusWidth, InitReturns, Goto
  <2>5. CASE SwitchQuery
    BY <2>5 DEF SwitchQuery, NoMemory, Exchange, Answers, Goto, InitReturns, DataAnswered
  <2>6. CASE SwitchSet
    <3>1. pc = "switch1" /\ pc' \in {"hsclock", "attach"} /\ sdMode' = sdMode
      BY <2>6 DEF SwitchSet, NoMemory, Exchange, Goto, InitReturns
    <3>2. card' = card \/ card' = [card EXCEPT !.hs = TRUE]
      BY <2>6 DEF SwitchSet, SwitchResults, NoMemory, Exchange
    <3> QED
      BY <3>1, <3>2
  <2>7. CASE HighSpeedClock
    <3>1. pc = "hsclock" /\ pc' = "attach"
      BY <2>7 DEF HighSpeedClock, BusClock, InitReturns, Goto
    <3>2. card' = card /\ sdMode' = sdMode
      BY <2>7 DEF HighSpeedClock, BusClock, InitReturns, Goto
    <3> QED
      BY <3>1, <3>2
  <2> QED
    BY <2>1, <2>2, <2>3, <2>4, <2>5, <2>6, <2>7, <1>3 DEF SdInitStep
<1>4. CASE MmcInitStep
  BY <1>4 DEF MmcInitStep, MmcClock, BusClock, InitReturns, Goto, ReadExtCsd, Exchange,
     Answers, DataAnswered, MmcClockByType, MmcCardWidth, MmcHostWidth, BusWidth
<1>5. CASE Select
  BY <1>5 DEF Select, Exchange, Answers, Goto, AfterSelect
<1>6. CASE SetBlocklen
  BY <1>6 DEF SetBlocklen, Exchange, Answers, Goto, AfterSelect
<1>7. CASE Attach
  BY <1>7 DEF Attach, Goto, Disable
<1>8. CASE DetachStep
  BY ZenonT(60), <1>8 DEF DetachStep, Deselect, Exchange, Answers, Goto, ClockOff, PowerOff, Disabled
<1>9. CASE InsertCard
  BY <1>9 DEF InsertCard
<1>10. CASE RemoveCard
  BY <1>10 DEF RemoveCard, NoCard
<1>11. CASE Begin
  BY <1>11 DEF Begin, Goto
<1>12. CASE CardDetach
  BY <1>12 DEF CardDetach, Disable
<1>13. CASE UNCHANGED vars
  BY <1>13 DEF vars
<1> QED
  BY <1>1, <1>2, <1>3, <1>4, <1>5, <1>6, <1>7, <1>8, <1>9, <1>10, <1>11, <1>12, <1>13
  DEF Next, DriverStep, InitStep

\* ... the widths of card and host,
LEMMA WidthsStep ==
    ASSUME IInv, Agreement, [Next]_vars
    PROVE  Widths'
<1> USE DEF Agreement, IInv, Known, Fresh, Ours, NoneIsNoCard, Widths, Cards, NoCard,
        fnVars, hostVars, ctlVars, Restarted, StartLabels, NarrowLabels, InUse,
        EnableLabels, ScanLabels, SdLabels, MmcLabels
<1>1. CASE EnableStep
  <2>1. CASE EnablePower
    BY <2>1, PoweredCard
  <2>2. CASE EnableClock
    BY <2>2 DEF EnableClock, BusClock, Goto, Disable
  <2>3. CASE GoIdle("idle1", "ocr0")
    BY <2>3 DEF GoIdle, Exchange, Goto
  <2>4. CASE OcrQuery
    BY <2>4 DEF OcrQuery, Exchange, Answers, Goto, Disable, OcrAnswered
  <2>5. CASE SetVoltage
    BY <2>5 DEF SetVoltage, BusPowerOn, BusPowerFails, Goto, Disable
  <2>6. CASE GoIdle("idle2", "ifcond")
    BY <2>6 DEF GoIdle, Exchange, Goto
  <2>7. CASE SendIfCond
    BY <2>7 DEF SendIfCond, Exchange, Answers, Goto
  <2>8. CASE OcrReady
    BY <2>8 DEF OcrReady, Exchange, Answers, Goto, Disable, OcrAnswered
  <2>9. CASE OcrBusy
    BY <2>9 DEF OcrBusy, Answers, Goto, Disable
  <2> QED
    BY <2>1, <2>2, <2>3, <2>4, <2>5, <2>6, <2>7, <2>8, <2>9, <1>1 DEF EnableStep
<1>2. CASE ScanStep
  BY <1>2 DEF ScanStep, AllSendCid, Exchange, Answers, Goto, SetRelativeAddr, NoFunction,
     Disable, SendCsd
<1>3. CASE SdInitStep
  BY <1>3 DEF SdInitStep, SdClock, BusClock, Goto, InitReturns, SendScr, DecodeScr, Exchange,
     Answers, AppAnswered, DataAnswered, SetCardWidth, SetHostWidth, BusWidth,
     SwitchQuery, SwitchSet, SwitchResults, NoMemory, HighSpeedClock
<1>4. CASE MmcInitStep
  BY <1>4 DEF MmcInitStep, MmcClock, BusClock, InitReturns, Goto, ReadExtCsd, Exchange,
     Answers, DataAnswered, MmcClockByType, MmcCardWidth, MmcHostWidth, BusWidth
<1>5. CASE Select
  BY <1>5 DEF Select, Exchange, Answers, Goto, AfterSelect
<1>6. CASE SetBlocklen
  BY <1>6 DEF SetBlocklen, Exchange, Answers, Goto, AfterSelect
<1>7. CASE Attach
  BY <1>7 DEF Attach, Goto, Disable
<1>8. CASE DetachStep
  BY <1>8 DEF DetachStep, Deselect, Exchange, Answers, Goto, ClockOff, PowerOff, Disabled
<1>9. CASE InsertCard
  BY <1>9 DEF InsertCard
<1>10. CASE RemoveCard
  BY <1>10 DEF RemoveCard, NoCard
<1>11. CASE Begin
  BY <1>11 DEF Begin, Goto
<1>12. CASE CardDetach
  BY <1>12 DEF CardDetach, Disable
<1>13. CASE UNCHANGED vars
  BY <1>13 DEF vars
<1> QED
  BY <1>1, <1>2, <1>3, <1>4, <1>5, <1>6, <1>7, <1>8, <1>9, <1>10, <1>11, <1>12, <1>13
  DEF Next, DriverStep, InitStep

\* ... and what the function has learned of the card.
LEMMA AddressingStep ==
    ASSUME IInv, Agreement, [Next]_vars
    PROVE  Addressing'
<1> USE DEF Agreement, IInv, Known, Fresh, Ours, Addressed, NoneIsNoCard, Mode,
        Addressing, Cards, NoCard, fnVars, hostVars, ctlVars, Restarted, IsSD,
        StartLabels, NarrowLabels, InUse, EnableLabels, ScanLabels, SdLabels, MmcLabels
<1>1. CASE EnableStep
  BY <1>1 DEF EnableStep, EnablePower, BusPowerOn, BusPowerFails, Goto, Disable,
     EnableClock, BusClock, GoIdle, Exchange, OcrQuery, Answers, OcrAnswered, SetVoltage,
     SendIfCond, OcrReady, OcrBusy
<1>2. CASE ScanStep
  BY <1>2 DEF ScanStep, AllSendCid, Exchange, Answers, Goto, SetRelativeAddr, NoFunction,
     Disable, SendCsd
<1>3. CASE SdInitStep
  <2>1. CASE SdClock
    BY <2>1 DEF SdClock, BusClock, Goto, InitReturns
  <2>2. CASE SendScr
    BY <2>2 DEF SendScr, DecodeScr, Exchange, Answers, Goto, InitReturns, AppAnswered, DataAnswered
  <2>3. CASE SetCardWidth
    BY <2>3 DEF SetCardWidth, Exchange, Answers, Goto, InitReturns, AppAnswered
  <2>4. CASE SetHostWidth
    BY <2>4 DEF SetHostWidth, BusWidth, InitReturns, Goto
  <2>5. CASE SwitchQuery
    <3>1. pc = "switch0" /\ pc' \in {"switch1", "attach"}
      BY <2>5 DEF SwitchQuery, NoMemory, Exchange, Answers, Goto, InitReturns, DataAnswered
    <3>2. card' = card
          /\ fn' = fn /\ fnError' = fnError /\ fnSdhc' = fnSdhc /\ fnExtCsd' = fnExtCsd
      BY <2>5 DEF SwitchQuery, NoMemory, Exchange, Answers, Goto, InitReturns, DataAnswered
    <3>3. Ours => IsSD(card)
      BY <3>1
    <3> QED
      BY <3>1, <3>2, <3>3
  <2>6. CASE SwitchSet
    BY <2>6 DEF SwitchSet, SwitchResults, NoMemory, Exchange, Answers, Goto, InitReturns, DataAnswered
  <2>7. CASE HighSpeedClock
    <3>1. pc = "hsclock" /\ pc' = "attach"
      BY <2>7 DEF HighSpeedClock, BusClock, InitReturns, Goto
    <3>2. card' = card
          /\ fn' = fn /\ fnError' = fnError /\ fnSdhc' = fnSdhc /\ fnExtCsd' = fnExtCsd
      BY <2>7 DEF HighSpeedClock, BusClock, InitReturns, Goto
    <3>3. Ours => IsSD(card)
      BY <3>1
    <3> QED
      BY <3>1, <3>2, <3>3
  <2> QED
    BY <2>1, <2>2, <2>3, <2>4, <2>5, <2>6, <2>7, <1>3 DEF SdInitStep
<1>4. CASE MmcInitStep
  <2>1. CASE MmcClock
    <3>1. card' = card
          /\ fn' = fn /\ fnError' = fnError /\ fnSdhc' = fnSdhc /\ fnExtCsd' = fnExtCsd
      BY <2>1 DEF MmcClock, BusClock
    <3>2. CASE pc' = "attach" /\ initOk' = FALSE
      BY <2>1, <3>1, <3>2, MmcClocks
    <3>4. CASE pc' = "attach" /\ ~fnExtCsd
      <4>1. pc = "mmcclock"
        BY <2>1, MmcClocks
      <4>2. Ours /\ ~fnError => card.kind # "MMC4"
        BY <4>1, <3>4
      <4>3. fn # 0 /\ (Ours /\ ~fnError => fnSdhc = (card.kind = "SDHC")
                                            /\ fnExtCsd = (card.kind = "MMC4"))
        BY <4>1
      <4>4. Ours /\ ~fnError => (card.kind = "SDHC") = (card.kind \in {"SDHC", "MMC4"})
        BY <4>2
      <4> QED
        BY <4>1, <4>3, <4>4, <3>1, <3>4
    <3>3. CASE pc' # "attach"
      BY <2>1, <3>1, <3>3, MmcClocks
    <3> QED
      BY <2>1, <3>2, <3>3, <3>4, MmcClocks
  <2>2. CASE ReadExtCsd
    BY <2>2 DEF ReadExtCsd, Exchange, Answers, Goto, InitReturns, DataAnswered
  <2>3. CASE MmcClockByType
    <3>1. card' = card
          /\ fn' = fn /\ fnError' = fnError /\ fnSdhc' = fnSdhc /\ fnExtCsd' = fnExtCsd
      BY <2>3 DEF MmcClockByType, BusClock
    <3>2. CASE pc' = "attach"
      BY <2>3, <3>1, <3>2, MmcClocks
    <3>3. CASE pc' # "attach"
      BY <2>3, <3>1, <3>3, MmcClocks
    <3> QED
      BY <3>2, <3>3
  <2>4. CASE MmcCardWidth
    BY <2>4 DEF MmcCardWidth, Exchange, Answers, Goto, InitReturns
  <2>5. CASE MmcHostWidth
    BY <2>5 DEF MmcHostWidth, BusWidth, InitReturns, Goto
  <2> QED
    BY <2>1, <2>2, <2>3, <2>4, <2>5, <1>4 DEF MmcInitStep
<1>5. CASE Select
  BY <1>5 DEF Select, Exchange, Answers, Goto, AfterSelect
<1>6. CASE SetBlocklen
  BY <1>6 DEF SetBlocklen, Exchange, Answers, Goto, AfterSelect
<1>7. CASE Attach
  BY <1>7 DEF Attach, Goto, Disable
<1>8. CASE DetachStep
  BY <1>8 DEF DetachStep, Deselect, Exchange, Answers, Goto, ClockOff, PowerOff, Disabled
<1>9. CASE InsertCard
  BY <1>9 DEF InsertCard
<1>10. CASE RemoveCard
  BY <1>10 DEF RemoveCard, NoCard
<1>11. CASE Begin
  BY <1>11 DEF Begin, Goto
<1>12. CASE CardDetach
  BY <1>12 DEF CardDetach, Disable
<1>13. CASE UNCHANGED vars
  BY <1>13 DEF vars
<1> QED
  BY <1>1, <1>2, <1>3, <1>4, <1>5, <1>6, <1>7, <1>8, <1>9, <1>10, <1>11, <1>12, <1>13
  DEF Next, DriverStep, InitStep

-----------------------------------------------------------------------------
\* So both hold in every reachable state.
LEMMA AgreementInvariant == Spec => [](Scalars /\ Agreement)
<1>1. IInv /\ Scalars /\ [Next]_vars => Scalars'
  BY PlacesStep, CountsStep, FlagsStep, FnFlagsStep, HostStep, SpeedStep DEF Scalars
<1>2. IInv /\ Agreement /\ [Next]_vars => Agreement'
  BY NoneIsNoCardStep, ModeStep, WidthsStep, AddressingStep DEF Agreement
<1> QED
  BY AgreementInit, Invariant, <1>1, <1>2, PTL DEF Spec

\* If sdmmc_mem_init has succeeded, host and card agree on the bus width and on
\* the units of addresses, and SMF_SD_MODE is right, until the card is pulled;
\* and every variable has its type.
THEOREM Agree == Spec => []CardAndHostAgree
<1>1. IInv /\ Scalars => TypeOK
  BY DEF IInv, Known, Scalars, Places, Counts, Flags, FnFlags, Host, Speed, TypeOK
<1>2. ASSUME IInv, Agreement, pc = "attached", initOk, card.id = fn
      PROVE  /\ width = card.width
             /\ fnSdhc = (card.kind \in {"SDHC", "MMC4"})
             /\ sdMode = IsSD(card)
  <2>1. fn # 0 /\ ~fnError
    BY <1>2 DEF Agreement, Addressing, InUse
  <2>2. Ours
    BY <1>2, <2>1 DEF Agreement, NoneIsNoCard, NoCard, Ours
  <2>3. width = card.width
    BY <1>2, <2>2 DEF Agreement, Widths
  <2>4. fnSdhc = (card.kind \in {"SDHC", "MMC4"})
    BY <1>2, <2>1, <2>2 DEF Agreement, Addressing
  <2>5. sdMode = IsSD(card)
    BY <1>2, <2>2 DEF IInv, Addressed, Agreement, Mode
  <2> QED
    BY <2>3, <2>4, <2>5
<1>3. IInv /\ Scalars /\ Agreement => CardAndHostAgree
  BY <1>1, <1>2 DEF CardAndHostAgree
<1> QED
  BY Invariant, AgreementInvariant, <1>3, PTL
===============================================================================
