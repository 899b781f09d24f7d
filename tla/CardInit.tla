------------------------------ MODULE CardInit ------------------------------
(***************************************************************************)
(* How sdmmc.c and sdmmc_mem.c bring a memory card up and down:            *)
(* sdmmc_enable, sdmmc_scan, sdmmc_init and sdmmc_disable, one command or  *)
(* one host setting at a time, with the host's power, clock and bus width  *)
(* (rtsx.c) and the state of the card.                                     *)
(*                                                                         *)
(* The card may be swapped at any time.  A command that a card could       *)
(* answer may still fail, whether or not the card obeyed it, and a setting *)
(* of the host may fail half-way.  One that is reported as done was done:  *)
(* a late completion taken for the next command's (RtsxIntr) is left out.  *)
(*                                                                         *)
(* The slot holds one card, so the list of functions holds at most one.    *)
(* The host has no 8-bit bus and no MMC high speed (rtsx.c:242), so those  *)
(* branches of sdmmc_mem_mmc_init are out.                                 *)
(***************************************************************************)
EXTENDS Naturals

CONSTANTS
    Kinds,         \* kinds of cards that are inserted, out of AllKinds
    OpCondTries,   \* the 100 of sdmmc_mem_send_op_cond
    MaxInserts,    \* bound: cards inserted
    MaxFaults      \* bound: commands that fail though a card could answer

\* SD to 2 GB, SD above, MMC without and with an EXT_CSD; the last with more
\* than 2 GB, so that it is addressed by sectors
AllKinds == {"SDSC", "SDHC", "MMC3", "MMC4"}

ASSUME CardAssumption ==
    /\ Kinds \subseteq AllKinds
    /\ OpCondTries \in Nat \ {0}
    /\ MaxInserts \in Nat
    /\ MaxFaults \in Nat

VARIABLES
    pc,         \* where the task thread is
    unwinding,  \* who called sdmmc_disable: sdmmc_enable or sdmmc_card_detach
    sdMode,     \* SMF_SD_MODE
    hcs,        \* the OCR that is sent has SD_OCR_SDHC_CAP
    tries,      \* iterations of sdmmc_mem_send_op_cond
    fn,         \* sc_fn0, the only function: the card it was made for, or 0
    fnError,    \* SFF_ERROR
    fnSdhc,     \* SFF_SDHC: the function is addressed by sectors
    fnExtCsd,   \* csd.mmcver says that the card has an EXT_CSD
    starved,    \* history: sdmmc_mem_sd_switch has had no memory, and returned 0
    scCard,     \* sc_card, the function that is selected, or 0
    initOk,     \* sdmmc_mem_init has returned 0
    power,      \* of the host: the card has power,
    clock,      \* ... the clock that is configured,
    run,        \* ... the clock is enabled,
    width,      \* ... the width of the bus
    hostFault,  \* history: a setting of the host has failed
    card,       \* the card in the slot
    inserted,   \* number of cards inserted so far
    faults      \* number of commands that have failed by themselves

ctlVars == <<pc, unwinding>>
fnVars == <<fn, fnError, fnSdhc, fnExtCsd, starved, scCard, initOk>>
hostVars == <<power, clock, run, width, hostFault>>
vars == <<ctlVars, sdMode, hcs, tries, fnVars, hostVars, card, inserted, faults>>

Freqs == {400, 25000, 50000}

NoCard == [id |-> 0, kind |-> "none", state |-> "off", width |-> 1, hs |-> FALSE]

EnableLabels == {"power", "clock", "idle1", "ocr0", "volt", "idle2", "ifcond", "ocr"}
ScanLabels == {"cid", "rca", "csd"}
SdLabels == {"sdclock", "scr", "width", "hostwidth", "switch0", "switch1", "hsclock"}
MmcLabels == {"mmcclock", "extcsd", "mmcclock2", "mmcwidth", "mmchostwidth"}
Labels == EnableLabels \cup ScanLabels \cup SdLabels \cup MmcLabels \cup
          {"idle", "select", "blocklen", "attach", "attached",
           "deselect", "clockoff", "poweroff"}

Cards == [id : 0 .. MaxInserts, kind : AllKinds \cup {"none"},
          state : {"off", "idle", "ready", "ident", "stby", "tran"},
          width : {1, 4}, hs : BOOLEAN]

TypeOK ==
    /\ pc \in Labels /\ unwinding \in {"enable", "detach"}
    /\ sdMode \in BOOLEAN /\ hcs \in BOOLEAN /\ tries \in 0 .. OpCondTries
    /\ fn \in 0 .. MaxInserts /\ scCard \in 0 .. MaxInserts
    /\ fnError \in BOOLEAN /\ fnSdhc \in BOOLEAN
    /\ fnExtCsd \in BOOLEAN /\ starved \in BOOLEAN /\ initOk \in BOOLEAN
    /\ power \in BOOLEAN /\ clock \in Freqs /\ run \in BOOLEAN /\ width \in {1, 4}
    /\ hostFault \in BOOLEAN /\ card \in Cards
    /\ inserted \in 0 .. MaxInserts /\ faults \in 0 .. MaxFaults

Init ==
    /\ pc = "idle" /\ unwinding = "detach"
    /\ sdMode = FALSE /\ hcs = FALSE /\ tries = 0
    /\ fn = 0 /\ fnError = FALSE /\ fnSdhc = FALSE /\ fnExtCsd = FALSE
    /\ starved = FALSE /\ scCard = 0 /\ initOk = FALSE
    /\ power = FALSE /\ clock \in Freqs /\ run = FALSE /\ width \in {1, 4}
    /\ hostFault = FALSE
    /\ card = NoCard
    /\ inserted = 0 /\ faults = 0

IsSD(c) == c.kind \in {"SDSC", "SDHC"}

\* A card that gets power, or GO_IDLE_STATE, starts again.
Restarted(c, powered) ==
    IF c.kind = "none" THEN c
    ELSE [c EXCEPT !.state = IF powered THEN "idle" ELSE "off",
                   !.width = 1, !.hs = FALSE]

-----------------------------------------------------------------------------
(***************************************************************************)
(* The slot                                                                *)
(***************************************************************************)
InsertCard ==
    /\ card.kind = "none"
    /\ inserted < MaxInserts
    /\ inserted' = inserted + 1
    /\ \E k \in Kinds :
          card' = [id |-> inserted', kind |-> k, width |-> 1, hs |-> FALSE,
                   state |-> IF power THEN "idle" ELSE "off"]
    /\ UNCHANGED <<ctlVars, sdMode, hcs, tries, fnVars, hostVars, faults>>

RemoveCard ==
    /\ card.kind # "none"
    /\ card' = NoCard
    /\ UNCHANGED <<ctlVars, sdMode, hcs, tries, fnVars, hostVars, inserted, faults>>

-----------------------------------------------------------------------------
(***************************************************************************)
(* Commands and settings                                                   *)
(***************************************************************************)
Answers(can) == card.kind # "none" /\ power /\ run /\ can

\* sdmmc_mmc_command or sdmmc_app_command: a card that can answers and becomes
\* "after", and the driver goes on with ok; or the driver sees an error.
Exchange(can, after, ok, err) ==
    \/ Answers(can) /\ card' = after /\ ok /\ UNCHANGED faults
    \/ ~Answers(can) /\ err /\ UNCHANGED <<card, faults>>
    \/ /\ Answers(can) /\ faults < MaxFaults
       /\ faults' = faults + 1
       /\ card' \in {card, after}
       /\ err

Goto(label) == pc' = label /\ UNCHANGED unwinding

\* err: of sdmmc_enable, and of sdmmc_card_attach
Disable(caller) == pc' = "deselect" /\ unwinding' = caller

RoundDown(freq) == IF freq >= 50000 THEN 50000 ELSE IF freq >= 25000 THEN 25000 ELSE 400

\* rtsx_bus_clock; it configures the clock but does not enable it
BusClock(freq, ok, err) ==
    /\ UNCHANGED <<power, run, width>>
    /\ \/ clock' = RoundDown(freq) /\ ok /\ UNCHANGED hostFault
       \/ clock' \in {clock, RoundDown(freq)} /\ hostFault' = TRUE /\ err

\* a failure leaves the old power, none, or the new one
BusPowerFails(err) ==
    /\ hostFault' = TRUE /\ err
    /\ UNCHANGED <<clock, width>>
    /\ \/ run' = FALSE /\ UNCHANGED <<power, card>>
       \/ power' \in BOOLEAN /\ run' = power' /\ card' = Restarted(card, power')

\* Mutant of BusPowerOn: the bus width is left as it was
BusPowerOnKeepsWidth(ok, err) ==
    \/ /\ power' = TRUE /\ run' = TRUE
       /\ card' = Restarted(card, TRUE)
       /\ ok /\ UNCHANGED <<clock, width, hostFault>>
    \/ BusPowerFails(err)

\* rtsx_bus_power for a voltage: the power is cut, restored and the bus made
\* 1 bit wide
BusPowerOn(ok, err) ==
    \/ /\ power' = TRUE /\ run' = TRUE /\ width' = 1
       /\ card' = Restarted(card, TRUE)
       /\ ok /\ UNCHANGED <<clock, hostFault>>
    \/ BusPowerFails(err)

\* rtsx_bus_width
BusWidth(ok, err) ==
    /\ UNCHANGED <<power, clock, run>>
    /\ \/ width' = 4 /\ ok /\ UNCHANGED hostFault
       \/ UNCHANGED width /\ hostFault' = TRUE /\ err

-----------------------------------------------------------------------------
(***************************************************************************)
(* sdmmc_card_attach: sdmmc_enable                                         *)
(***************************************************************************)
Begin ==
    /\ pc = "idle"
    /\ card.kind # "none"
    /\ Goto("power")
    /\ UNCHANGED <<sdMode, hcs, tries, fnVars, hostVars, card, inserted, faults>>

EnablePower ==
    /\ pc = "power"
    /\ BusPowerOn(Goto("clock"), Disable("enable"))
    /\ UNCHANGED <<sdMode, hcs, tries, fnVars, inserted, faults>>

EnableClock ==
    /\ pc = "clock"
    /\ BusClock(400, Goto("idle1") /\ sdMode' = TRUE, Disable("enable") /\ UNCHANGED sdMode)
    /\ UNCHANGED <<hcs, tries, fnVars, card, inserted, faults>>

\* sdmmc_go_idle_state, whose result is ignored
GoIdle(from, to) ==
    /\ pc = from
    /\ Exchange(TRUE, Restarted(card, TRUE), Goto(to), Goto(to))
    /\ UNCHANGED <<sdMode, hcs, tries, fnVars, hostVars, inserted>>

\* Only SD cards answer in SD mode, and only MMC cards in MMC mode.
OcrAnswered == card.state = "idle" /\ IsSD(card) = sdMode

\* Mutant of OcrQuery: SMF_SD_MODE is not cleared before the second try
OcrQuerySdAgain ==
    /\ pc = "ocr0"
    /\ Exchange(OcrAnswered, card, Goto("volt"), Goto("ocr0"))
    /\ UNCHANGED <<sdMode, hcs, tries, fnVars, hostVars, inserted>>

\* sdmmc_mem_send_op_cond with OCR 0, in SD mode and then in MMC mode
OcrQuery ==
    /\ pc = "ocr0"
    /\ Exchange(OcrAnswered, card,
                Goto("volt") /\ UNCHANGED sdMode,
                IF sdMode THEN sdMode' = FALSE /\ Goto("ocr0")
                          ELSE UNCHANGED sdMode /\ Disable("enable"))
    /\ UNCHANGED <<hcs, tries, fnVars, hostVars, inserted>>

\* sdmmc_set_bus_power; the card and the host may have no voltage in common
SetVoltage ==
    /\ pc = "volt"
    /\ \/ BusPowerOn(Goto("idle2"), Disable("enable"))
       \/ Disable("enable") /\ UNCHANGED <<hostVars, card>>
    /\ UNCHANGED <<sdMode, hcs, tries, fnVars, inserted, faults>>

\* sdmmc_send_if_cond: only cards of SD version 2 answer
SendIfCond ==
    /\ pc = "ifcond"
    /\ Exchange(card.state = "idle" /\ card.kind = "SDHC", card, hcs' = TRUE, hcs' = FALSE)
    /\ tries' = 0
    /\ Goto("ocr")
    /\ UNCHANGED <<sdMode, fnVars, hostVars, inserted>>

\* sdmmc_mem_send_op_cond with the common voltages, until the card is ready;
\* a card of more than 2 GB never is if the host does not say it can use it
OcrReady ==
    /\ pc = "ocr"
    /\ card.kind = "SDHC" => hcs
    /\ Exchange(OcrAnswered, [card EXCEPT !.state = "ready"], Goto("cid"), Disable("enable"))
    /\ UNCHANGED <<sdMode, hcs, tries, fnVars, hostVars, inserted>>

OcrBusy ==
    /\ pc = "ocr"
    /\ IF Answers(OcrAnswered)
       THEN /\ tries' = tries + 1
            /\ IF tries' = OpCondTries THEN Disable("enable") ELSE Goto("ocr")
       ELSE Disable("enable") /\ UNCHANGED tries
    /\ UNCHANGED <<sdMode, hcs, fnVars, hostVars, card, inserted, faults>>

EnableStep == EnablePower \/ EnableClock \/ GoIdle("idle1", "ocr0") \/ OcrQuery \/ SetVoltage
              \/ GoIdle("idle2", "ifcond") \/ SendIfCond \/ OcrReady \/ OcrBusy

-----------------------------------------------------------------------------
(***************************************************************************)
(* sdmmc_scan: sdmmc_mem_scan                                              *)
(***************************************************************************)
AllSendCid ==
    /\ pc = "cid"
    /\ Exchange(card.state = "ready", [card EXCEPT !.state = "ident"], Goto("rca"), Goto("csd"))
    /\ UNCHANGED <<sdMode, hcs, tries, fnVars, hostVars, inserted>>

\* The function is allocated before and freed if the command fails.
SetRelativeAddr ==
    /\ pc = "rca"
    /\ Exchange(card.state = "ident", [card EXCEPT !.state = "stby"],
                Goto("cid") /\ fn' = card.id,
                Goto("csd") /\ UNCHANGED fn)
    /\ UNCHANGED <<sdMode, hcs, tries, fnError, fnSdhc, fnExtCsd, starved, scCard, initOk, hostVars,
                   inserted>>

NoFunction ==
    /\ pc = "csd" /\ fn = 0
    /\ Disable("detach")
    /\ UNCHANGED <<sdMode, hcs, tries, fnVars, hostVars, card, inserted, faults>>

\* SEND_CSD is addressed: only the card that the function is of answers.
\* sdmmc_decode_csd knows the size of the addresses of an SD card from the
\* version of the CSD; that version, or that of an MMC, may be unknown.
SendCsd ==
    /\ pc = "csd" /\ fn # 0
    /\ Goto("select")
    /\ Exchange(card.state = "stby" /\ card.id = fn, card,
                /\ fnSdhc' = (card.kind = "SDHC")
                /\ fnExtCsd' = (card.kind = "MMC4")
                /\ fnError' \in BOOLEAN,
                fnError' = TRUE /\ UNCHANGED <<fnSdhc, fnExtCsd>>)
    /\ UNCHANGED <<sdMode, hcs, tries, fn, starved, scCard, initOk, hostVars, inserted>>

ScanStep == AllSendCid \/ SetRelativeAddr \/ NoFunction \/ SendCsd

-----------------------------------------------------------------------------
(***************************************************************************)
(* sdmmc_init: sdmmc_mem_init                                              *)
(***************************************************************************)
\* what sdmmc_mem_init returns; sdmmc_init only prints it
InitReturns(ok) == initOk' = ok /\ Goto("attach")

AfterSelect == IF sdMode THEN "sdclock" ELSE "mmcclock"

\* sdmmc_select_card: sc_card changes only if the command succeeds.  An error
\* skips sdmmc_mem_set_blocklen and is then forgotten.
Select ==
    /\ pc = "select"
    /\ IF scCard = fn
       THEN Goto("blocklen") /\ UNCHANGED <<scCard, card, faults>>
       ELSE Exchange(card.state = "stby" /\ card.id = fn, [card EXCEPT !.state = "tran"],
                     Goto("blocklen") /\ scCard' = fn,
                     Goto(AfterSelect) /\ UNCHANGED scCard)
    /\ UNCHANGED <<sdMode, hcs, tries, fn, fnError, fnSdhc, fnExtCsd, starved, initOk, hostVars,
                   inserted>>

\* An error is forgotten.
SetBlocklen ==
    /\ pc = "blocklen"
    /\ Exchange(card.state = "tran", card, Goto(AfterSelect), Goto(AfterSelect))
    /\ UNCHANGED <<sdMode, hcs, tries, fnVars, hostVars, inserted>>

\* An application command is addressed to sc_card; data needs the same width
\* on both sides.
AppAnswered == card.state = "tran" /\ scCard = card.id
DataAnswered == card.state = "tran" /\ width = card.width

\* sdmmc_mem_sd_init
SdClock ==
    /\ pc = "sdclock"
    /\ BusClock(25000, Goto("scr") /\ UNCHANGED initOk, InitReturns(FALSE))
    /\ UNCHANGED <<sdMode, hcs, tries, fn, fnError, fnSdhc, fnExtCsd, starved, scCard, card, inserted,
                   faults>>

\* A card may be 1 bit wide only, and the version of its SCR may be unknown.
DecodeScr ==
    \/ Goto("width") /\ UNCHANGED initOk
    \/ Goto("switch0") /\ UNCHANGED initOk
    \/ InitReturns(FALSE)

\* sdmmc_mem_send_scr, sdmmc_mem_decode_scr; without memory nothing is sent, and
\* what is decoded is whatever raw_scr had been before
SendScr ==
    /\ pc = "scr"
    /\ \/ Exchange(AppAnswered /\ DataAnswered, card, DecodeScr, InitReturns(FALSE))
       \/ DecodeScr /\ UNCHANGED <<card, faults>>
    /\ UNCHANGED <<sdMode, hcs, tries, fn, fnError, fnSdhc, fnExtCsd, starved, scCard, hostVars,
                   inserted>>

\* sdmmc_mem_set_bus_width: the card first, then the host
SetCardWidth ==
    /\ pc = "width"
    /\ Exchange(AppAnswered, [card EXCEPT !.width = 4],
                Goto("hostwidth") /\ UNCHANGED initOk, InitReturns(FALSE))
    /\ UNCHANGED <<sdMode, hcs, tries, fn, fnError, fnSdhc, fnExtCsd, starved, scCard, hostVars,
                   inserted>>

SetHostWidth ==
    /\ pc = "hostwidth"
    /\ BusWidth(Goto("switch0") /\ UNCHANGED initOk, InitReturns(FALSE))
    /\ UNCHANGED <<sdMode, hcs, tries, fn, fnError, fnSdhc, fnExtCsd, starved, scCard, card, inserted,
                   faults>>

\* sdmmc_mem_sd_switch without memory: it sends nothing and returns 0
NoMemory == starved' = TRUE /\ UNCHANGED <<card, faults>>

\* sdmmc_mem_sd_switch in mode 0, on cards that have the command: does the
\* card have the high speed function?  Without memory "status" is not set.
SwitchQuery ==
    /\ pc = "switch0"
    /\ \/ InitReturns(TRUE) /\ UNCHANGED <<starved, card, faults>>
       \/ /\ Exchange(DataAnswered, card,
                      \/ Goto("switch1") /\ UNCHANGED initOk
                      \/ InitReturns(TRUE),
                      InitReturns(FALSE))
          /\ UNCHANGED starved
       \/ /\ NoMemory
          /\ \/ Goto("switch1") /\ UNCHANGED initOk
             \/ InitReturns(TRUE)
    /\ UNCHANGED <<sdMode, hcs, tries, fn, fnError, fnSdhc, fnExtCsd, scCard, hostVars,
                   inserted>>

\* A card that has the function switches; one that was asked in vain may lack it.
SwitchResults == {[card EXCEPT !.hs = TRUE]} \cup (IF starved THEN {card} ELSE {})

\* Mutant of SwitchSet: the clock is raised whatever the card answered
SwitchSetIgnored ==
    /\ pc = "switch1"
    /\ \/ /\ \E after \in SwitchResults :
                Exchange(DataAnswered, after, Goto("hsclock"), Goto("hsclock"))
          /\ UNCHANGED starved
       \/ NoMemory /\ Goto("hsclock")
    /\ UNCHANGED <<sdMode, hcs, tries, fn, fnError, fnSdhc, fnExtCsd, scCard, initOk, hostVars,
                   inserted>>

\* ... and in mode 1; what the card says it has done is not looked at
SwitchSet ==
    /\ pc = "switch1"
    /\ \/ /\ \E after \in SwitchResults :
                Exchange(DataAnswered, after,
                         Goto("hsclock") /\ UNCHANGED initOk, InitReturns(FALSE))
          /\ UNCHANGED starved
       \/ NoMemory /\ Goto("hsclock") /\ UNCHANGED initOk
    /\ UNCHANGED <<sdMode, hcs, tries, fn, fnError, fnSdhc, fnExtCsd, scCard, hostVars,
                   inserted>>

HighSpeedClock ==
    /\ pc = "hsclock"
    /\ BusClock(50000, InitReturns(TRUE), InitReturns(FALSE))
    /\ UNCHANGED <<sdMode, hcs, tries, fn, fnError, fnSdhc, fnExtCsd, starved, scCard, card, inserted,
                   faults>>

SdInitStep == SdClock \/ SendScr \/ SetCardWidth \/ SetHostWidth \/ SwitchQuery
              \/ SwitchSet \/ HighSpeedClock

\* sdmmc_mem_mmc_init
MmcClock ==
    /\ pc = "mmcclock"
    /\ BusClock(20000,
                IF fnExtCsd THEN Goto("extcsd") /\ UNCHANGED initOk ELSE InitReturns(TRUE),
                InitReturns(FALSE))
    /\ UNCHANGED <<sdMode, hcs, tries, fn, fnError, fnSdhc, fnExtCsd, starved, scCard, card, inserted,
                   faults>>

\* A failure to read EXT_CSD is the only one that marks the function.
ReadExtCsd ==
    /\ pc = "extcsd"
    /\ Exchange(DataAnswered, card,
                Goto("mmcclock2") /\ UNCHANGED <<fnError, initOk>>,
                InitReturns(FALSE) /\ fnError' = TRUE)
    /\ UNCHANGED <<sdMode, hcs, tries, fn, fnSdhc, fnExtCsd, starved, scCard, hostVars, inserted>>

\* 26 MHz if the card type says so
MmcClockByType ==
    /\ pc = "mmcclock2"
    /\ \E freq \in {20000, 26000} :
          BusClock(freq, Goto("mmcwidth") /\ UNCHANGED initOk, InitReturns(FALSE))
    /\ UNCHANGED <<sdMode, hcs, tries, fn, fnError, fnSdhc, fnExtCsd, starved, scCard, card, inserted,
                   faults>>

\* sdmmc_mem_mmc_switch of the bus width; SWITCH is not addressed
MmcCardWidth ==
    /\ pc = "mmcwidth"
    /\ Exchange(card.state = "tran", [card EXCEPT !.width = 4],
                Goto("mmchostwidth") /\ UNCHANGED initOk, InitReturns(FALSE))
    /\ UNCHANGED <<sdMode, hcs, tries, fn, fnError, fnSdhc, fnExtCsd, starved, scCard, hostVars,
                   inserted>>

\* The sectors of the EXT_CSD are used even if the host's width has failed.
MmcHostWidth ==
    /\ pc = "mmchostwidth"
    /\ BusWidth(InitReturns(TRUE), InitReturns(FALSE))
    /\ fnSdhc' = TRUE
    /\ UNCHANGED <<sdMode, hcs, tries, fn, fnError, fnExtCsd, starved, scCard, card, inserted, faults>>

MmcInitStep == MmcClock \/ ReadExtCsd \/ MmcClockByType \/ MmcCardWidth \/ MmcHostWidth

\* Only a marked function is given up; otherwise the disk is attached.
Attach ==
    /\ pc = "attach"
    /\ IF fnError THEN Disable("detach") ELSE Goto("attached")
    /\ UNCHANGED <<sdMode, hcs, tries, fnVars, hostVars, card, inserted, faults>>

InitStep == Select \/ SetBlocklen \/ SdInitStep \/ MmcInitStep \/ Attach

-----------------------------------------------------------------------------
(***************************************************************************)
(* sdmmc_card_detach: sdmmc_disable, whose failures are all ignored        *)
(***************************************************************************)
CardDetach ==
    /\ pc = "attached"
    /\ Disable("detach")
    /\ UNCHANGED <<sdMode, hcs, tries, fnVars, hostVars, card, inserted, faults>>

\* Mutant of Deselect: sc_card is only cleared if the card answers
DeselectIfAnswered ==
    /\ pc = "deselect"
    /\ Goto("clockoff")
    /\ IF scCard = 0 THEN UNCHANGED <<scCard, card, faults>>
       ELSE Exchange(card.state = "tran", [card EXCEPT !.state = "stby"],
                     scCard' = 0, UNCHANGED scCard)
    /\ UNCHANGED <<sdMode, hcs, tries, fn, fnError, fnSdhc, fnExtCsd, starved, initOk, hostVars,
                   inserted>>

Deselect ==
    /\ pc = "deselect"
    /\ Goto("clockoff")
    /\ scCard' = 0
    /\ IF scCard = 0 THEN UNCHANGED <<card, faults>>
       ELSE Exchange(card.state = "tran", [card EXCEPT !.state = "stby"], TRUE, TRUE)
    /\ UNCHANGED <<sdMode, hcs, tries, fn, fnError, fnSdhc, fnExtCsd, starved, initOk, hostVars,
                   inserted>>

ClockOff ==
    /\ pc = "clockoff"
    /\ Goto("poweroff")
    /\ \/ run' = FALSE /\ UNCHANGED hostFault
       \/ UNCHANGED run /\ hostFault' = TRUE
    /\ UNCHANGED <<power, clock, width, sdMode, hcs, tries, fnVars, card, inserted, faults>>

\* The second sdmmc_disable of a failed sdmmc_enable, or the freed functions
Disabled ==
    IF unwinding = "enable"
    THEN pc' = "deselect" /\ unwinding' = "detach" /\ UNCHANGED fnVars
    ELSE /\ Goto("idle")
         /\ fn' = 0 /\ fnError' = FALSE /\ fnSdhc' = FALSE /\ fnExtCsd' = FALSE
         /\ starved' = FALSE /\ initOk' = FALSE /\ UNCHANGED scCard

\* Mutant of PowerOff: the power is only cut under a card that is there
PowerOffIfPresent ==
    /\ pc = "poweroff"
    /\ Disabled
    /\ power' = (power /\ card.kind = "none") /\ run' = FALSE
    /\ card' = Restarted(card, power')
    /\ UNCHANGED <<sdMode, hcs, tries, clock, width, hostFault, inserted, faults>>

\* rtsx_bus_power for no voltage; then the host is reset, which leaves some
\* clock configured and none enabled
PowerOff ==
    /\ pc = "poweroff"
    /\ Disabled
    /\ \/ /\ power' = FALSE /\ run' = FALSE /\ clock' \in Freqs
          /\ card' = Restarted(card, FALSE)
          /\ UNCHANGED hostFault
       \/ /\ run' \in {run, FALSE} /\ hostFault' = TRUE
          /\ UNCHANGED <<power, clock, card>>
    /\ UNCHANGED <<sdMode, hcs, tries, width, inserted, faults>>

DetachStep == Deselect \/ ClockOff \/ PowerOff

-----------------------------------------------------------------------------
DriverStep == EnableStep \/ ScanStep \/ InitStep \/ DetachStep

Next == InsertCard \/ RemoveCard \/ Begin \/ CardDetach \/ DriverStep

Spec == Init /\ [][Next]_vars

(***************************************************************************)
(* The task thread runs.  Nothing makes a user insert or remove a card, or *)
(* the driver discover it.                                                 *)
(***************************************************************************)
FairSpec == Spec /\ WF_vars(DriverStep)

-----------------------------------------------------------------------------
(***************************************************************************)
(* Properties                                                              *)
(***************************************************************************)

\* sc_card never outlives the function it points to (sdmmc_select_card reads
\* sc_card->rca): it is the function of this card, and cleared before that is
\* freed, whether or not a card answers the deselection.
NoDanglingCard == scCard \in {0, fn}

\* What the host may do to a card in this state: 400 kHz while it is
\* identified, 25 MHz afterwards, 50 MHz once it has switched to high speed.
ClockLimit ==
    IF card.state \in {"idle", "ready", "ident"} THEN 400
    ELSE IF card.hs THEN 50000 ELSE 25000

\* No card hears a clock that is too fast for it from the first command on,
\* even after failures and swaps, but for one: an allocation that fails in
\* sdmmc_mem_sd_switch (sdmmc_mem.c:523-525) is taken for a card that has
\* switched.  (A card that is swapped in under power in the middle of an
\* initialisation hears the clock of the other one, but is not spoken to until
\* the driver has started again.)
NeverOverclocked ==
    /\ card.kind # "none" /\ run /\ ~starved
    /\ card.id = fn \/ pc \in (EnableLabels \cup ScanLabels) \ {"power", "clock"}
    => clock <= ClockLimit

\* If sdmmc_mem_init has succeeded, host and card agree on the bus width and on
\* the units of addresses, and SMF_SD_MODE is right, until the card is pulled.
CardAndHostAgree ==
    /\ TypeOK
    /\ pc = "attached" /\ initOk /\ card.id = fn =>
          /\ width = card.width
          /\ fnSdhc = (card.kind \in {"SDHC", "MMC4"})
          /\ sdMode = IsSD(card)

\* A card that is given up, or detached, is left without power and clock, and
\* its function is freed, unless the host itself fails.
OffWhenIdle ==
    pc = "idle" => /\ fn = 0 /\ scCard = 0
                   /\ ~hostFault => ~power /\ ~run

\* sdmmc_card_attach and sdmmc_card_detach come to an end: the first command is
\* tried in two modes and no more, the OCR is sent OpCondTries times.
AttachEnds == pc \notin {"idle", "attached"} ~> pc \in {"idle", "attached"}

(***************************************************************************)
(* A claim of the repository that the code does not keep.                  *)
(***************************************************************************)

\* sdmmc_mem.c:688 "High Speed mode, Frequency up to 50MHz.", where the clock is
\* raised: the card of the function is in high speed mode when it runs at 50 MHz.
FastMeansHighSpeed ==
    pc = "attached" /\ initOk /\ card.id = fn /\ run /\ clock = 50000 => card.hs
=============================================================================
