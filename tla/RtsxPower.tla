------------------------------ MODULE RtsxPower ------------------------------
(***************************************************************************)
(* Power, clock and width of the bus, the LED, and the saving of registers *)
(* over a sleep (3rdParty/openbsd/rtsx.c), down to the register accesses.  *)
(* All of them go through one window, RTSX_HAIMR: rtsx_read and rtsx_write *)
(* put a request there and poll until the chip has done it.  Three threads *)
(* do so: the task thread under the global lock (but for rtsx_bus_width),  *)
(* the interrupt thread with no lock (rtsx_card_insert, rtsx_card_eject),  *)
(* and the thread of setPowerState, with the lock only to save and restore.*)
(*                                                                         *)
(* A register is the set of its bits that are set.  Writes to registers on *)
(* which nothing here depends are left out, but their failures are not:    *)
(* they come before the next write that is kept (SkippedFails).  The LED   *)
(* is one such register, "MISC", kept because the interrupt thread writes  *)
(* it.  The boot argument -rtsx_mimic_linux is off, and the chip is not an *)
(* RTS5209.                                                                *)
(***************************************************************************)
EXTENDS Naturals, Sequences, FiniteSets

CONSTANTS
    Freqs,      \* frequencies that are asked for, of 400 (kHz), 25000 and 50000
    MaxOps,     \* bound: operations of the task thread
    MaxMeets    \* bound: card events and sleeps, together

ASSUME PowerAssumption ==
    /\ Freqs \subseteq {400, 25000, 50000} /\ Freqs # {}
    /\ MaxOps \in Nat /\ MaxMeets \in Nat

VARIABLES
    regs,      \* the registers of the chip
    haimr,     \* the window: busy or not, the request, the value that was read
    owner, depth, \* the global lock
    todo,      \* what each thread has still to do
    polling,   \* the threads that have put a request in the window
    op,        \* the operation of the task thread
    saved,     \* sc->regs and sc->regs4[4]
    power,     \* the power state: "on", "saving", "asleep", "init", "restore", "led"
    ops, meets,
    (* history *)
    limit,     \* the fastest clock that may be seen on the bus
    off,       \* rtsx_bus_power(0) was the last to change the power, and succeeded
    restored,  \* a sleep came after the last change of power
    leaks,     \* returns from rtsx_bus_clock without splx
    overlap    \* two threads have used the window at once

window  == <<haimr, polling>>
lock    == <<owner, depth>>
counts  == <<ops, meets>>
history == <<limit, off, restored, leaks, overlap>>
vars    == <<regs, window, lock, todo, op, saved, power, counts, history>>

Threads == {"task", "intr", "pm"}

\* The bits of each register that matter: in CARD_PWR_CTL, 3 is off, 1 partial
\* power and 0 full power; in SD_CFG1, divide by 128 and the width.
Bits == [CLK_EN |-> {"sd"}, OE |-> {"out"}, PWR |-> {0, 1}, CFG1 |-> {"div128", "w4"},
         CLK_CTL |-> {"low"}, CLK_DIV |-> {2, 4, 8}, DIV_N |-> {80, 100},
         MISC |-> {}]
Regs == DOMAIN Bits

SD_PWR_OFF        == {0, 1}
SD_PARTIAL_PWR_ON == {0}

\* RTSX_SD_CFG1 and RTSX_CARD_OE are in the ranges that are saved.
SavedRegs == {"OE", "CFG1"}

\* The registers after a loss of power: the fastest clock, as the worst case.
Reset == [r \in Regs |-> IF r = "PWR" THEN SD_PWR_OFF
                         ELSE IF r = "CLK_DIV" THEN {2} ELSE IF r = "DIV_N" THEN {100} ELSE {}]

\* A request that the window holds, and one that is done and left its byte
Request(s) == [kind |-> s.kind, reg |-> s.reg, mask |-> s.mask, on |-> s.on, byte |-> s.byte]
Done(byte) == [kind |-> "done", reg |-> "MISC", mask |-> {}, on |-> {}, byte |-> byte]
NoOp   == [kind |-> "none", freq |-> 400, failed |-> FALSE, old |-> FALSE]

Init ==
    /\ regs = Reset
    /\ haimr = [busy |-> FALSE, step |-> Done("any"), value |-> {}]
    /\ owner = "none" /\ depth = 0
    /\ todo = [t \in Threads |-> <<>>] /\ polling = {}
    /\ op = NoOp
    /\ saved = [CFG1 |-> {}, OE |-> {}, haimr |-> haimr]
    /\ power = "on"
    /\ ops = 0 /\ meets = 0
    /\ limit = 51000 /\ off = FALSE /\ restored = FALSE /\ leaks = 0 /\ overlap = FALSE

-----------------------------------------------------------------------------
(***************************************************************************)
(* Operations are sequences of steps.  What a failed access does:          *)
(*   "ignore"  the operation goes on                                       *)
(*   "unlock"  it goes to its splx and fails                               *)
(*   "done"    it goes to its splx and succeeds                            *)
(*   "return"  the macro returns from the function at once                 *)
(***************************************************************************)
Step(kind, reg, mask, on, byte, onfail) ==
    [kind |-> kind, reg |-> reg, mask |-> mask, on |-> on, byte |-> byte, onfail |-> onfail]

Splsdmmc == <<Step("lock", "MISC", {}, {}, "", "")>>
Splx     == <<Step("unlock", "MISC", {}, {}, "", "")>>

\* RTSX_SET, RTSX_CLR and RTSX_WRITE
SetBits(r, bits, onfail) == <<Step("write", r, bits, bits, "ff", onfail)>>
ClrBits(r, bits, onfail) == <<Step("write", r, bits, {}, "00", onfail)>>
Write(r, value, onfail)  == <<Step("write", r, Bits[r], value, "value", onfail)>>
Read(r)                  == <<Step("read", r, {}, {}, "any", "ignore")>>

StopSdClock(onfail) == ClrBits("CLK_EN", {"sd"}, onfail)

\* Mutant of BusPowerOff: power goes first
BusPowerOffEarly(onfail) ==
    SetBits("PWR", SD_PWR_OFF, onfail) \o StopSdClock(onfail) \o ClrBits("OE", {"out"}, onfail)

BusPowerOff(onfail) ==
    StopSdClock(onfail) \o ClrBits("OE", {"out"}, onfail) \o SetBits("PWR", SD_PWR_OFF, onfail)

BusPowerOn(onfail) ==
    SetBits("CLK_EN", {"sd"}, onfail) \o SetBits("PWR", SD_PARTIAL_PWR_ON, onfail)
    \o ClrBits("PWR", SD_PWR_OFF, onfail) \o Write("OE", {"out"}, onfail)

SetBusWidth(w, onfail) ==
    <<Step("write", "CFG1", {"w4"}, IF w = 4 THEN {"w4"} ELSE {},
           IF w = 4 THEN "01" ELSE "00", onfail)>>

\* rtsx_init
ChipInit(onfail) == ClrBits("CLK_EN", {"sd"}, onfail)

HostReset(onfail) == Splsdmmc \o ChipInit(onfail) \o Splx

\* Mutant of PowerDown: nor are those of the writes that cut the power
PowerDownIgnores == Splsdmmc \o BusPowerOff("ignore") \o Splx \o HostReset("done")

\* rtsx_bus_power(0): the result of the reset is not looked at.
PowerDown == Splsdmmc \o BusPowerOff("unlock") \o Splx \o HostReset("done")

\* Mutant of PowerUp: a failed write of rtsx_bus_power_on returns from here
PowerUpReturns ==
    Splsdmmc \o BusPowerOff("unlock") \o BusPowerOn("return")
    \o SetBusWidth(1, "unlock") \o Splx

PowerUp ==
    Splsdmmc \o BusPowerOff("unlock") \o BusPowerOn("unlock")
    \o SetBusWidth(1, "unlock") \o Splx

\* The rows of the table of rtsx_bus_clock: n and div
Row(freq) == CASE freq = 400   -> [n |-> 80,  div |-> 8]
               [] freq = 25000 -> [n |-> 100, div |-> 4]
               [] freq = 50000 -> [n |-> 100, div |-> 2]

\* Mutant of Divide: nothing divides the clock by 128
DivideNot(freq) == ClrBits("CFG1", {"div128"}, "return")

Divide(freq) == IF freq = 400 THEN SetBits("CFG1", {"div128"}, "return")
                ELSE ClrBits("CFG1", {"div128"}, "return")

SwitchSdClock(row, onfail) ==
    SetBits("CLK_CTL", {"low"}, onfail) \o Write("CLK_DIV", {row.div}, onfail)
    \o Write("DIV_N", {row.n}, onfail) \o ClrBits("CLK_CTL", {"low"}, onfail)

\* The macros in rtsx_bus_clock itself return with the lock held.
BusClock(freq) ==
    Splsdmmc \o Divide(freq) \o SwitchSdClock(Row(freq), "unlock") \o Splx

ClockOff == Splsdmmc \o StopSdClock("unlock") \o Splx

LedEnable  == SetBits("MISC", {}, "return")
LedDisable == ClrBits("MISC", {}, "return")

\* RTSX_HAIMR itself is saved last, and written first.
SaveRegs ==
    Splsdmmc \o Read("CFG1") \o Read("OE")
    \o <<Step("save", "MISC", {}, {}, "", "")>> \o Splx

RestoreRegs ==
    Splsdmmc \o <<Step("restore", "MISC", {}, {}, "", "")>>
    \o Write("CFG1", saved["CFG1"], "ignore")
    \o Write("OE", saved["OE"], "ignore") \o Splx

-----------------------------------------------------------------------------
(***************************************************************************)
(* The steps of a thread.  Nothing runs while the system sleeps.           *)
(***************************************************************************)
Head1(t, kind) == power # "asleep" /\ todo[t] # <<>> /\ Head(todo[t]).kind = kind

Advance(t) == todo' = [todo EXCEPT ![t] = Tail(@)]

\* IORecursiveLockLock
LockStep(t) ==
    /\ Head1(t, "lock")
    /\ owner \in {"none", t}
    /\ owner' = t /\ depth' = depth + 1
    /\ Advance(t)
    /\ UNCHANGED <<regs, window, op, saved, power, counts, history>>

UnlockStep(t) ==
    /\ Head1(t, "unlock")
    /\ depth' = depth - 1
    /\ owner' = IF depth = 1 THEN "none" ELSE t
    /\ Advance(t)
    /\ UNCHANGED <<regs, window, op, saved, power, counts, history>>

\* WRITE4 of a request to RTSX_HAIMR: whatever was there is gone.
PutInWindow(t, content) ==
    /\ haimr' = content
    /\ overlap' = (overlap \/ polling \ {t} # {})

Issue(t) ==
    /\ Head1(t, "write") \/ Head1(t, "read")
    /\ t \notin polling
    /\ PutInWindow(t, [busy |-> TRUE, step |-> Request(Head(todo[t])), value |-> {}])
    /\ polling' = polling \cup {t}
    /\ UNCHANGED <<regs, lock, todo, op, saved, power, counts, limit, off, restored, leaks>>

SaveWindow(t) ==
    /\ Head1(t, "save")
    /\ saved' = [saved EXCEPT !.haimr = haimr]
    /\ Advance(t)
    /\ UNCHANGED <<regs, window, lock, op, power, counts, history>>

RestoreWindow(t) ==
    /\ Head1(t, "restore")
    /\ PutInWindow(t, saved.haimr)
    /\ Advance(t)
    /\ UNCHANGED <<regs, polling, lock, op, saved, power, counts, limit, off, restored, leaks>>

\* rtsx_read: all of its outcomes store what the window shows, because a poll
\* that ran out of tries is taken for a success, and one that had its answer
\* at the last try for a failure; nobody looks at the result of those here.
PollRead(t) ==
    /\ Head1(t, "read") /\ t \in polling
    /\ \E v \in IF ~haimr.busy /\ haimr.step = Request(Head(todo[t])) THEN {haimr.value}
                ELSE SUBSET Bits[Head(todo[t]).reg] :
          saved' = [saved EXCEPT ![Head(todo[t]).reg] = v]
    /\ polling' = polling \ {t}
    /\ Advance(t)
    /\ UNCHANGED <<regs, haimr, lock, op, power, counts, history>>

\* rtsx_write: done if the low byte of the window is the byte that was written
PollWrite(t) ==
    /\ Head1(t, "write") /\ t \in polling
    /\ ~haimr.busy /\ haimr.step.byte \in {Head(todo[t]).byte, "any"}
    /\ polling' = polling \ {t}
    /\ Advance(t)
    /\ UNCHANGED <<regs, haimr, lock, op, saved, power, counts, history>>

\* What a write that fails leaves of its operation
Fail(t) ==
    /\ LET onfail == Head(todo[t]).onfail
       IN  /\ todo' = [todo EXCEPT ![t] = CASE onfail = "ignore" -> Tail(@)
                                            [] onfail \in {"unlock", "done"} -> Splx
                                            [] onfail = "return" -> <<>>]
           /\ op' = [op EXCEPT !.failed = @ \/ (t = "task" /\ onfail \in {"unlock", "return"})]
           /\ leaks' = leaks + IF t = "task" /\ op.kind = "clock" /\ onfail = "return" THEN 1 ELSE 0
    /\ UNCHANGED <<regs, haimr, lock, saved, power, counts, limit, off, restored, overlap>>

\* EIO if the byte is another, ETIMEDOUT if the chip takes too long
WriteFails(t) ==
    /\ Head1(t, "write") /\ t \in polling
    /\ haimr.busy \/ haimr.step.byte # Head(todo[t]).byte
    /\ polling' = polling \ {t}
    /\ Fail(t)

\* A write that is left out, before this one, fails.
SkippedFails(t) ==
    /\ Head1(t, "write") /\ t \notin polling
    /\ Head(todo[t]).onfail # "ignore"
    /\ UNCHANGED polling
    /\ Fail(t)

ThreadStep(t) ==
    \/ LockStep(t) \/ UnlockStep(t) \/ Issue(t)
    \/ SaveWindow(t) \/ RestoreWindow(t)
    \/ PollRead(t) \/ PollWrite(t) \/ WriteFails(t) \/ SkippedFails(t)

\* The chip does what the window asks for.
ChipAccess ==
    /\ power # "asleep" /\ haimr.busy
    /\ LET s == haimr.step
       IN  IF s.kind = "read"
           THEN /\ haimr' = [haimr EXCEPT !.busy = FALSE, !.value = regs[s.reg]]
                /\ UNCHANGED regs
           ELSE /\ haimr' = [haimr EXCEPT !.busy = FALSE, !.step = Done(s.byte)]
                /\ regs' = [regs EXCEPT ![s.reg] = (@ \ s.mask) \cup s.on]
    /\ UNCHANGED <<polling, lock, todo, op, saved, power, counts, history>>

-----------------------------------------------------------------------------
(***************************************************************************)
(* The threads                                                             *)
(***************************************************************************)

\* The frequency that n and div give, in kHz; dividing by 128 or the low
\* frequency make it one that any card stands.
Ssc(n, div) == ((n + 2) * 1000) \div div

Speed(freq) == IF freq = 400 THEN 400 ELSE Ssc(Row(freq).n, Row(freq).div)

\* A row that is being written lacks no value: n and div change one by one.
BusSpeed ==
    IF "low" \in regs["CLK_CTL"] \/ "div128" \in regs["CFG1"] THEN 400
    ELSE Ssc(CHOOSE n \in regs["DIV_N"] : TRUE, CHOOSE d \in regs["CLK_DIV"] : TRUE)

Fastest(a, b) == IF a > b THEN a ELSE b

Call(kind, freq, steps) ==
    /\ power # "asleep" /\ todo["task"] = <<>> /\ op.kind = "none" /\ ops < MaxOps
    /\ ops' = ops + 1
    /\ op' = [kind |-> kind, freq |-> freq, failed |-> FALSE, old |-> power # "on"]
    /\ todo' = [todo EXCEPT !["task"] = steps]
    /\ limit' = IF kind = "clock" THEN Fastest(limit, Speed(freq)) ELSE limit
    /\ off' = (off /\ kind # "up")
    /\ UNCHANGED <<regs, window, lock, saved, power, meets, restored, leaks, overlap>>

\* rtsx_bus_power, rtsx_bus_clock, rtsx_bus_width and rtsx_host_reset, as the
\* task thread calls them
TaskCalls ==
    \/ Call("down", 400, PowerDown)
    \/ Call("up", 400, PowerUp)
    \/ \E f \in Freqs : Call("clock", f, BusClock(f))
    \/ Call("stop", 400, ClockOff)
    \/ \E w \in {1, 4} : Call("width", 400, SetBusWidth(w, "return"))

TaskReturns ==
    /\ todo["task"] = <<>> /\ op.kind # "none"
    /\ op' = NoOp
    /\ limit' = IF op.kind = "clock" /\ ~op.failed /\ ~op.old THEN Speed(op.freq) ELSE limit
    /\ LET changed == ~op.failed /\ ~op.old
       IN  /\ off' = (off \/ (op.kind = "down" /\ changed))
           /\ restored' = (restored /\ ~(op.kind \in {"down", "up"} /\ changed))
    /\ UNCHANGED <<regs, window, lock, todo, saved, power, counts, leaks, overlap>>

\* rtsx_card_insert and rtsx_card_eject in the interrupt thread
CardEvent ==
    /\ power # "asleep" /\ todo["intr"] = <<>> /\ meets < MaxMeets
    /\ meets' = meets + 1
    /\ \E led \in {LedEnable, LedDisable} : todo' = [todo EXCEPT !["intr"] = led]
    /\ UNCHANGED <<regs, window, lock, op, saved, power, ops, history>>

\* setPowerState: suspend saves the registers; the resume initialises the chip
\* whatever comes of it, restores them, and looks for the card.
PmGoes(from, to, steps) ==
    /\ power = from /\ todo["pm"] = <<>>
    /\ power' = to
    /\ todo' = [todo EXCEPT !["pm"] = steps]

Suspend ==
    /\ meets < MaxMeets
    /\ PmGoes("on", "saving", SaveRegs)
    /\ meets' = meets + 1
    /\ off' = FALSE /\ restored' = TRUE /\ op' = [op EXCEPT !.old = TRUE]
    /\ UNCHANGED <<regs, window, lock, saved, ops, limit, leaks, overlap>>

Sleep ==
    /\ PmGoes("saving", "asleep", <<>>)
    /\ UNCHANGED <<regs, window, lock, op, saved, counts, history>>

\* The chip may have lost its registers in the sleep.
WakeUp ==
    /\ PmGoes("asleep", "init", ChipInit("return"))
    /\ \/ UNCHANGED <<regs, haimr>>
       \/ regs' = Reset /\ haimr' = [busy |-> FALSE, step |-> Done("any"), value |-> {}]
    /\ limit' = 51000
    /\ UNCHANGED <<polling, lock, op, saved, counts, off, restored, leaks, overlap>>

Resume ==
    /\ \/ PmGoes("init", "restore", RestoreRegs)
       \/ \E led \in {LedEnable, LedDisable} : PmGoes("restore", "led", led)
       \/ PmGoes("led", "on", <<>>)
    /\ UNCHANGED <<regs, window, lock, op, saved, counts, history>>

Next ==
    \/ \E t \in Threads : ThreadStep(t)
    \/ ChipAccess
    \/ TaskCalls \/ TaskReturns \/ CardEvent
    \/ Suspend \/ Sleep \/ WakeUp \/ Resume

Spec == Init /\ [][Next]_vars

-----------------------------------------------------------------------------
(***************************************************************************)
(* Properties                                                              *)
(***************************************************************************)
TypeOK ==
    /\ \A r \in Regs : regs[r] \subseteq Bits[r]
    /\ owner \in Threads \cup {"none"} /\ depth \in Nat /\ (depth = 0) = (owner = "none")
    /\ polling \subseteq {t \in Threads : todo[t] # <<>>}
    /\ op.kind \in {"none", "down", "up", "clock", "stop", "width"}
    /\ saved.CFG1 \subseteq Bits["CFG1"] /\ saved.OE \subseteq Bits["OE"]
    /\ power \in {"on", "saving", "asleep", "init", "restore", "led"}
    /\ ops <= MaxOps /\ meets <= MaxMeets

\* Unless two threads met in the window, or a sleep has brought back old
\* registers since the power was last set:
Undisturbed == ~overlap /\ ~restored

\* The outputs to the card are never driven while it has less than full power,
\* whichever accesses fail (rtsx_bus_power_off, rtsx_bus_power_on).
OutputNeedsPower == Undisturbed /\ regs["OE"] # {} => regs["PWR"] = {}

\* While rtsx_bus_clock is at work, and after it failed half-way, the card hears
\* no clock that is faster than both the old and the new one.
NeverFaster == Undisturbed /\ regs["CLK_EN"] # {} => BusSpeed <= limit

\* Off is off: once rtsx_bus_power(0) has succeeded, though it ignores how the
\* reset went, the card has no power, clock or driven outputs until the next
\* rtsx_bus_power.
OffIsOff ==
    off /\ Undisturbed => regs["PWR"] = SD_PWR_OFF /\ regs["OE"] = {} /\ regs["CLK_EN"] = {}

\* An operation gives back every level of the lock it took, but for a failed
\* access in the body of rtsx_bus_clock, which keeps one level for ever.
LocksReturned ==
    /\ TypeOK
    /\ \A t \in Threads : todo[t] = <<>> =>
          (IF owner = t THEN depth ELSE 0) = (IF t = "task" THEN leaks ELSE 0)
=============================================================================
