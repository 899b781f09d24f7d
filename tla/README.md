# Formal verification of Sinetek-rtsx

Sinetek-rtsx is a macOS kernel extension for Realtek PCIe card readers: OpenBSD's `rtsx` and `sdmmc` drivers
(`Sinetek-rtsx/3rdParty/openbsd`), a compatibility layer that gives them OpenBSD's kernel services on top of IOKit
(`Sinetek-rtsx/compat`), and an IOKit driver and block device around them (`Sinetek_rtsx.cpp`, `SDDisk.cpp`). This
directory holds TLA+ models of the parts where threads, cards, interrupts and errors meet, TLC configurations that
check them on small instances, and TLAPS proofs.

## 1. Inventory

### Threads

| Thread | Runs | Code |
|---|---|---|
| interrupt work loop | `InterruptFilter`, `InterruptHandler`, `rtsx_intr` | Sinetek_rtsx.cpp:174, 499; rtsx.c:1720 |
| task thread | `sdmmc_task_thread`: discoveries and I/O requests, and every command to the card | sdmmc.c:216 |
| power management | `setPowerState`: `rtsx_activate`, `rtsx_init`, `sdmmc_activate` | Sinetek_rtsx.cpp:317 |
| storage clients | `SDDisk::doAsyncReadWrite`, `doEjectMedia` | SDDisk.cpp:159, 444 |
| start / stop | `rtsx_attach`, `sdmmc_attach`; `sdmmc_detach` | Sinetek_rtsx.cpp:99, 160 |

`splsdmmc`/`splx` are one global recursive lock (spl.cpp). `tsleep_nsec` gives that lock up as it falls asleep; called
without the lock it sleeps a millisecond and returns. `wakeup` needs no lock and leaves no trace when nobody sleeps.

### Components

| Component | State | Operations | Hard because | What makes it right | Module |
|---|---|---|---|---|---|
| task queue and thread (sdmmc.c) | `sc_tskq`, `onqueue`, `sc_dying` | add, delete, discover request, thread loop, suspend, detach | five threads; some shared words are outside the lock | no task lost, run twice or slept over; the thread ends when told to and only then | `SdmmcTasks`, `Tailq`, `TaskFifo` |
| command completion (rtsx.c) | `intr_status`, BIPR | start a command, wait, interrupt handler, soft reset | unlocked read-modify-writes, wakeups, deadlines | a wait returns the verdict on its own command | `RtsxIntr` |
| card discovery and disks (sdmmc.c, Sinetek_rtsx.cpp) | `SMF_*`, `RTSX_F_CARD_PRESENT`, `sc_fn0`, `sddisk_` | insert, remove, eject, suspend, discover, attach, detach, terminate | every pair of these can overlap; every card step can fail | one live disk, that of the attached card; every flag change is acted on; a request reaches its own card | `SdmmcBus` |
| block device (SDDisk.cpp) and data commands (sdmmc_mem.c) | `BioArgs`, bounce buffer, DMA map | request check, chunks, retries, read, write, stop, status | partial failures in the middle of a transfer | success means that everything was transferred; bounce buffer and DMA map are given back; every request ends | `BlockIO`, `BlockDevice` |
| card initialisation (sdmmc.c, sdmmc_mem.c, settings of rtsx.c) | `sc_fn0`, `sc_card`, `SMF_SD_MODE`, flags; power, clock and width of the host | enable, scan, init, disable | many commands, each may fail with or without effect; the card may be swapped at any time | no card is driven faster than it can; host and card agree; no pointer to a freed function; the card ends attached or without power | `CardInit` |
| host registers, power, clock (rtsx.c) | chip registers, the window `RTSX_HAIMR`, saved registers | polls, power on and off, clock change, width, save, restore | three threads share one window; macros return in the middle; registers come back old after a sleep | an unpowered card is not driven; no clock faster than asked for; off is off; the lock is given back | `RtsxPower` |
| command execution (rtsx.c) | command buffer, bounce buffer, ADMA table, what the chip works on | `rtsx_exec_command`, `rtsx_hostcmd_send`, `rtsx_xfer`, `rtsx_xfer_bounce`, `rtsx_xfer_adma` | nine error paths, a chip that ends late | everything released; the chip works on live buffers; success means that the data has moved | `RtsxExec` |
| DMA layer (dma.cpp, util_dict.h) | memory descriptors, maps, table of mapped buffers, segments | alloc, map, load and the reverse | arrays of fixed length tested late | the arrays suffice; the segments cover the transfer | `DmaSegments`, `RtsxExec` |
| driver life cycle (Sinetek_rtsx.cpp, rtsx_attach, config.cpp, openbsd.cpp) | `sc->sdmmc`, `sc->ioh`, work loops, event sources, DMA maps | start, stop, attach and its labels, power states | the other threads run while it is built up and taken down | nobody meets what is missing or freed but in known windows; a failed attach leaves nothing | `Driver` |
| lock shims (spl.cpp, rwlock.cpp) | recursive lock | lock, unlock, sleep | given up in a sleep; levels can be lost | every level taken is given back | part of `SdmmcTasks`, `RtsxIntr`, `RtsxPower` |
| SDIO, CIS (sdmmc_io.c, sdmmc_cis.c) | | | never reached: `SMF_IO_MODE` is never set | | not modelled |
| bus space, chip quirks, headers, logging, scripts | | | register access, constants, text | | not modelled |

The components interact so: the slot raises an interrupt; `rtsx_intr` sets `RTSX_F_CARD_PRESENT` and calls
`sdmmc_needs_discover`, which queues the one discover task; the task thread runs it and attaches or detaches the card
and its `SDDisk`; clients of the disk queue requests on the same queue; the task thread executes them with commands
that start the chip and sleep until `rtsx_intr` wakes them; suspend and stop end the thread's loop through `sc_dying`;
start and stop make and free what all of these follow pointers to.

## 2. Modules

### `SdmmcTasks`, with `Tailq` and `TaskFifo`

`Tailq` models `TAILQ_INSERT_TAIL` and `TAILQ_REMOVE` pointer by pointer, because `sdmmc_needs_discover` tests
`onqueue` outside the critical section that inserts, and an element inserted twice is only meaningful at that level.
`SdmmcTasks` has one action per critical section or unlocked access: `CallerCheck`/`CallerAdd` are
`sdmmc_needs_discover`, `Task*` are the lines of `sdmmc_task_thread`, `Suspend` to `ResumeWakeup` are `setPowerState`
with `sdmmc_activate`, `DetachBegin`/`DetachPoll` are `sdmmc_detach`. `lock` is the global lock where it is held over
several steps, that is, from the test of `sc_dying` to the sleep. What a task does is abstract: a request only counts
as run, a discovery sets `SMF_CARD_PRESENT` to either value. `overlap` is a history variable: two
`sdmmc_needs_discover` calls have both found the discover task idle. `TaskFifo` is the abstract queue: put at the
tail, take the head, and the head is eventually taken; after an overlap anything may happen. After `sdmmc_detach` the
structure is freed and the module stops: later accesses would be undefined behaviour.

### `RtsxIntr`

`Send` is `rtsx_hostcmd_send`/`rtsx_xfer_exec`, `Wait*` are the lines of `rtsx_wait_intr`, `Intr*` those of
`rtsx_intr`. `intr_status |= status` and `intr_status &= ~status` are a read and a write each, since nothing orders
the two threads. The chip ends a command well, badly or never, and a deadline may pass at any time the waiter sleeps.

### `SdmmcBus`

The slot and the chip's pending bit are the environment; `rtsx_intr` is read, acknowledge, flag, request, with the
slot free to change between any two; `doEjectMedia`, `setPowerState` and `doAsyncReadWrite` are two to five steps
each. The resume looks at the slot twice, once in `rtsx_init`, whose failure is ignored (`ResumeInit`, `ResumeFound`),
and once in `rtsx_activate` (`ResumeRead`); the flag is set in later steps (`ResumeFlag`), so `rtsx_intr` may handle a
whole card event in between. The task thread's `CardEnable`, `CardScan`, `CardInit` stand for `sdmmc_enable`,
`sdmmc_scan`, `sdmmc_init` as wholes: each succeeds only if a card answers, and may fail even then. The queue is a sequence and
`sdmmc_needs_discover` one step: `SdmmcTasks` shows when that is justified. Disks are records that stay after
termination, so that requests of a dead disk can be followed; IOKit detaches a terminated disk at any later time.
`BlkAttach` may leave no disk (Sinetek_rtsx.cpp:456-465), or one that was freed as soon as it was made, because the
result of `SDDisk::attach` is not looked at; SMF_CARD_ATTACHED is set all the same (sdmmc.c:359-366). The later
`terminate()` of a freed object only forgets it in the model: what it damages in the program is outside. Otherwise
`terminate()` is taken to succeed, here and in `Driver`; if it ever returned false, `blk_detach` would print it and
drop the pointer (Sinetek_rtsx.cpp:481-485), and that disk would stay. A physical card is a number, which is what lets
the properties say *which* card a request touched. Requests that a disk has queued before it was terminated do run,
and if a card has been attached by then, with that card (SDDisk.cpp:459 refuses only what comes later):
`TransfersOwnCard` is about disks that are live.

### `BlockIO` and `BlockDevice`

`BlockIO` follows one request at a time through `read_task_impl_` (allocation, chunks, copies, retries, completion)
and `sdmmc_mem_read_block`/`sdmmc_mem_write_block` (map load, select, data, stop, status, unload). A failing data
command has transferred any prefix of its blocks. `BlockDevice` is what clients may rely on; the refinement is the
identity on `req`, `card`, `mem` and `result`. The client's buffer copies are whole or nothing: a client passes a
buffer as long as its request.

### `CardInit`

One action per command to the card or setting of the host, in the order of `sdmmc_enable`, `sdmmc_mem_scan`,
`sdmmc_mem_sd_init`/`sdmmc_mem_mmc_init` and `sdmmc_disable`; `pc` is the place in that sequence. `Exchange` is a
command: it needs a card with power and clock that can answer in its state, and even then may fail, with the card
having obeyed or not. `BusPowerOn`, `BusClock`, `BusWidth`, `PowerOff` are the settings, with the register writes of
each as one step that may fail half-way. The card has a state (idle, ready, ident, stby, tran), a width and a speed;
`InsertCard` and `RemoveCard` happen between any two steps. What the code ignores is ignored: the results of
`sdmmc_go_idle_state`, of `sdmmc_select_card` and `sdmmc_mem_set_blocklen` in `sdmmc_mem_init` (sdmmc_mem.c:577-583),
of `sdmmc_mem_init` in `sdmmc_init`, and all of them in `sdmmc_disable`. The contents of CSD, SCR and EXT_CSD are
choices of the card, limited to what the code branches on. `rtsx_attach` announces a 4-bit bus and DMA only
(rtsx.c:242), so the 8-bit, DDR and high-speed MMC branches cannot run. A failing `malloc` in `sdmmc_mem_send_scr` or
`sdmmc_mem_sd_switch` sends nothing and is a success: what is decoded afterwards is anything, and the history variable
`starved` says that it has happened in a switch since the card was last brought up.

### `RtsxExec` and `DmaSegments`

`RtsxExec` has one action per call that `rtsx_exec_command` and the `rtsx_xfer` family make to the DMA layer or the
chip, with the place in `pc`; the operators `Alloc`, `Map`, `Load`, `Unload`, `Unmap`, `Free` are the functions of
dma.cpp, and each use of one names where it starts and where it goes when it succeeds and when it fails, as the
`goto`s of the code do. The table of `util_dict.h` is modelled slot by slot, some of them taken by other readers. The
chip takes host commands from the buffer it was started with (`hcb`) and data from those of the last trigger (`hdb`),
and ends a run well, badly, late or never; which wait takes that completion is the wait's affair, and `misled` records
that it was the wrong one (the case that `RtsxIntr` explains). SDDisk's bounce buffer, with its loads of `sc_dmap`,
surrounds the commands. `DmaSegments` has the two loops of dma.cpp that cut a buffer into segments, as functions on
sequences of lengths in pages.

### `RtsxPower`

A register is the set of its bits that matter here; registers nothing depends on are left out, but their failing
writes are kept (`SkippedFails`). An operation of the code is a sequence of steps (`PowerUp`, `PowerDown`, `BusClock`,
`SaveRegs`, ...), each with what the code does when the access fails: ignore it, go to `splx`, or return from the
middle of the function as the `RTSX_*` macros do. `Issue` puts a request in `RTSX_HAIMR`, `ChipAccess` executes it,
`PollRead` and `PollWrite` are the two polls with their ways of being wrong about it. The interrupt thread (the LED)
and `setPowerState` use the same window without the lock, which is `overlap`.

### `Driver`

`spc` is the place in `start`, `rtsx_pci_attach`, `rtsx_attach` and `stop`; `held` is what has been acquired and not
released; `DmaStep(k)` is the k-th acquisition of `rtsx_attach` and `UndoFrom(k)` the labels its failure falls
through. The interrupt work loop, `setPowerState`, the clients and the task thread run beside it, each kept as far as
it decides who follows which pointer. `BusMet`, `BusKept` and `RegsMet` say what is met at that moment: the device,
NULL, a device without its queue, freed memory, unmapped registers. The first bad meeting is recorded in `bad` and
ends the behaviour, for what comes after it is undefined.

### How the modules fit together

Each module abstracts what another one details: a discovery of `SdmmcTasks` is `DiscoverCard` to `CardDisable` of
`SdmmcBus`; `CardEnable`, `CardScan` and `CardInit` of `SdmmcBus` are the whole of `CardInit`; a transfer of
`SdmmcBus` is the whole of `BlockIO`; a command of `CardInit` or `BlockIO` is a command of `RtsxExec`; a wait of
`RtsxExec` is `RtsxIntr`; a setting of `CardInit` is an operation of `RtsxPower`. The abstract step may fail in all the
ways that the detailed one may, with one exception: in `BlockIO` and `CardInit` a command that is reported as done was
done. After a wait that timed out this need not be so (`intr_stale`), and then `DeviceSpec` and `CardAndHostAgree`,
with their theorems `ImplementsBlockDevice` and `Agree`, say nothing; `RtsxExec` carries the case (`misled`) and
`RtsxIntr` says how far it reaches (`SuccessesBacked`). Two of these links are refinements that are checked: `BlockIO`
implements `BlockDevice`, `SdmmcTasks` implements `TaskFifo`.

## 3. Runs

| Run | Bounds | Shows |
|---|---|---|
| `tasks` | 1 caller with 1 call, 2 requests, 1 suspend, stop | no task slept over, no discovery forgotten, list sound until an overlap, suspend never ends the thread; every queued request runs and every discovery starts unless calls overlap; `sdmmc_detach` returns if the machine stays awake; the pointer queue implements `TaskFifo`, its fairness included |
| `intr` | 3 commands, 2 card events | results exact until a wait times out; every success goes back to a command that ended well, one each as long as no command has failed; every wait returns |
| `bus_safety` | 2 cards, 1 eject, 1 suspend, 1 request | one live disk, a disk only for the function of an attached card, a live disk's request reaches its own card |
| `bus_live` | 1 card, 1 eject, 1 suspend, 1 request | every change of the card flag is acted on; the flag settles to what is in the slot unless an event was wiped out, an old reading was set after it, or the disk was ejected; a live disk's request is completed |
| `io` | 4 blocks, chunks of 2, 2 retries, 2 requests | refinement of `BlockDevice`, counters in step, bounce buffer and DMA map given back, every request completed |
| `card` | 4 kinds of cards, 2 cards, 2 commands that fail by themselves, any failing settings, 3 tries of the OCR | no card overclocked unless `sdmmc_mem_sd_switch` had no memory, host and card agree after a successful initialisation, no dangling `sc_card`, no power left on, the attach ends |
| `exec` | table of 3 slots of which any number is taken, 5 addresses, transfers of up to 3 pages, 2 commands | nothing leaks, the table and the arrays of segments are long enough, the chip works on live buffers, it is at rest after a command if Linux is mimicked, a success means that the data has moved, the ADMA table covers the transfer |
| `power` | 400 kHz and 50 MHz, 2 operations of the task thread, 1 card event or sleep | outputs are driven with full power only, no clock faster than the old and the new one, off is off, the lock is given back but for one path |
| `driver` | 2 card events, 1 sleep, 1 eject | who can meet a missing or freed bus and where, the task thread never, no disk of a freed bus, an attach that fails leaves nothing, what stop() leaves |

Runs that find a claim of the repository violated:

| Run | Claim | What happens |
|---|---|---|
| `tasks_starved` | every request is processed (README.md:29, SDDisk.cpp:493) | two overlapping calls of `sdmmc_needs_discover` insert the discover task twice, the list closes on itself, requests behind it are never run |
| `intr_stale` | wait for completion (rtsx.c:1538) | the late completion of a timed-out command is taken for the next command's |
| `card_fast` | high speed mode at 50 MHz (sdmmc_mem.c:688) | `sdmmc_mem_sd_switch` has no memory, sends nothing and returns 0 (sdmmc_mem.c:523): a card that has not switched, and takes 25 MHz, is attached and run at 50 MHz |

The models contain more of what the code does and its documents do not say, without a run of their own. The properties
name these cases, so that what holds beside them is visible.

* `RtsxIntr`: the unlocked `|=` of `rtsx_intr` can store a status bit again that `rtsx_wait_intr` has just cleared.
  After a timeout and a failed command one completion can so make two waits succeed; it takes five commands, more than
  the run has, and was found as `SuccessesBacked` was strengthened for its proof. `wakeup` between the test and the
  sleep of `rtsx_wait_intr` is lost and the waiter sleeps to its deadline; the handler does not take the lock that
  rtsx.c:1718 speaks of.
* `SdmmcTasks`: a suspend or the restart of the thread overwrites the `sc_dying = 1` of stop, and `sdmmc_detach` waits
  for ever, against README.md:58 (`StopCompletesAwake` is limited to a machine that stays awake). A suspend that comes
  during a task is noticed only after the resume's discovery, so the card is neither unmounted nor set up again,
  against README.md:63.
* `SdmmcBus`: a request that waits while its card is removed is never answered; a removal and an insertion between two
  reads of the chip are one event; `rtsx_host_reset` (rtsx.c:321) clears events that nobody has seen, and the resume
  may set an old reading of the slot over the flag of a newer event (rtsx.c:448; both are `eventLost`); requests of a
  terminated disk that were queued before are executed with whatever card is there.
* `CardInit`: an SCR that was never read is decoded (sdmmc_mem.c:375); a card whose
  initialisation failed becomes a disk unless its CSD or EXT_CSD was unreadable (`initOk`).
* `BlockIO`: with `-rtsx_mimic_linux` a failed read ends as a success if the commands after it succeed (`MimicLinux`).
* `RtsxExec`: without `-rtsx_mimic_linux`, when the data phase cannot be set up the chip is left working on a command
  buffer that is freed (`abandoned`); a mapping that finds the table full is lost (`lost`).
* `RtsxPower`: a failed access in the body of `rtsx_bus_clock` returns with the lock held (`leaks`, rtsx.c:808); the
  window is used by two threads at once (`overlap`); the resume restores the outputs and the divider as they were, but
  not power and clock (`restored`); the partial power of `rtsx_bus_power_on` (rtsx.c:618) sets a bit that
  `rtsx_bus_power_off` has set already, so the card goes from off to full power in one step and the delay between the
  two phases has no effect.
* `Driver`: rtsx has no detach, so its DMA maps and buffers stay after stop; the windows in which the interrupt work
  loop, `setPowerState` and clients meet a missing or freed bus are those of `WindowsKnown`.

Why the bounds are enough. Two requests give every order of two tasks and the discovery, and one caller overlaps with
the thread of `setPowerState`, which asks for a discovery at resume and runs beside it; the proofs are for
any number of callers. Three commands let a late completion meet the next command and the one after. Two
cards are a swap; a third repeats it. Two failing commands are one that leaves a state behind and one that meets it;
settings of the host fail without bound. Two chunks have a first and a last one, and a short one where the request is
odd. A reader takes three slots of the table of mapped buffers, so three slots with any number of them taken by others
have every way of being full; three pages are cut in four ways, with a last segment that is too long; the second
command meets what the first has left in the chip. Two operations on the power and clock are one that fails half-way
and one that meets it, and one meeting is enough for another thread to use the window. Two card events, a sleep and an
eject give each thread of `Driver` one pass through its pointers while start() and stop() pass theirs; the theorems of
`Driver_proofs` do not depend on them. Ejects, cards, suspends, calls, commands and requests are the only unbounded
counters, and each has its constant. `CHECK_DEADLOCK FALSE` is given everywhere: a driver without events, or whose
bounds are used up, is idle.

Views. `bus_safety` and `power` name a `VIEW` (`Seen` of their MC modules), because values that no later step reads
would multiply their states: `exist` after it was tested, the record of a finished request or of a disk that is gone,
saved registers after they were written back, the history variables of `RtsxPower` once two threads have met. Two
states with one view have the same steps up to the view and agree on the invariants of the run, so no violation is
left out; the runs have invariants only, no temporal properties.

Fairness. Threads run (weak fairness on the steps of each thread of the driver); the lock is never kept across a wait,
so weak fairness is enough to get it. Deadlines pass (`tsleep_nsec` with a time). A card that reports busy is assumed
to become ready in `FairSpec` of `BlockIO`, the specification of `io`, because the status loop (sdmmc_mem.c:974-983)
has no limit of its own. Nothing makes a user insert, remove or eject a card, submit I/O, suspend, wake or unload.

## 4. Proofs

`SdmmcTasks_proofs`, `RtsxIntr_proofs`, `SdmmcBus_proofs`, `CardInit_proofs`, `BlockIO_proofs`, `RtsxExec_proofs`,
`RtsxPower_proofs` and `Driver_proofs` are checked by TLAPS for every value of the constants, under the assumptions
named in the modules (tasks and threads are distinct, there are finitely many requests, bounds are natural numbers,
frequencies are rows of the code's table). Every invariant that a run expects to hold is a theorem.

* `SdmmcTasks_proofs!TypeCorrect`, `NoLostTask`, `NoLostDiscovery`, `ThreadSurvivesSuspend`: `TypeOK`,
  `NoTaskLeftAsleep`, `DiscoverNotForgotten`, `SuspendKeepsThread`. None is inductive alone. The invariant `IInv` adds
  that `cur` is a task whenever the thread is between taking and running it (else `RunRead` would leave the types),
  that the lock is the task thread's exactly at the test of the queue and before the sleep (so no `AddTask` comes
  between finding the queue empty and sleeping: the argument against a lost wakeup), and that `sc_dying = 1`, which
  alone sends the thread from its exit to its end, is only ever set by stop.
* `SdmmcTasks_proofs!ListStaysSound`, `FifoImplemented`: `QueueSound`, and the safety part of `TaskFifo`
  (`FifoSafety`: initial states and steps). `Chain` says that the pointers hold the elements of a sequence in order;
  `TAILQ_INSERT_TAIL` of an element that is not in it and `TAILQ_REMOVE` of its head turn a chain into a chain, and the
  recursive walk of `Tailq` gives that sequence back. `QueueInv`, which holds until two calls of
  `sdmmc_needs_discover` overlap, adds why every insertion is one of an idle task (`AddsIdle`: a caller between its
  test and its insertion is alone and the discover task is idle; `RequestsOnce`: a request is queued once) and every
  removal one of the head (`InHand`: what the thread has chosen is still the first element, since others only add
  behind it). The same chain is the queue of `TaskFifo`.
* `RtsxIntr_proofs!TypeCorrect`, `Exact`: `TypeOK` and `ExactUntilTimeout`. The strengthening says where the
  completion of the current command is, in the chip, in BIPR, in the handler's `status`, in its read-modify-write or
  in `intr_status`, and that it is in exactly one of these places as long as no wait has timed out; so the handler's
  and the waiter's read-modify-writes never meet.
* `RtsxIntr_proofs!Backed`: `SuccessesBacked`, timeouts or not. `Sourced` says that every status bit, wherever it is on
  its way, comes from a command that ended so. `Counted` is a balance that holds while no command has failed: the
  successes returned and the completions on their way, in BIPR, in the handler and in `intr_status`, are no more than
  the commands that ended well; it needs that the waiter clears only bits that are still set (`Clearing`), which is
  what a failure beside the success breaks.
* `SdmmcBus_proofs!TypeCorrect`, `OneDisk`, `DiskAndCard`, `OwnCard`: `TypeOK` (only proved) and the
  invariants of the run `bus_safety`, for any number of cards, ejects, suspends and requests. Only the task thread
  changes the flags, `sc_fn0` and `sddisk_`; `Bound` says what they are at each of its places, and `Disks` that
  no disk but `sddisk_` is live, and that it was made for the card of `sc_fn0`, however `blk_attach` has ended.
  `Powered` is the part about the slot: a card that answers has the function, except between its power-up and its scan
  and while it is given up. So the card a transfer reaches is the one of the disk whenever
  the disk is live. `Queued` (a request is on the queue or in the thread's hands, never both) and `Requested` (what a
  request has touched it has touched as it was done) carry this over to the requests.
* `CardInit_proofs!NoDangling`, `NotOverclocked`, `LeftOff`: `NoDanglingCard`, `NeverOverclocked`, `OffWhenIdle`. The
  invariant says that a card has a function only from the moment it has an address (state stby) and that a card that
  is inserted later has another identity; so a step that restarts a card (power, GO_IDLE_STATE) happens only where
  there is no function, the clock is 400 kHz for as long as there is none, and the 50 MHz of the last step is reached
  only after the same card has answered the switch (`Switched`), unless the switch had no memory for its buffer
  (`starved`), which the property excuses. `sc_card` is set only between the selection and
  `sdmmc_disable`.
* `CardInit_proofs!Agree`: `CardAndHostAgree`, with the types of `CardInit`, on top of that invariant. `Mode` says that
  only a card of the mode that was found gets beyond the state idle, `Widths` that both sides are 1 bit wide from the
  first power on until the card is told, and the host is widened only after the same card has answered, `Addressing`
  what the CSD and the EXT_CSD have told: a function that is not marked has the units of its card once
  `sdmmc_mem_init` has succeeded.
* `BlockIO_proofs!ChunkLoop`, `EverythingFreed`, `ImplementsBlockDevice`: `ChunksInStep`, `NothingLeaks`, and the
  refinement `Spec => DeviceSpec`, for every size of card, chunk and request and every number of retries; the last one
  assumes `MimicLinux = FALSE`, without which it does not hold. The invariant says how far a request has come: the
  blocks before `sent` are where they belong (`Written`, `ReadSoFar`); those of the chunk are in the bounce buffer
  during a write, and on the card from the moment an attempt has ended without an error, which is where `wr_error`
  matters; after a read without an error they are in the bounce buffer. An error is known only between the attempt
  that met it and its end (`Errors`), so a request that ends without one has nothing remaining. The data phase of a
  write and the copy to the client are the transfers of the device, the completion its end, and all other steps
  stutter.
* `RtsxExec_proofs!NoLeak`, `LiveBuffers`, `AtRest`, `Verdict`: `NothingLeaks`, `ChipOnLiveBuffers`, `AtRestAsLinux`,
  `VerdictMatches`, for any number of commands, slots, addresses and pages. `Wired` and `Places` say what is allocated
  and mapped at each label, `Listed` that the slots the driver has taken are exactly those of its mappings; the latter
  needs that a new mapping gets a free slot, the least one, which is the well-foundedness of `<`. The rest is about
  the chip: `Phase` and `RunsKnown` say by its run number whether a completion is one of the command that waits,
  `Chip` that under `Tame` (no late completion has ended a wait, and a data phase that could not be set up was
  stopped) the chip is at rest outside `Working` and `Leaving`, `Ended` and `Progress` that a good completion of the
  current run means that the data has moved. `Tame` is the premise of the last three properties, less a part that
  each can spare: what happens outside of it is the hazard that the properties name.
* `RtsxExec_proofs!ArraysAreEnough`, `TableCovers`: `ArraysSuffice`, `TableCoversTransfer`, on top of that. The sums and
  loads of `DmaSegments` are recursive functions on sequences of lengths; that the sums exist and that a load covers
  the length it was asked for is proved by induction on the number of lengths (`UptoSteps`, `LoadedCovers`).
  `Segments` follows the two maps from load to unload, `Dictionary` the table of buffers: no address twice, and a
  mapping is lost only to other readers, since the driver has two mapped at most when it asks for a third.
* `RtsxPower_proofs!TypeCorrect`, `OutputsArePowered`, `ClockIsBounded`, `OffStaysOff`, `LocksAreReturned`: `TypeOK` and
  the invariants of the run `power`, for any numbers of operations and interruptions. No invariant over registers
  alone is inductive: what a thread may write next depends on what it has written before. So the steps of an operation
  are annotated like a program. `StepOK` relates what is known of the registers before and after a step (a set of
  facts: these bits have this value) and whether the lock is held; it allows a write only where what it needs is known
  (drive the outputs only with full power, change the dividers only while the clock is slow), and a failure only to a
  place with the same claims. `Follows` chains the steps to what the operation achieves; every operation of the code
  follows these rules, and so does every rest of it. The invariant then says of each thread that it holds as many
  levels of the lock as its place says (`Plans`), of the task thread that what it knows is true and stays true when
  the chip executes what waits in the window (`Knowledge`), and of the registers, now and in that `Future`, that they
  are safe (`Safe`). What other threads write in between is harmless: the LED alone, or the restored registers of a
  sleep, after which nothing is claimed until power is set again (`Undisturbed`).
* `Driver_proofs!ThreadIsSafe`, `WindowsAreKnown`, `DiskGoesFirst`, `AttachUndone`, `StopReleases`: all the properties
  of the run `driver`, for any number of card events, sleeps and ejects. `Life` relates the place of start() and
  stop() to the flags, the bus and what is held; only start() and stop() change these. The other parts say of each
  thread where start() and stop() can be while that thread has a pointer: the task thread only between `sdmmc_attach`
  and the end of `sdmmc_detach` (`Thread`), the power thread only while the driver is in the power plane (`Powers`),
  the interrupt thread only while its source is registered (`Interrupts`), a disk only until the thread that made it
  has ended (`DiskOf`).

Only model-checked: the liveness properties (`EveryTaskRuns`, `StopCompletesAwake`, `WaitReturns`, `RequestCompletes`,
`AttachEnds` and those of `bus_live`) and the fairness part of the two refinements, which are out of the prover's
reach. The library's induction theorems take a predicate, which the installed provers cannot instantiate: where a
proof is by induction over the naturals (chains, sums of lengths) it goes through the least element of a set
(`LeastNat`, `NatSetInduction`).

## 5. Not modelled

SDIO and CIS code (never reached: `SMF_IO_MODE` is never set), register definitions, the Linux quirks for one chip
revision (straight-line register writes) and the variants of `rtsx_bus_clock` that go with `-rtsx_mimic_linux`,
logging and build scripts. The timer `task_execute_one_` is created and never armed, so `task_execute_one_impl_`, the
only code that frees a request's task, never runs. Code compiled out of the default build (`RTSX_USE_IOCOMMANDGATE`,
`SDMMC_IOCTL`, `HIBERNATE`) is left out. So are the reports of SDDisk (names, block size, capacity, with its 32-bit
product at SDDisk.cpp:194), which have no state; the decoding of CSD, CID, SCR and EXT_CSD; the allocation of the
global lock at its first use without a lock (spl.cpp:34), which the code's comment admits; and a second reader, which
would be needed to meet the unlocked steps of `removeFromList` (util_dict.h:80), though the slots it takes are in
`RtsxExec`. `bus_dmamap_create` is a resource of `Driver` only.

## 6. Plan

Done: the task queue, the completion handshake, discovery and disks, block I/O, card initialisation, command execution
with the DMA layer, power and clock, the life of the driver; the proofs of section 4. Left, in this order:

1. What the proofs use may be said as properties of its own where it is stronger than what a run checks: `ClockIsBounded`
   holds of the clock even while it is not let through to the card.
2. A second reader of the table of mapped buffers (util_dict.h:80), for the unlocked steps of `removeFromList`.
