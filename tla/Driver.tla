-------------------------------- MODULE Driver --------------------------------
(***************************************************************************)
(* The life of the driver (Sinetek_rtsx.cpp, rtsx_attach, config.cpp,      *)
(* openbsd.cpp): start() builds it up, stop() takes it down, and all that  *)
(* time the interrupt work loop, the task thread, setPowerState and the    *)
(* clients of the disk run as soon as, and as long as, they can.  Each of  *)
(* them follows a pointer that another one sets or frees.  A step that     *)
(* follows a bad one is recorded in "bad" and ends the behaviour.          *)
(*                                                                         *)
(* What the threads do in between is only kept as far as it decides who    *)
(* follows what: SdmmcTasks and SdmmcBus have the rest.  The compile-time  *)
(* option RTSX_USE_IOLOCK is on, as in the project file.                   *)
(***************************************************************************)
EXTENDS Naturals, Integers, Sequences

CONSTANTS
    MaxEvents,   \* bound: insertions and removals
    MaxSleeps,   \* bound: sleeps
    MaxEjects    \* bound: calls of doEjectMedia

ASSUME DriverAssumption == MaxEvents \in Nat /\ MaxSleeps \in Nat /\ MaxEjects \in Nat

VARIABLES
    spc,          \* start() and stop(): the place
    held,         \* what has been allocated, mapped, enabled or registered
    failed,       \* rtsx_pci_attach or rtsx_attach did not come to its end
    handle,       \* sc->ioh has been set
    stored,       \* sc->sdmmc has been set
    bus,          \* the memory of the sdmmc device
    (* the chip *)
    slot, events,
    pending, enabled,   \* RTSX_SD_INT in RTSX_BIPR and RTSX_BIER
    cardPresent,  \* RTSX_F_CARD_PRESENT
    (* interrupt work loop, setPowerState, clients *)
    ipc, ppc, sleeps, cpc, ejects, req,
    (* task thread *)
    tpc, dying, queued, present,
    disk,         \* the SDDisk
    bare,         \* it was made with a NULL sdmmc_softc
    bad           \* who has met what

startVars == <<spc, held, failed, handle, stored, bus>>
chipVars  == <<slot, events, pending, enabled>>
pmVars    == <<ppc, sleeps>>
cliVars   == <<cpc, ejects, req>>
taskVars  == <<tpc, dying, queued, present>>
diskVars  == <<disk, bare>>
vars == <<startVars, chipVars, cardPresent, ipc, pmVars, cliVars, taskVars, diskVars, bad>>

\* What rtsx_attach acquires, in that order
DmaSteps == <<"cmd", "data", "adma", "admamem", "admabuf">>
Dma == {DmaSteps[i] : i \in 1 .. 5}
Resources == Dma \cup {"locks", "taskloop", "compat", "map", "intr", "busmap", "pm"}

AttachLabels == {"attach", "chip", "dma", "found", "sdmmc", "store"}
StartLabels  == {"new", "compat", "pci", "card", "joinpm"} \cup AttachLabels
StopLabels   == {"detach", "poll", "remove", "unmap", "rest", "pmstop", "stopped"}

None == <<"nobody", "ok">>

Init ==
    /\ spc = "new" /\ held = {} /\ failed = FALSE
    /\ handle = FALSE /\ stored = FALSE /\ bus = "none"
    /\ slot \in BOOLEAN /\ events = 0
    /\ pending \in BOOLEAN /\ enabled \in BOOLEAN
    /\ cardPresent = FALSE
    /\ ipc = "idle"
    /\ ppc = "on" /\ sleeps = 0
    /\ cpc = "idle" /\ ejects = 0 /\ req = "none"
    /\ tpc = "none" /\ dying = 0 /\ queued = FALSE /\ present = FALSE
    /\ disk = "none" /\ bare = FALSE
    /\ bad = None

-----------------------------------------------------------------------------
(***************************************************************************)
(* What a thread meets that follows sc->sdmmc, a pointer to the sdmmc      *)
(* device that it has kept, or the registers.  bus_space_read_4 and        *)
(* bus_space_write_4 do nothing without a handle.                          *)
(***************************************************************************)
BusKept == IF bus = "freed" THEN "freed" ELSE "ok"
BusMet  == IF stored THEN BusKept ELSE "null"
RegsMet == IF handle /\ "map" \notin held THEN "unmapped" ELSE "ok"

Wake == tpc' = IF tpc = "asleep" THEN "while" ELSE tpc

\* sdmmc_add_task, on a queue that sdmmc_attach has set up or has not
AddTask(who, met) ==
    LET what == IF met = "ok" /\ bus = "broken" THEN "unset" ELSE met
    IN  IF what = "ok" THEN Wake /\ UNCHANGED bad
        ELSE bad' = <<who, what>> /\ UNCHANGED tpc

\* sdmmc_needs_discover(sc->sdmmc)
NeedsDiscover(who) ==
    /\ queued' = TRUE
    /\ IF queued /\ BusMet = "ok" THEN UNCHANGED <<tpc, bad>> ELSE AddTask(who, BusMet)

Meets(who, what) == bad' = IF what = "ok" THEN bad ELSE <<who, what>>

-----------------------------------------------------------------------------
(***************************************************************************)
(* start()                                                                 *)
(***************************************************************************)
At(label) == bad = None /\ spc = label
Goto(label) == spc' = label

others == <<chipVars, cardPresent, ipc, pmVars, cliVars, taskVars, diskVars, bad>>

\* the locks, prepare_task_loop
Start ==
    /\ At("new")
    /\ held' = {"locks", "taskloop"}
    /\ Goto("compat")
    /\ UNCHANGED <<failed, handle, stored, bus, others>>

\* openbsd_compat_start, which fails if the driver of another chip has an owner
\* already; the task loop stays then.
CompatStart ==
    /\ At("compat")
    /\ \/ held' = held \cup {"compat"} /\ Goto("pci")
       \/ held' = held \ {"locks"} /\ Goto("refused")
    /\ UNCHANGED <<failed, handle, stored, bus, others>>

\* rtsx_pci_attach: the early returns leave what there is.
PciAttach ==
    /\ At("pci")
    /\ \/ held' = held \cup {"map", "intr"} /\ Goto("attach") /\ UNCHANGED failed
       \/ \E got \in {{}, {"map"}} : held' = held \cup got /\ Goto("joinpm") /\ failed' = TRUE
    /\ UNCHANGED <<handle, stored, bus, others>>

\* rtsx_attach
SetHandle ==
    /\ At("attach")
    /\ handle' = TRUE
    /\ Goto("chip")
    /\ UNCHANGED <<held, failed, stored, bus, others>>

\* rtsx_init(sc, 1) clears what is pending, and enables the interrupts even if
\* it fails later on.
ChipInit ==
    /\ At("chip")
    /\ \/ /\ pending' = FALSE /\ enabled' = TRUE
          /\ cardPresent' = (cardPresent \/ slot)
          /\ \/ Goto("dma") /\ UNCHANGED failed
             \/ Goto("joinpm") /\ failed' = TRUE
       \/ /\ Goto("joinpm") /\ failed' = TRUE
          /\ UNCHANGED <<pending, enabled, cardPresent>>
    /\ UNCHANGED <<held, handle, stored, bus, slot, events, ipc, pmVars, cliVars,
                   taskVars, diskVars, bad>>

\* The next of the maps and buffers, or the labels that undo those before it.
\* Mutant of UndoFrom: the labels are entered one too low
UndoFromBelow(k) == {DmaSteps[i] : i \in 1 .. k - 2}

UndoFrom(k) == {DmaSteps[i] : i \in 1 .. k - 1}

FailFrom(k) ==
    /\ held' = held \ UndoFrom(k)
    /\ failed' = TRUE
    /\ Goto("joinpm")

DmaStep(k) ==
    /\ At("dma")
    /\ DmaSteps[k] \notin held /\ \A i \in 1 .. k - 1 : DmaSteps[i] \in held
    /\ \/ /\ held' = held \cup {DmaSteps[k]}
          /\ Goto(IF k = 5 THEN "found" ELSE "dma")
          /\ UNCHANGED failed
       \/ FailFrom(k)
    /\ UNCHANGED <<handle, stored, bus, others>>

\* config_found: config_search finds sdmmc, config_attach allocates it.
ConfigFound ==
    /\ At("found")
    /\ \/ bus' = "new" /\ Goto("sdmmc") /\ UNCHANGED <<held, failed>>
       \/ FailFrom(6) /\ UNCHANGED bus
    /\ UNCHANGED <<handle, stored, others>>

\* sdmmc_attach: without ADMA it needs no map; if it cannot have one it returns
\* with nothing set up, and config_attach takes no notice.  The thread may not
\* be created either.
SdmmcAttach ==
    /\ At("sdmmc")
    /\ Goto("store")
    /\ \/ bus' = "broken" /\ UNCHANGED <<held, tpc>>
       \/ /\ bus' = "ready"
          /\ held' \in {held, held \cup {"busmap"}}
          /\ tpc' \in {"none", "needs"}
    /\ UNCHANGED <<failed, handle, stored, chipVars, cardPresent, ipc, pmVars, cliVars,
                   dying, queued, present, diskVars, bad>>

StoreBus ==
    /\ At("store")
    /\ stored' = TRUE
    /\ Goto("card")
    /\ UNCHANGED <<held, failed, handle, bus, others>>

\* "Now handle cards discovered during attachment"
AttachCard ==
    /\ At("card")
    /\ Goto("joinpm")
    /\ IF cardPresent THEN NeedsDiscover("start") ELSE UNCHANGED <<queued, tpc, bad>>
    /\ UNCHANGED <<held, failed, handle, stored, bus, chipVars, cardPresent, ipc, pmVars,
                   cliVars, dying, present, diskVars>>

\* registerPowerDriver; a failure is only printed
JoinPm ==
    /\ At("joinpm")
    /\ held' \in {held, held \cup {"pm"}}
    /\ Goto("up")
    /\ UNCHANGED <<failed, handle, stored, bus, others>>

StartStep ==
    \/ Start \/ CompatStart \/ PciAttach \/ SetHandle \/ ChipInit
    \/ \E k \in 1 .. 5 : DmaStep(k)
    \/ ConfigFound \/ SdmmcAttach \/ StoreBus \/ AttachCard \/ JoinPm

-----------------------------------------------------------------------------
(***************************************************************************)
(* stop(): config_detach, without which there is nothing to detach, sets   *)
(* sc_dying (its deactivation changes only a flag of its own) and waits    *)
(* for the task thread; then it frees the device.                          *)
(***************************************************************************)
Stop ==
    /\ At("up")
    /\ Goto(IF stored THEN "detach" ELSE "remove")
    /\ UNCHANGED <<held, failed, handle, stored, bus, others>>

SdmmcDetach ==
    /\ At("detach")
    /\ dying' = 1
    /\ Goto("poll")
    /\ UNCHANGED <<held, failed, handle, stored, bus, chipVars, cardPresent, ipc, pmVars,
                   cliVars, tpc, queued, present, diskVars, bad>>

\* Mutant of DetachPoll: the thread is told to end, and not waited for
DetachPollNot ==
    /\ At("poll")
    /\ held' = held \ {"busmap"}
    /\ bus' = "freed"
    /\ Goto("remove")
    /\ UNCHANGED <<failed, handle, stored, others>>

\* sc_task_thread is NULL; the device and its map are freed, sc->sdmmc stays.
DetachPoll ==
    /\ At("poll")
    /\ tpc \in {"none", "gone"}
    /\ held' = held \ {"busmap"}
    /\ bus' = "freed"
    /\ Goto("remove")
    /\ UNCHANGED <<failed, handle, stored, others>>

\* removeEventSource waits for a handler that runs.  If there is no interrupt
\* source, rtsx_pci_detach returns, and the locks and the map stay.
RemoveIntr ==
    /\ At("remove")
    /\ IF "intr" \in held
       THEN ipc = "idle" /\ held' = held \ {"intr", "locks"} /\ Goto("unmap")
       ELSE Goto("rest") /\ UNCHANGED held
    /\ UNCHANGED <<failed, handle, stored, bus, others>>

\* Mutant of Unmap: the map is not released
UnmapNot ==
    /\ At("unmap")
    /\ Goto("rest")
    /\ UNCHANGED <<held, failed, handle, stored, bus, others>>

Unmap ==
    /\ At("unmap")
    /\ held' = held \ {"map"}
    /\ Goto("rest")
    /\ UNCHANGED <<failed, handle, stored, bus, others>>

\* openbsd_compat_stop, destroy_task_loop
StopRest ==
    /\ At("rest")
    /\ held' = held \ {"compat", "taskloop"}
    /\ Goto("pmstop")
    /\ UNCHANGED <<failed, handle, stored, bus, others>>

\* Mutant of PmStop: the driver stays in the power plane
PmStopNot ==
    /\ At("pmstop")
    /\ Goto("stopped")
    /\ UNCHANGED <<held, failed, handle, stored, bus, others>>

\* PMstop waits for a change of power that is under way.
PmStop ==
    /\ At("pmstop")
    /\ ppc = "on"
    /\ held' = held \ {"pm"}
    /\ Goto("stopped")
    /\ UNCHANGED <<failed, handle, stored, bus, others>>

StopStep == Stop \/ SdmmcDetach \/ DetachPoll \/ RemoveIntr \/ Unmap \/ StopRest \/ PmStop

-----------------------------------------------------------------------------
(***************************************************************************)
(* The slot and the interrupt work loop                                    *)
(***************************************************************************)
SlotChange ==
    /\ bad = None /\ events < MaxEvents
    /\ events' = events + 1
    /\ slot' = ~slot /\ pending' = TRUE
    /\ UNCHANGED <<startVars, enabled, cardPresent, ipc, pmVars, cliVars, taskVars,
                   diskVars, bad>>

\* rtsx_intr; without a handle it reads zeros and returns.
Intr ==
    /\ bad = None /\ ipc = "idle"
    /\ "intr" \in held /\ handle /\ pending /\ enabled
    /\ pending' = FALSE
    /\ ipc' = IF ~slot THEN "eject" ELSE IF cardPresent THEN "idle" ELSE "insert"
    /\ Meets("intr", RegsMet)
    /\ UNCHANGED <<startVars, slot, events, enabled, cardPresent, pmVars, cliVars,
                   taskVars, diskVars>>

IntrFlag ==
    /\ bad = None /\ ipc \in {"insert", "eject"}
    /\ cardPresent' = (ipc = "insert")
    /\ ipc' = "needs"
    /\ UNCHANGED <<startVars, chipVars, pmVars, cliVars, taskVars, diskVars, bad>>

IntrNeeds ==
    /\ bad = None /\ ipc = "needs"
    /\ NeedsDiscover("intr")
    /\ ipc' = "idle"
    /\ UNCHANGED <<startVars, chipVars, cardPresent, pmVars, cliVars, dying, present,
                   diskVars>>

-----------------------------------------------------------------------------
(***************************************************************************)
(* setPowerState: config_activate_children and the registers, then the     *)
(* wake in five steps: the slot is read in one and the flag set in another *)
(***************************************************************************)
Pm(from, to) == bad = None /\ ppc = from /\ ppc' = to

\* config_activate_children returns ENOTSUP if there is no bus.
Suspend ==
    /\ Pm("on", "asleep") /\ "pm" \in held /\ sleeps < MaxSleeps
    /\ sleeps' = sleeps + 1
    /\ dying' = IF stored /\ present THEN -1 ELSE dying
    /\ Meets("pm", IF stored /\ BusKept # "ok" THEN BusKept ELSE RegsMet)
    /\ UNCHANGED <<startVars, chipVars, cardPresent, ipc, cliVars, tpc, queued, present,
                   diskVars>>

\* rtsx_init(sc, 1), whose result is ignored
ResumeInit ==
    /\ Pm("asleep", "read")
    /\ \/ /\ pending' = FALSE /\ enabled' = TRUE
          /\ cardPresent' = (cardPresent \/ slot)
       \/ UNCHANGED <<pending, enabled, cardPresent>>
    /\ Meets("pm", RegsMet)
    /\ UNCHANGED <<startVars, slot, events, ipc, sleeps, cliVars, taskVars, diskVars>>

ResumeRead ==
    /\ Pm("read", IF slot THEN "insert" ELSE "eject")
    /\ Meets("pm", RegsMet)
    /\ UNCHANGED <<startVars, chipVars, cardPresent, ipc, sleeps, cliVars, taskVars, diskVars>>

\* rtsx_card_insert or rtsx_card_eject: the flag and the LED
ResumeFlag ==
    /\ Pm("insert", "needs") \/ Pm("eject", "needs")
    /\ cardPresent' = (ppc = "insert")
    /\ Meets("pm", RegsMet)
    /\ UNCHANGED <<startVars, chipVars, ipc, sleeps, cliVars, taskVars, diskVars>>

ResumeNeeds ==
    /\ Pm("needs", "wake")
    /\ NeedsDiscover("pm")
    /\ UNCHANGED <<startVars, chipVars, cardPresent, ipc, sleeps, cliVars, dying, present,
                   diskVars>>

ResumeWake ==
    /\ Pm("wake", "on")
    /\ IF stored THEN Wake /\ Meets("pm", BusKept) ELSE UNCHANGED <<tpc, bad>>
    /\ UNCHANGED <<startVars, chipVars, cardPresent, ipc, sleeps, cliVars, dying, queued,
                   present, diskVars>>

-----------------------------------------------------------------------------
(***************************************************************************)
(* Clients of the disk: doAsyncReadWrite in two steps, and doEjectMedia.   *)
(* A disk made with a NULL sdmmc_softc has no blocks and takes no request. *)
(***************************************************************************)
SubmitCheck ==
    /\ bad = None /\ req = "none" /\ disk = "live" /\ ~bare
    /\ req' = "accepted"
    /\ UNCHANGED <<startVars, chipVars, cardPresent, ipc, pmVars, cpc, ejects, taskVars,
                   diskVars, bad>>

SubmitAdd ==
    /\ bad = None /\ req = "accepted"
    /\ req' = "queued"
    /\ AddTask("client", IF bare THEN "null" ELSE BusKept)
    /\ UNCHANGED <<startVars, chipVars, cardPresent, ipc, pmVars, cpc, ejects, dying, queued,
                   present, diskVars>>

EjectFlag ==
    /\ bad = None /\ cpc = "idle" /\ ejects < MaxEjects /\ disk # "none"
    /\ ejects' = ejects + 1
    /\ cardPresent' = FALSE
    /\ cpc' = "needs"
    /\ Meets("client", RegsMet)
    /\ UNCHANGED <<startVars, chipVars, ipc, pmVars, req, taskVars, diskVars>>

EjectNeeds ==
    /\ bad = None /\ cpc = "needs"
    /\ NeedsDiscover("client")
    /\ cpc' = "idle"
    /\ UNCHANGED <<startVars, chipVars, cardPresent, ipc, pmVars, ejects, req, dying, present,
                   diskVars>>

\* IOKit finalises a terminated disk at some later time.
DiskDetach ==
    /\ bad = None /\ disk = "terminated"
    /\ disk' = "none"
    /\ UNCHANGED <<startVars, chipVars, cardPresent, ipc, pmVars, cliVars, taskVars, bare, bad>>

-----------------------------------------------------------------------------
(***************************************************************************)
(* sdmmc_task_thread, as in SdmmcBus.  Each step follows the thread's own  *)
(* pointer to the device; those of a discovery use the registers too, and  *)
(* blk_attach and blk_detach the owner that openbsd_compat_start has kept. *)
(***************************************************************************)
system == <<startVars, chipVars, cardPresent, ipc, pmVars, cpc, ejects>>

Task(from, to) ==
    /\ bad = None /\ tpc = from /\ tpc' = to
    /\ Meets("task", IF BusKept # "ok" THEN BusKept
                     ELSE IF from \in {"discover", "attach", "cleanup"} /\ RegsMet # "ok" THEN RegsMet
                     ELSE IF from \in {"attach", "cleanup"} /\ "compat" \notin held THEN "null"
                     ELSE "ok")
    /\ UNCHANGED system

TaskNeeds ==
    /\ Task("needs", "while")
    /\ queued' = TRUE
    /\ UNCHANGED <<req, dying, present, diskVars>>

TaskWhile ==
    /\ Task("while", IF dying = 0 THEN "for" ELSE "exit")
    /\ UNCHANGED <<req, dying, queued, present, diskVars>>

\* whichever is first in the queue; the sleep if nothing is
TaskFor ==
    \/ /\ queued /\ Task("for", "discover")
       /\ queued' = FALSE
       /\ UNCHANGED <<req, dying, present, diskVars>>
    \/ /\ req = "queued" /\ Task("for", "for")
       /\ req' = "none"
       /\ UNCHANGED <<dying, queued, present, diskVars>>
    \/ /\ ~queued /\ req # "queued" /\ Task("for", "asleep")
       /\ UNCHANGED <<req, dying, queued, present, diskVars>>

Discover ==
    /\ Task("discover", IF cardPresent = present THEN "for"
                        ELSE IF cardPresent THEN "attach" ELSE "cleanup")
    /\ present' = cardPresent
    /\ UNCHANGED <<req, dying, queued, diskVars>>

\* sdmmc_card_attach: a card that fails is detached again; one that does not may
\* still get no disk, if blk_attach fails.
CardAttach ==
    \/ /\ Task("attach", "for")
       /\ \/ disk' = "live" /\ bare' = ~stored
          \/ UNCHANGED diskVars
       /\ UNCHANGED <<req, dying, queued, present>>
    \/ /\ Task("attach", "cleanup")
       /\ UNCHANGED <<req, dying, queued, present, diskVars>>

\* sdmmc_card_detach
DetachDisk == disk' = IF disk = "live" THEN "terminated" ELSE disk

CardDetach ==
    /\ Task("cleanup", "for")
    /\ DetachDisk
    /\ UNCHANGED <<req, dying, queued, present, bare>>

\* Mutant of TaskExit: the card is detached for a suspend only
TaskExitKeepsDisk ==
    /\ Task("exit", "end")
    /\ IF present /\ dying = -1 THEN DetachDisk ELSE UNCHANGED disk
    /\ UNCHANGED <<req, dying, queued, present, bare>>

TaskExit ==
    /\ Task("exit", "end")
    /\ IF present THEN DetachDisk ELSE UNCHANGED disk
    /\ UNCHANGED <<req, dying, queued, present, bare>>

TaskEnd ==
    /\ Task("end", IF dying = -1 THEN "restart" ELSE "gone")
    /\ UNCHANGED <<req, dying, queued, present, diskVars>>

TaskRestart ==
    /\ Task("restart", "needs")
    /\ dying' = 0 /\ present' = FALSE
    /\ UNCHANGED <<req, queued, diskVars>>

TaskStep ==
    \/ TaskNeeds \/ TaskWhile \/ TaskFor \/ Discover \/ CardAttach \/ CardDetach
    \/ TaskExit \/ TaskEnd \/ TaskRestart

Next ==
    \/ StartStep \/ StopStep
    \/ SlotChange \/ Intr \/ IntrFlag \/ IntrNeeds
    \/ Suspend \/ ResumeInit \/ ResumeRead \/ ResumeFlag \/ ResumeNeeds \/ ResumeWake
    \/ SubmitCheck \/ SubmitAdd \/ EjectFlag \/ EjectNeeds \/ DiskDetach
    \/ TaskStep

Spec == Init /\ [][Next]_vars

-----------------------------------------------------------------------------
(***************************************************************************)
(* Properties                                                              *)
(***************************************************************************)
TypeOK ==
    /\ spc \in StartLabels \cup StopLabels \cup {"up", "refused"}
    /\ held \subseteq Resources
    /\ bus \in {"none", "new", "broken", "ready", "freed"}
    /\ stored => handle /\ bus \in {"broken", "ready", "freed"}
    /\ ipc \in {"idle", "insert", "eject", "needs"} /\ cpc \in {"idle", "needs"}
    /\ ppc \in {"on", "asleep", "read", "insert", "eject", "needs", "wake"}
    /\ req \in {"none", "accepted", "queued"} /\ disk \in {"none", "live", "terminated"}
    /\ tpc \in {"none", "needs", "while", "for", "asleep", "discover", "attach", "cleanup",
                "exit", "end", "restart", "gone"}
    /\ dying \in {-1, 0, 1}
    /\ bad[1] \in {"nobody", "start", "intr", "pm", "client", "task"}
    /\ bad[2] \in {"ok", "null", "unset", "freed", "unmapped"}

who  == bad[1]
what == bad[2]

\* The bus is there and in order: rtsx_attach has stored it, with a queue, and
\* stop() has not freed it.
BusInPlace == stored /\ bus = "ready"

\* The task thread never meets a freed device, unmapped registers or a missing
\* owner, though it starts in the middle of rtsx_attach and stop() ends it from
\* another thread (sdmmc_detach waits for it before anything goes).
TaskThreadSafe == who # "task"

\* The other threads follow a bad pointer only in these windows.
\* rtsx_intr: a device that is missing while start() has not stored it, or after
\* an attachment that failed, or freed until stop() has removed the interrupt
\* source; but never unmapped registers.
InterruptSafe ==
    who = "intr" =>
        /\ what # "unmapped"
        /\ spc \in AttachLabels \/ failed \/ bus = "broken" \/ spc = "remove"

\* setPowerState: after an attachment that failed, or when stop() is between
\* freeing the bus and PMstop.
PowerSafe ==
    who = "pm" => failed \/ bus = "broken" \/ spc \in {"remove", "unmap", "rest", "pmstop"}

\* A client of a disk: a freed device or unmapped registers only if it was at
\* work when the disk was terminated, and NULL only with a disk that was made
\* before rtsx_attach stored the device.
ClientSafe ==
    who = "client" =>
        \/ what \in {"freed", "unmapped"} /\ disk # "live" /\ spc \in StopLabels \ {"detach", "poll"}
        \/ what = "null" /\ bare /\ ~stored

\* All of them, whatever start(), stop() and their failures do in between.
WindowsKnown == TypeOK /\ InterruptSafe /\ PowerSafe /\ ClientSafe

\* No disk outlives the device it was made for: when sdmmc_detach has returned
\* and the device is freed, the disk has been terminated.
NoDiskOfFreedBus == bus = "freed" => disk # "live"

\* The labels at the end of rtsx_attach undo exactly what was done: if it fails,
\* none of its maps and buffers are left; if not, all of them are there.
AttachAllOrNothing ==
    spc \notin StartLabels \ {"card", "joinpm"} =>
        held \cap Dma = IF stored THEN Dma ELSE {}

\* What stop() leaves: the maps and buffers of rtsx_attach, for which there is no
\* detach; and, where there was no interrupt source, the locks and the map.
ReleasedByStop ==
    spc = "stopped" /\ bad = None =>
        held \ Dma \subseteq IF handle THEN {} ELSE {"locks", "map"}
=============================================================================
