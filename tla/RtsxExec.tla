------------------------------ MODULE RtsxExec ------------------------------
(***************************************************************************)
(* The execution of commands by the chip (3rdParty/openbsd/rtsx.c:         *)
(* rtsx_exec_command, rtsx_xfer, rtsx_xfer_bounce, rtsx_xfer_adma) on top  *)
(* of the DMA layer (compat/openbsd/dma.cpp) and its table of mapped       *)
(* buffers (util_dict.h).  Commands come one at a time, from the task      *)
(* thread; the chip runs beside it and may end what it was given at any    *)
(* time, well or badly, or never.  What interrupts, wakeups and deadlines  *)
(* do inside rtsx_wait_intr is module RtsxIntr; here a wait takes what     *)
(* the interrupt thread has recorded, or times out.                        *)
(*                                                                         *)
(* The table of mapped buffers is one for all instances of the driver:     *)
(* any number of its slots may be taken by other readers.                  *)
(***************************************************************************)
EXTENDS DmaSegments, Integers

CONSTANTS
    ArraySize,      \* slots of the table of mapped buffers (10)
    Addrs,          \* kernel virtual addresses that map() can hand out
    MaxPages,       \* pages of the largest transfer: MAXPHYS / PAGE_SIZE
    MaxCmds         \* bound: commands that are executed

ASSUME ExecAssumption ==
    /\ ArraySize \in Nat \ {0} /\ Addrs \subseteq Nat \ {0} /\ Addrs # {}
    /\ MaxPages \in Nat \ {0} /\ MaxCmds \in Nat

\* The length of the arrays of segments of SDDisk, sc_dmap and the ADMA table;
\* the other DMA maps have one segment.
SDMMC_MAXNSEGS == MaxPages + 1

VARIABLES
    (* the task thread *)
    pc, failed,   \* "error" is not 0: which error it is makes no difference here
    n, cmd,       \* number of commands so far; the command: its data, direction
    mimic_linux,  \* boot argument -rtsx_mimic_linux
    req, size,    \* number of SDDisk's buffers so far; the pages of the last
    len,          \* the pages that sc_dmap was last loaded with
    (* the DMA layer *)
    keys, values, \* the arrays of VA_SEGS
    alive,        \* buffers whose memory descriptor is allocated and wired
    vmap,         \* _ds_memMap of each kind of buffer: its address
    lost,         \* addresses of mappings that no segs[] is found by any more
    held,         \* the buffer that the IODMACommand of each map holds
    stored,       \* elements of SDDisk's dma_segs that were written
    segs,         \* sc_dmap: the segments of the buffer that it is loaded with
    table,        \* the descriptors in admabuf
    (* the chip *)
    hcb, hdb,     \* the buffers that it takes host commands from, moves data with
    waitsData,    \* it was told to move data
    run,          \* number of times that it was started
    raised,       \* completions whose interrupt has not been handled
    intr,         \* sc->intr_status: the completions recorded
    moved,        \* how far the data has come
    (* history *)
    first,        \* the value of run before the current command
    good,         \* the runs that the chip ended well
    misled,       \* a wait took the completion of an earlier run
    abandoned     \* the chip was left with buffers that were about to be freed

thread   == <<n, cmd, mimic_linux>>
request  == <<req, size, len>>
dict     == <<keys, values, lost>>
memory   == <<alive, vmap>>
segments == <<stored, segs, table>>
chip     == <<hcb, hdb, waitsData, run>>
history  == <<first, good, misled, abandoned>>
dmaVars  == <<dict, memory, held, segments>>
chipVars == <<chip, raised, intr, history>>
vars     == <<pc, failed, thread, request, dmaVars, chipVars, moved>>

\* SDDisk's buffer, the host command buffer, the bounce buffer, the ADMA table
Kinds == {"client", "cmd", "data", "adma"}
Buf(kind) == <<kind, CASE kind = "adma" -> 0 [] kind = "client" -> req [] OTHER -> n>>
Bufs  == Kinds \X (0 .. MaxCmds)
NoBuf == <<"none", 0>>

Empty == 0  \* a free slot, and no address
Slots == 0 .. ArraySize - 1
Other(i) == -1 - i  \* the address in a slot that another reader has

\* Commands without data, with data in c_data only, or with a DMA map too
Cmds  == [kind : {"none", "bounce", "adma"}, read : BOOLEAN]
NoCmd == [kind |-> "none", read |-> TRUE]

Completions == [ok : BOOLEAN, run : 1 .. 2 * MaxCmds]

Labels == {"idle", "map_client", "ready", "loaded", "free_client",
           "alloc_cmd", "map_cmd", "load_cmd", "send", "wait_cmd", "xfer", "xfer_done",
           "unload_cmd", "unmap_cmd", "free_cmd", "ret",
           "bounce", "map_data", "copy_in", "load_data", "exec_data", "wait_data",
           "unload_data", "copy_out", "unmap_data", "free_data",
           "adma", "load_adma", "exec_adma", "wait_adma", "unload_adma"}

TypeOK ==
    /\ pc \in Labels
    /\ n \in 0 .. MaxCmds /\ req \in 0 .. MaxCmds /\ cmd \in Cmds /\ failed \in BOOLEAN
    /\ size \in 0 .. MaxPages /\ len \in 0 .. size
    /\ \A i \in Slots : keys[i] \in Addrs \cup {Empty, Other(i)}
    /\ values \in [Slots -> Kinds \cup {"null", "other"}]
    /\ alive \in SUBSET Bufs /\ lost \in SUBSET Addrs
    /\ vmap \in [Kinds -> Addrs \cup {Empty}]
    /\ held \in [Kinds -> Bufs \cup {NoBuf}]
    /\ hcb \in Bufs \cup {NoBuf} /\ hdb \in SUBSET Bufs /\ waitsData \in BOOLEAN
    /\ run \in 0 .. 2 * MaxCmds
    /\ raised \in SUBSET Completions /\ intr \in SUBSET Completions
    /\ moved \in {"no", "staged", "buffered", "done"}

\* rtsx_attach has allocated and mapped admabuf; other readers have some slots.
Init ==
    /\ pc = "idle" /\ failed = FALSE /\ mimic_linux \in BOOLEAN
    /\ n = 0 /\ cmd = NoCmd /\ req = 0 /\ size = 0 /\ len = 0
    /\ \E others \in Slots :
          /\ keys = [i \in Slots |-> IF i < others THEN Other(i)
                                     ELSE IF i = others THEN CHOOSE a \in Addrs : TRUE
                                     ELSE Empty]
          /\ values = [i \in Slots |-> IF i < others THEN "other"
                                       ELSE IF i = others THEN "adma" ELSE "null"]
    /\ alive = {<<"adma", 0>>} /\ lost = {}
    /\ vmap = [k \in Kinds |-> IF k = "adma" THEN CHOOSE a \in Addrs : TRUE ELSE Empty]
    /\ held = [k \in Kinds |-> NoBuf]
    /\ stored = 0 /\ segs = <<>> /\ table = <<>>
    /\ hcb = NoBuf /\ hdb = {} /\ waitsData = FALSE /\ run = 0
    /\ raised = {} /\ intr = {} /\ moved = "no"
    /\ first = 0 /\ good = {} /\ misled = FALSE /\ abandoned = FALSE

Goto(label) == pc' = label

\* Go on at ok, or at ko with an error
Succeed(ok) == Goto(ok) /\ UNCHANGED failed
Fail(ko)    == Goto(ko) /\ failed' = TRUE

-----------------------------------------------------------------------------
(***************************************************************************)
(* The table of mapped buffers, util_dict.h                                *)
(***************************************************************************)
FreeSlots == {i \in Slots : keys[i] = Empty}

\* getFreeSlot: the first one
GetFreeSlot == CHOOSE i \in FreeSlots : \A j \in FreeSlots : i <= j

AddToList(key, value) ==
    /\ keys' = [keys EXCEPT ![GetFreeSlot] = key]
    /\ values' = [values EXCEPT ![GetFreeSlot] = value]

FindKey(key) == {i \in Slots : keys[i] = key}

\* Mutant of RemoveFromList: the value is cleared, and the key kept
RemoveFromListKeepsKey(key) ==
    /\ UNCHANGED keys
    /\ values' = [i \in Slots |-> IF i \in FindKey(key) THEN "null" ELSE values[i]]

RemoveFromList(key) ==
    /\ keys' = [i \in Slots |-> IF i \in FindKey(key) THEN Empty ELSE keys[i]]
    /\ values' = [i \in Slots |-> IF i \in FindKey(key) THEN "null" ELSE values[i]]

-----------------------------------------------------------------------------
(***************************************************************************)
(* The DMA layer, dma.cpp.  Each of these is what a caller does at label   *)
(* "from": it goes on at "ok", or fails and goes to "ko".                   *)
(***************************************************************************)

\* bus_dmamem_alloc of a contiguous buffer
Alloc(from, kind, ok, ko) ==
    /\ pc = from
    /\ \/ alive' = alive \cup {Buf(kind)} /\ Succeed(ok)
       \/ Fail(ko) /\ UNCHANGED alive
    /\ UNCHANGED <<thread, request, dict, vmap, held, segments, chipVars, moved>>

\* bus_dmamem_free
Free(from, kind, to) ==
    /\ pc = from
    /\ alive' = alive \ {Buf(kind)}
    /\ Succeed(to)
    /\ UNCHANGED <<thread, request, dict, vmap, held, segments, chipVars, moved>>

Mapped == lost \cup {vmap[k] : k \in Kinds} \cup {keys[i] : i \in Slots}

\* bus_dmamem_map: the mapping is not undone when the table is full.
MapOutcome(kind, ok, ko) ==
    \/ Fail(ko) /\ UNCHANGED <<dict, vmap>>
    \/ /\ Addrs \ Mapped # {}
       /\ LET addr == CHOOSE a \in Addrs \ Mapped : TRUE
          IN  \/ /\ FreeSlots # {}
                 /\ vmap' = [vmap EXCEPT ![kind] = addr]
                 /\ AddToList(addr, kind)
                 /\ Succeed(ok) /\ UNCHANGED lost
              \/ /\ FreeSlots = {}
                 /\ lost' = lost \cup {addr}
                 /\ Fail(ko) /\ UNCHANGED <<keys, values, vmap>>

Map(from, kind, ok, ko) ==
    /\ pc = from
    /\ MapOutcome(kind, ok, ko)
    /\ UNCHANGED <<thread, request, alive, held, segments, chipVars, moved>>

\* Mutant of Unmap: the mapping is released and stays in the table
UnmapKeepsSlot(from, kind, to) ==
    /\ pc = from
    /\ vmap' = [vmap EXCEPT ![kind] = Empty]
    /\ Succeed(to)
    /\ UNCHANGED <<thread, request, dict, alive, held, segments, chipVars, moved>>

\* bus_dmamem_unmap
Unmap(from, kind, to) ==
    /\ pc = from
    /\ vmap' = [vmap EXCEPT ![kind] = Empty]
    /\ RemoveFromList(vmap[kind])
    /\ Succeed(to)
    /\ UNCHANGED <<thread, request, lost, alive, held, segments, chipVars, moved>>

\* bus_dmamap_load: the buffer is the one whose segs[] the table has for the
\* address.  A load that fails may leave the descriptor in the IODMACommand,
\* and one that finds another descriptor there may fail for that.  Each map is
\* used for one kind of buffer, and named for it.
LoadOutcome(kind, ok, ko) ==
    LET buf == Buf(values[CHOOSE i \in FindKey(vmap[kind]) : TRUE])
    IN  \/ /\ held' = [held EXCEPT ![kind] = buf]
           /\ Succeed(ok)
        \/ /\ held' \in {held, [held EXCEPT ![kind] = buf]}
           /\ Fail(ko)

Load(from, kind, ok, ko) ==
    /\ pc = from
    /\ LoadOutcome(kind, ok, ko)
    /\ UNCHANGED <<thread, request, dict, memory, segments, chipVars, moved>>

\* bus_dmamap_unload
Unload(from, kind, to) ==
    /\ pc = from
    /\ held' = [held EXCEPT ![kind] = NoBuf]
    /\ Succeed(to)
    /\ UNCHANGED <<thread, request, dict, memory, segments, chipVars, moved>>

-----------------------------------------------------------------------------
(***************************************************************************)
(* SDDisk's buffer: dma_alloc, then loads of sc_dmap by the commands that  *)
(* read or write, then dma_free.  A request loads it once for each chunk   *)
(* and each retry.                                                         *)
(***************************************************************************)

\* bus_dmamem_alloc of a buffer in as many segments as it takes
AllocClient ==
    /\ pc = "idle" /\ n < MaxCmds /\ req < MaxCmds
    /\ req' = req + 1 /\ size' \in 1 .. MaxPages /\ len' = 0
    /\ \/ \E s \in Cuts(size') :
             /\ stored' = Stored(s, SDMMC_MAXNSEGS)
             /\ IF AllocFits(s, SDMMC_MAXNSEGS)
                THEN alive' = alive \cup {Buf("client")'} /\ Succeed("map_client")
                ELSE Fail("idle") /\ UNCHANGED alive
       \/ Fail("idle") /\ UNCHANGED <<alive, stored>>
    /\ UNCHANGED <<thread, dict, vmap, held, segs, table, chipVars, moved>>

\* sdmmc_mem_read_block, sdmmc_mem_write_block: load of the chunk
LoadClient ==
    /\ pc = "ready" /\ n < MaxCmds
    /\ \E l \in 1 .. size, s \in Cuts(size) :
          /\ len' = l
          /\ LoadOutcome("client", "loaded", "ready")
          /\ segs' = IF pc' = "loaded" /\ LoadFits(s, l, SDMMC_MAXNSEGS)
                     THEN Loaded(s, l) ELSE <<>>
          /\ pc' = "loaded" => LoadFits(s, l, SDMMC_MAXNSEGS)
    /\ UNCHANGED <<thread, req, size, dict, memory, stored, table, chipVars, moved>>

UnloadClient ==
    /\ pc = "loaded"
    /\ held' = [held EXCEPT !["client"] = NoBuf]
    /\ segs' = <<>>
    /\ Succeed("ready")
    /\ UNCHANGED <<thread, request, dict, memory, stored, table, chipVars, moved>>

\* bus_dmamem_free; dma_segs goes out of scope.
FreeClient ==
    /\ pc = "free_client"
    /\ alive' = alive \ {Buf("client")}
    /\ size' = 0 /\ len' = 0 /\ stored' = 0
    /\ Succeed("idle")
    /\ UNCHANGED <<thread, req, dict, vmap, held, segs, table, chipVars, moved>>

SDDiskBuffer ==
    \/ AllocClient
    \/ Map("map_client", "client", "ready", "free_client")
    \/ LoadClient
    \/ UnloadClient
    \/ Unmap("ready", "client", "free_client")
    \/ FreeClient

-----------------------------------------------------------------------------
(***************************************************************************)
(* rtsx_exec_command                                                       *)
(***************************************************************************)

\* Commands with a DMA map are given while it is loaded.
Submit ==
    /\ n < MaxCmds
    /\ \E c \in Cmds :
          /\ \/ pc = "idle" /\ c.kind # "adma"
             \/ pc = "loaded" /\ c.kind # "bounce"
          /\ cmd' = c
    /\ n' = n + 1
    /\ failed' = FALSE /\ moved' = "no" /\ first' = run
    /\ Goto("alloc_cmd")
    /\ UNCHANGED <<mimic_linux, request, dmaVars, chip, raised, intr, good, misled, abandoned>>

\* No SDIO support, or a response type that the chip does not know
Refuse ==
    /\ pc = "alloc_cmd" /\ cmd.kind = "none"
    /\ Fail("ret")
    /\ UNCHANGED <<thread, request, dmaVars, chipVars, moved>>

\* rtsx_hostcmd_send: the chip runs the commands that are in the command buffer.
Start(data) ==
    /\ hcb' = held["cmd"]
    /\ waitsData' = data
    /\ run' = run + 1

HostcmdSend ==
    /\ pc = "send" /\ Start(FALSE)
    /\ Succeed("wait_cmd")
    /\ UNCHANGED <<thread, request, dmaVars, hdb, raised, intr, history, moved>>

\* rtsx_soft_reset
SoftReset == hcb' = NoBuf /\ hdb' = {} /\ UNCHANGED <<waitsData, run>>

\* An error path that is about to give buffers back while the chip is at work
LeaveAtWork(onError) ==
    abandoned' = (abandoned \/ (onError /\ {hcb} \cup hdb # {NoBuf}))

\* rtsx_wait_intr takes all that is in intr_status.  Whatever the chip says, it
\* fails if the card is gone by then.
WaitTake(from, ok, ko) ==
    /\ pc = from /\ intr # {}
    /\ intr' = {}
    /\ misled' = (misled \/ \E c \in intr : c.run # run)
    /\ \/ (\A c \in intr : c.ok) /\ Succeed(ok)
       \/ Fail(ko)
    /\ LeaveAtWork(failed')
    /\ UNCHANGED <<thread, request, dmaVars, chip, raised, first, good, moved>>

\* Mutant of WaitTimeout: the chip is not stopped
WaitTimeoutLeavesChip(from, ko) ==
    /\ pc = from /\ intr = {}
    /\ Fail(ko)
    /\ UNCHANGED <<thread, request, dmaVars, chipVars, moved>>

WaitTimeout(from, ko) ==
    /\ pc = from /\ intr = {}
    /\ SoftReset
    /\ Fail(ko)
    /\ UNCHANGED <<thread, request, dmaVars, raised, intr, history, moved>>

Wait(from, ok, ko) == WaitTake(from, ok, ko) \/ WaitTimeout(from, ko)

\* SCF_ITSDONE: the command is given back.
Return ==
    /\ pc = "ret"
    /\ Succeed(IF vmap["client"] = Empty THEN "idle" ELSE "loaded")
    /\ UNCHANGED <<thread, request, dmaVars, chipVars, moved>>

-----------------------------------------------------------------------------
(***************************************************************************)
(* rtsx_xfer: the card has answered the command; its data is moved.  The   *)
(* size of the data never exceeds RTSX_DMA_DATA_BUFSIZE, and the test of   *)
(* it is left out.                                                         *)
(***************************************************************************)

\* The host commands of the transfer reuse the command buffer.
XferSend ==
    /\ pc = "xfer"
    /\ IF cmd.kind = "none"
       THEN Succeed("unload_cmd") /\ UNCHANGED <<hcb, waitsData, run>>
       ELSE Start(TRUE) /\ Succeed(cmd.kind)
    /\ UNCHANGED <<thread, request, dmaVars, hdb, raised, intr, history, moved>>

\* rtsx_xfer_exec: the chip moves data with these buffers.
Trigger(from, bufs, to) ==
    /\ pc = from
    /\ hdb' = bufs
    /\ Succeed(to)
    /\ UNCHANGED <<thread, request, dmaVars, hcb, waitsData, run, raised, intr, history, moved>>

\* rtsx_xfer_bounce: a memcpy between c_data and the bounce buffer
CopyIn ==
    /\ pc = "copy_in"
    /\ moved' = IF cmd.read THEN moved ELSE "staged"
    /\ Succeed("load_data")
    /\ UNCHANGED <<thread, request, dmaVars, chipVars>>

\* Mutant of CopyOut: the data stays in the bounce buffer
CopyOutForgotten ==
    /\ pc = "copy_out"
    /\ Succeed("unmap_data")
    /\ UNCHANGED <<thread, request, dmaVars, chipVars, moved>>

CopyOut ==
    /\ pc = "copy_out"
    /\ moved' = IF ~failed /\ cmd.read /\ moved = "buffered" THEN "done" ELSE moved
    /\ Succeed("unmap_data")
    /\ UNCHANGED <<thread, request, dmaVars, chipVars>>

XferBounce ==
    \/ Alloc("bounce", "data", "map_data", "xfer_done")
    \/ Map("map_data", "data", "copy_in", "free_data")
    \/ CopyIn
    \/ Load("load_data", "data", "exec_data", "unmap_data")
    \/ Trigger("exec_data", {Buf("data")}, "wait_data")
    \/ Wait("wait_data", "unload_data", "unload_data")
    \/ Unload("unload_data", "data", "copy_out")
    \/ CopyOut
    \/ Unmap("unmap_data", "data", "free_data")
    \/ Free("free_data", "data", "xfer_done")

\* rtsx_xfer_adma: one descriptor for each segment of sc_dmap
BuildTable ==
    /\ pc = "adma"
    /\ table' = segs
    /\ Succeed("load_adma")
    /\ UNCHANGED <<thread, request, dict, memory, held, stored, segs, chipVars, moved>>

XferAdma ==
    \/ BuildTable
    \/ Load("load_adma", "adma", "exec_adma", "xfer_done")
    \/ Trigger("exec_adma", {Buf("adma"), Buf("client")}, "wait_adma")
    \/ Wait("wait_adma", "unload_adma", "unload_adma")
    \/ Unload("unload_adma", "adma", "xfer_done")

\* Mutant of XferDone: nobody stops the chip
XferDoneRuns ==
    /\ pc = "xfer_done"
    /\ Succeed("unload_cmd")
    /\ UNCHANGED <<thread, request, dmaVars, chipVars, moved>>

\* rtsx_exec_command stops the chip after a failed transfer as Linux does.
XferDone ==
    /\ pc = "xfer_done"
    /\ IF failed /\ mimic_linux
       THEN SoftReset /\ UNCHANGED abandoned
       ELSE UNCHANGED chip /\ LeaveAtWork(failed)
    /\ Succeed("unload_cmd")
    /\ UNCHANGED <<thread, request, dmaVars, raised, intr, first, good, misled, moved>>

ExecCommand ==
    \/ Submit \/ Refuse
    \/ Alloc("alloc_cmd", "cmd", "map_cmd", "ret")
    \/ Map("map_cmd", "cmd", "load_cmd", "free_cmd")
    \/ Load("load_cmd", "cmd", "send", "unmap_cmd")
    \/ HostcmdSend
    \/ Wait("wait_cmd", "xfer", "unload_cmd")
    \/ XferSend \/ XferBounce \/ XferAdma \/ XferDone
    \/ Unload("unload_cmd", "cmd", "unmap_cmd")
    \/ Unmap("unmap_cmd", "cmd", "free_cmd")
    \/ Free("free_cmd", "cmd", "ret")
    \/ Return

-----------------------------------------------------------------------------
(***************************************************************************)
(* The chip and the interrupt thread                                       *)
(***************************************************************************)
Moved == IF Buf("client") \in hdb THEN "done"
         ELSE IF Buf("data") \notin hdb THEN moved
         ELSE IF cmd.read THEN "buffered"
         ELSE IF moved = "staged" THEN "done" ELSE moved

\* The chip ends its host commands: well only if the data could move.
ChipEnds(ok) ==
    /\ hcb # NoBuf
    /\ ok => ~waitsData \/ hdb # {}
    /\ hcb' = NoBuf
    /\ hdb' = IF waitsData THEN {} ELSE hdb
    /\ raised' = raised \cup {[ok |-> ok, run |-> run]}
    /\ good' = IF ok THEN good \cup {run} ELSE good
    /\ moved' = IF ok /\ waitsData THEN Moved ELSE moved
    /\ UNCHANGED <<pc, failed, thread, request, dmaVars, waitsData, run, intr,
                   first, misled, abandoned>>

\* rtsx_intr records the interrupt.
Interrupt ==
    /\ raised # {}
    /\ intr' = intr \cup raised /\ raised' = {}
    /\ UNCHANGED <<pc, failed, thread, request, dmaVars, chip, history, moved>>

Next ==
    \/ SDDiskBuffer \/ ExecCommand
    \/ ChipEnds(TRUE) \/ ChipEnds(FALSE) \/ Interrupt

Spec == Init /\ [][Next]_vars

-----------------------------------------------------------------------------
(***************************************************************************)
(* Properties                                                              *)
(***************************************************************************)
Mine == {i \in Slots : keys[i] > 0}

\* Whatever failed on the way, between requests the driver is left with the
\* ADMA table only: no buffer is wired and no slot of the table is taken
\* (the gotos of rtsx_exec_command, rtsx_xfer_bounce and dma_alloc).
NothingLeaks ==
    pc = "idle" => /\ alive = {Buf("adma")}
                   /\ {keys[i] : i \in Mine} = {vmap["adma"]}

\* The arrays of fixed length are long enough.  A reader takes three slots of the
\* table at most, so that ten slots are enough for three readers: a mapping is
\* lost only to a table with less room than that.  And the "too late" test of
\* bus_dmamem_alloc never writes past the array of SDDisk: a buffer has fewer
\* segments than the array has elements.
ArraysSuffice ==
    /\ TypeOK
    /\ lost # {} => Cardinality({i \in Slots : keys[i] < 0}) > ArraySize - 3
    /\ stored <= SDMMC_MAXNSEGS

\* The chip never works with a buffer that was given back, unless a late
\* completion of an earlier run ended a wait, or the data phase could not be
\* set up and nobody stopped it.
ChipOnLiveBuffers ==
    ~misled /\ ~abandoned => hdb \cup ({hcb} \ {NoBuf}) \subseteq alive

\* With -rtsx_mimic_linux the chip is at rest when a command is given back,
\* unless a late completion ended a wait.
AtRestAsLinux ==
    pc = "ret" /\ mimic_linux /\ ~misled => hcb = NoBuf /\ hdb = {}

\* A command that is given back as done was ended well by the chip, data
\* phase included, and its data is where the caller expects it.
VerdictMatches ==
    pc = "ret" /\ ~failed /\ ~misled /\ ~abandoned =>
        /\ first + 1 .. run \subseteq good
        /\ run = first + (IF cmd.kind = "none" THEN 1 ELSE 2)
        /\ cmd.kind # "none" => moved = "done"

\* The scatter/gather table that the chip follows describes what the command
\* moves, no more and no less, and fits in its buffer.
TableCoversTransfer ==
    Buf("adma") \in hdb /\ ~misled /\ ~abandoned =>
        Len(table) <= SDMMC_MAXNSEGS /\ Total(table) = len
=============================================================================
