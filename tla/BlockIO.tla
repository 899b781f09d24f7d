------------------------------- MODULE BlockIO -------------------------------
(***************************************************************************)
(* One I/O request from end to end: SDDisk::doAsyncReadWrite, the chunk    *)
(* loop and retries of read_task_impl_, sdmmc_mem_read_block and           *)
(* sdmmc_mem_write_block with the commands they send.  Requests are        *)
(* executed one at a time, by the task thread.                             *)
(*                                                                         *)
(* A chunk is maxSendBytes; all sizes are in blocks of 512 bytes.  A       *)
(* command may fail at any time, after the card has transferred any number *)
(* of blocks of a data command.  One that is reported as done was done: a  *)
(* late completion taken for the next command's (RtsxIntr) is left out.    *)
(***************************************************************************)
EXTENDS Integers, FiniteSets

CONSTANTS
    NumBlocks,     \* num_blocks_, the capacity of the card
    ChunkBlocks,   \* maxSendBytes / 512
    Retries,       \* the first argument of UTL_RUN_WITH_RETRY
    MaxRequests,   \* bound: requests that are accepted
    MimicLinux,    \* boot argument -rtsx_mimic_linux
    Dma,           \* SMC_CAPS_DMA, off with boot argument -rtsx_no_adma
    WriteEnabled   \* off with boot argument -rtsx_ro

ASSUME BlockIOAssumption ==
    /\ NumBlocks \in Nat /\ ChunkBlocks \in Nat \ {0}
    /\ Retries \in Nat /\ MaxRequests \in Nat
    /\ MimicLinux \in BOOLEAN /\ Dma \in BOOLEAN /\ WriteEnabled \in BOOLEAN

VARIABLES
    accepted,   \* number of requests accepted
    req,        \* the BioArgs, or NoRequest
    pc,
    blocks,     \* the next block on the card
    remaining,  \* remainingBytes
    sent,       \* sentBytes
    retr,       \* RUN_WITH_RETRY_retr
    error,      \* error, returned by the attempt or kept by read_task_impl_
    wrError,    \* wr_error of sdmmc_mem_write_block_subr
    allocated,  \* the bounce buffer is allocated and mapped
    loaded,     \* sc_dmap is loaded
    selected,   \* sc_card is the card
    bounce,     \* the bounce buffer
    card, mem,  \* blocks of the card, blocks of the client's memory
    result      \* what the completion was called with

vars == <<accepted, req, pc, blocks, remaining, sent, retr, error, wrError,
          allocated, loaded, selected, bounce, card, mem, result>>

NoRequest == [id |-> 0, op |-> "none", block |-> 0, nblks |-> 0]
Requests  == [id : 1 .. MaxRequests, op : {"read", "write"},
              block : 0 .. NumBlocks, nblks : 0 .. NumBlocks]

\* A block's content: block i of the data of the n-th request, what the card
\* held at first (n = 0), or anything else.
Junk == <<-1, 0>>
NewData(r, i) == <<r.id, i>>
Data == {Junk} \cup ((0 .. MaxRequests) \X (0 .. NumBlocks))

Labels == {"idle", "alloc", "loop", "copyin", "load", "select", "data", "stop",
           "status", "unload", "tried", "copyout", "advance", "free", "complete"}

TypeOK ==
    /\ accepted \in 0 .. MaxRequests
    /\ req \in Requests \cup {NoRequest}
    /\ pc \in Labels
    /\ blocks \in 0 .. NumBlocks /\ remaining \in 0 .. NumBlocks /\ sent \in 0 .. NumBlocks
    /\ retr \in 0 .. Retries
    /\ error \in {"none", "EIO", "ENOMEM"} /\ wrError \in {"none", "EIO"}
    /\ allocated \in BOOLEAN /\ loaded \in BOOLEAN /\ selected \in BOOLEAN
    /\ bounce \in [0 .. ChunkBlocks - 1 -> Data]
    /\ card \in [0 .. NumBlocks - 1 -> Data]
    /\ mem \in [0 .. NumBlocks - 1 -> Data]
    /\ result \in {"none", "pending", "ok", "ioerr", "nomem"}

Init ==
    /\ accepted = 0 /\ req = NoRequest /\ pc = "idle"
    /\ blocks = 0 /\ remaining = 0 /\ sent = 0 /\ retr = 0
    /\ error = "none" /\ wrError = "none"
    /\ allocated = FALSE /\ loaded = FALSE /\ selected = FALSE
    /\ bounce = [i \in 0 .. ChunkBlocks - 1 |-> Junk]
    /\ card = [b \in 0 .. NumBlocks - 1 |-> <<0, b>>]
    /\ mem = [i \in 0 .. NumBlocks - 1 |-> Junk]
    /\ result = "none"

Goto(label) == pc' = label

request == <<accepted, req, result>>
position == <<blocks, remaining, sent>>
buffers == <<bounce, card, mem>>
resources == <<allocated, loaded, selected>>

\* sendByteCount
Chunk == IF remaining > ChunkBlocks THEN ChunkBlocks ELSE remaining

-----------------------------------------------------------------------------
(***************************************************************************)
(* SDDisk::doAsyncReadWrite: what it refuses is not queued.                *)
(***************************************************************************)

InRange(r) == r.block + r.nblks <= NumBlocks

Accept(r) ==
    /\ pc = "idle"
    /\ r.id = accepted + 1
    /\ r.op = "write" => WriteEnabled
    /\ InRange(r)
    /\ accepted' = accepted + 1
    /\ req' = r
    /\ result' = "pending"
    /\ blocks' = r.block /\ remaining' = r.nblks /\ sent' = 0
    /\ error' = "none"
    /\ Goto("alloc")
    /\ UNCHANGED <<retr, wrError, resources, buffers>>

-----------------------------------------------------------------------------
(***************************************************************************)
(* read_task_impl_                                                         *)
(***************************************************************************)

\* dma_alloc, which may fail, or the static buffer
Alloc ==
    /\ pc = "alloc"
    /\ \/ Goto("loop") /\ allocated' = Dma /\ UNCHANGED error
       \/ Dma /\ Goto("complete") /\ error' = "ENOMEM" /\ UNCHANGED allocated
    /\ UNCHANGED <<request, position, retr, wrError, loaded, selected, buffers>>

Loop ==
    /\ pc = "loop"
    /\ Goto(IF remaining = 0 THEN "free" ELSE IF req.op = "read" THEN "load" ELSE "copyin")
    /\ retr' = Retries
    /\ UNCHANGED <<request, position, error, wrError, resources, buffers>>

\* readBytes: from the client's memory to the bounce buffer, or nothing
CopyIn ==
    /\ pc = "copyin"
    /\ \/ /\ bounce' = [i \in DOMAIN bounce |-> IF i < Chunk THEN NewData(req, sent + i) ELSE bounce[i]]
          /\ Goto("load")
          /\ UNCHANGED error
       \/ error' = "EIO" /\ Goto("free") /\ UNCHANGED bounce
    /\ UNCHANGED <<request, position, retr, wrError, resources, card, mem>>

\* writeBytes: from the bounce buffer to the client's memory, or nothing
CopyOut ==
    /\ pc = "copyout"
    /\ \/ /\ mem' = [i \in DOMAIN mem |->
                        IF i \in sent .. sent + Chunk - 1 THEN bounce[i - sent] ELSE mem[i]]
          /\ Goto("advance")
          /\ UNCHANGED error
       \/ error' = "EIO" /\ Goto("free") /\ UNCHANGED mem
    /\ UNCHANGED <<request, position, retr, wrError, resources, bounce, card>>

\* Mutant of Tried: the retries are not counted down
TriedForEver ==
    /\ pc = "tried"
    /\ IF error = "none"
       THEN /\ Goto(IF req.op = "read" THEN "copyout" ELSE "advance")
            /\ UNCHANGED <<retr, error>>
       ELSE UNCHANGED retr /\ error' = "none" /\ Goto("load")
    /\ UNCHANGED <<request, position, wrError, resources, buffers>>

\* UTL_RUN_WITH_RETRY: do ... while (retr--)
Tried ==
    /\ pc = "tried"
    /\ IF error = "none"
       THEN /\ Goto(IF req.op = "read" THEN "copyout" ELSE "advance")
            /\ UNCHANGED <<retr, error>>
       ELSE IF retr = 0
       THEN Goto("free") /\ UNCHANGED <<retr, error>>
       ELSE retr' = retr - 1 /\ error' = "none" /\ Goto("load")
    /\ UNCHANGED <<request, position, wrError, resources, buffers>>

\* Mutant of Advance: the last chunk is taken for a whole one
AdvanceWholeChunk ==
    /\ pc = "advance"
    /\ blocks' = blocks + Chunk
    /\ remaining' = remaining - ChunkBlocks
    /\ sent' = sent + Chunk
    /\ Goto("loop")
    /\ UNCHANGED <<request, retr, error, wrError, resources, buffers>>

Advance ==
    /\ pc = "advance"
    /\ blocks' = blocks + Chunk
    /\ remaining' = remaining - Chunk
    /\ sent' = sent + Chunk
    /\ Goto("loop")
    /\ UNCHANGED <<request, retr, error, wrError, resources, buffers>>

\* Mutant of Free: the buffer of a failed request is not freed
FreeOnSuccess ==
    /\ pc = "free"
    /\ allocated' = (allocated /\ error # "none")
    /\ Goto("complete")
    /\ UNCHANGED <<request, position, retr, error, wrError, loaded, selected, buffers>>

\* dma_free
Free ==
    /\ pc = "free"
    /\ allocated' = FALSE
    /\ Goto("complete")
    /\ UNCHANGED <<request, position, retr, error, wrError, loaded, selected, buffers>>

\* the completion, called with what error says
Complete ==
    /\ pc = "complete"
    /\ result' = CASE error = "none" -> "ok" [] error = "ENOMEM" -> "nomem" [] OTHER -> "ioerr"
    /\ req' = NoRequest
    /\ Goto("idle")
    /\ UNCHANGED <<accepted, position, retr, error, wrError, resources, buffers>>

-----------------------------------------------------------------------------
(***************************************************************************)
(* One attempt: sdmmc_mem_read_block or sdmmc_mem_write_block              *)
(***************************************************************************)

\* bus_dmamap_load, which may fail; without DMA there is nothing to load
Load ==
    /\ pc = "load"
    /\ \/ loaded' = Dma /\ Goto("select") /\ UNCHANGED error
       \/ Dma /\ error' = "EIO" /\ Goto("tried") /\ UNCHANGED loaded
    /\ UNCHANGED <<request, position, retr, wrError, allocated, selected, buffers>>

\* sdmmc_select_card: CMD7 unless the card is selected
Select ==
    /\ pc = "select"
    /\ wrError' = "none"
    /\ \/ selected' = TRUE /\ Goto("data") /\ UNCHANGED error
       \/ ~selected /\ error' = "EIO" /\ Goto("unload") /\ UNCHANGED selected
    /\ UNCHANGED <<request, position, retr, allocated, loaded, buffers>>

\* MMC_READ_BLOCK_MULTIPLE or _SINGLE: the first n blocks reach the buffer
Fetch(n) ==
    bounce' = [i \in DOMAIN bounce |->
                  IF i < n THEN card[blocks + i] ELSE IF i < Chunk THEN Junk ELSE bounce[i]]

\* MMC_WRITE_BLOCK_MULTIPLE or _SINGLE: the first n blocks reach the card
Store(n) ==
    card' = [b \in DOMAIN card |->
                IF b \in blocks .. blocks + n - 1 THEN bounce[b - blocks] ELSE card[b]]

AfterData == IF Chunk > 1 THEN "stop" ELSE "status"

\* A failed read gives up at once, unless Linux is mimicked.
ReadData ==
    /\ pc = "data"
    /\ req.op = "read"
    /\ \/ Fetch(Chunk) /\ Goto(AfterData) /\ UNCHANGED error
       \/ /\ \E n \in 0 .. Chunk : Fetch(n)
          /\ error' = "EIO"
          /\ Goto(IF MimicLinux THEN AfterData ELSE "unload")
    /\ UNCHANGED <<request, position, retr, wrError, resources, card, mem>>

\* A failed write is remembered in wr_error, and goes on.
WriteData ==
    /\ pc = "data"
    /\ req.op = "write"
    /\ \/ Store(Chunk) /\ wrError' = "none" /\ error' = "none"
       \/ (\E n \in 0 .. Chunk : Store(n)) /\ wrError' = "EIO" /\ error' = "EIO"
    /\ Goto(AfterData)
    /\ UNCHANGED <<request, position, retr, resources, bounce, mem>>

\* MMC_STOP_TRANSMISSION: error is what this command returns
Stop ==
    /\ pc = "stop"
    /\ \/ error' = "none" /\ Goto("status")
       \/ error' = "EIO" /\ Goto("unload")
    /\ UNCHANGED <<request, position, retr, wrError, resources, buffers>>

\* MMC_SEND_STATUS until the card is ready for data, or the command fails
StatusBusy ==
    /\ pc = "status"
    /\ error' = "none"
    /\ UNCHANGED <<pc, request, position, retr, wrError, resources, buffers>>

StatusEnd ==
    /\ pc = "status"
    /\ error' \in {"none", "EIO"}
    /\ Goto("unload")
    /\ UNCHANGED <<request, position, retr, wrError, resources, buffers>>

\* Mutant of Unload: the error of the write is not looked at
UnloadForgetsWrError ==
    /\ pc = "unload"
    /\ loaded' = FALSE
    /\ Goto("tried")
    /\ UNCHANGED <<request, position, retr, error, wrError, allocated, selected, buffers>>

\* the result of the attempt (wr_error first), and bus_dmamap_unload
Unload ==
    /\ pc = "unload"
    /\ error' = IF req.op = "write" /\ wrError # "none" THEN wrError ELSE error
    /\ loaded' = FALSE
    /\ Goto("tried")
    /\ UNCHANGED <<request, position, retr, wrError, allocated, selected, buffers>>

-----------------------------------------------------------------------------
Attempt == \/ Load \/ Select \/ ReadData \/ WriteData \/ Stop \/ StatusBusy
           \/ StatusEnd \/ Unload
Task == Alloc \/ Loop \/ CopyIn \/ CopyOut \/ Tried \/ Advance \/ Free \/ Complete

Next == (\E r \in Requests : Accept(r)) \/ Task \/ Attempt

Spec == Init /\ [][Next]_vars

(***************************************************************************)
(* The task thread runs.  The status loop has no time limit, so a card     *)
(* that stays busy for ever is assumed away.                               *)
(***************************************************************************)
FairSpec == Spec /\ WF_vars(Task \/ Attempt) /\ WF_vars(StatusEnd)

-----------------------------------------------------------------------------
(***************************************************************************)
(* Properties                                                              *)
(***************************************************************************)

\* The driver is a block device: whatever fails and however often it is tried
\* again, a request that succeeds has transferred all its blocks, in order,
\* and no other block of the card or of the memory changes.
Device == INSTANCE BlockDevice WITH Capacity <- NumBlocks
DeviceSpec == Device!Spec

\* Whatever the request, its retries and failures, the chunk loop keeps its three
\* counters in their ranges and in step, and never reaches outside the request.
ChunksInStep ==
    /\ TypeOK
    /\ pc # "idle" => /\ sent + remaining = req.nblks
                      /\ blocks = req.block + sent
                      /\ blocks + Chunk <= NumBlocks

\* The bounce buffer and the loaded DMA map do not outlive the request: every
\* error path gives them back, and the map is loaded only around a command.  (The
\* sdmmc_task that SDDisk.cpp:493 allocates is no part of this: it is never freed.)
NothingLeaks ==
    /\ pc = "idle" => ~allocated
    /\ loaded => pc \in {"select", "data", "stop", "status", "unload"}

\* Every accepted request is completed: the retries are bounded.
RequestCompletes == pc # "idle" ~> pc = "idle"
=============================================================================
