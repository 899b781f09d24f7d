---------------------------- MODULE BlockIO_proofs ----------------------------
(***************************************************************************)
(* Proofs about BlockIO, for cards, chunks and numbers of retries of any   *)
(* size: the types and the counters of the chunk loop, what is held when,  *)
(* and that the driver implements the block device of BlockDevice.         *)
(*                                                                         *)
(* Written and ReadSoFar say how far a request has come: the blocks before *)
(* "sent" are where they belong, and those of the chunk are in the bounce  *)
(* buffer, and on the card once an attempt has ended without an error.     *)
(***************************************************************************)
EXTENDS BlockIO, TLAPS

-----------------------------------------------------------------------------
(***************************************************************************)
(* The inductive invariant                                                 *)
(***************************************************************************)
Types == TypeOK

\* There is a request, in the range of the card, unless the thread is idle.
Asked ==
    /\ pc = "idle" => req = NoRequest
    /\ pc # "idle" => req \in Requests /\ req.block + req.nblks <= NumBlocks

Counters ==
    pc # "idle" => sent + remaining = req.nblks /\ blocks = req.block + sent

\* An error is known only between the attempt that met it and its end.
Errors ==
    /\ pc \in {"alloc", "loop", "copyin", "load", "select", "data", "copyout", "advance"}
          => error = "none"
    /\ pc \in {"free", "complete"} /\ error = "none" => remaining = 0
    /\ pc = "copyin" => req.op = "write"
    /\ pc = "copyout" => req.op = "read"

Holds ==
    /\ allocated => pc \notin {"idle", "alloc", "complete"}
    /\ loaded => pc \in {"select", "data", "stop", "status", "unload"}

\* The chunk is on the card.
ChunkStored == \A i \in 0 .. Chunk - 1 : card[blocks + i] = NewData(req, sent + i)

AttemptStored ==
    \/ pc \in {"stop", "status"} /\ wrError = "none"
    \/ pc = "unload" /\ error = "none" /\ wrError = "none"
    \/ pc = "tried" /\ error = "none"
    \/ pc = "advance"

Written ==
    pc # "idle" /\ req.op = "write" =>
        /\ \A i \in 0 .. sent - 1 : card[req.block + i] = NewData(req, i)
        /\ pc \in {"load", "select", "data", "stop", "status", "unload", "tried", "advance"}
              => \A i \in 0 .. Chunk - 1 : bounce[i] = NewData(req, sent + i)
        /\ AttemptStored => ChunkStored

\* The chunk is in the bounce buffer.
ChunkFetched == \A i \in 0 .. Chunk - 1 : bounce[i] = card[blocks + i]

AttemptFetched ==
    \/ pc \in {"stop", "status", "copyout"}
    \/ pc \in {"unload", "tried"} /\ error = "none"

ReadSoFar ==
    pc # "idle" /\ req.op = "read" /\ ~MimicLinux =>
        /\ \A i \in 0 .. sent - 1 : mem[i] = card[req.block + i]
        /\ AttemptFetched => ChunkFetched
        /\ pc = "advance" => \A i \in 0 .. Chunk - 1 : mem[sent + i] = card[blocks + i]

IInv == Types /\ Asked /\ Counters /\ Errors /\ Holds /\ Written /\ ReadSoFar

-----------------------------------------------------------------------------
(***************************************************************************)
(* Where a chunk is                                                        *)
(***************************************************************************)
LEMMA ChunkFacts ==
    ASSUME Types
    PROVE  Chunk \in Nat /\ Chunk <= remaining /\ Chunk <= ChunkBlocks /\ Chunk <= NumBlocks
BY BlockIOAssumption DEF Types, TypeOK, Chunk

LEMMA RequestFacts ==
    ASSUME Types, Asked, Counters, pc # "idle"
    PROVE  /\ req.id \in 1 .. MaxRequests /\ req.op \in {"read", "write"}
           /\ req.block \in 0 .. NumBlocks /\ req.nblks \in 0 .. NumBlocks
           /\ sent \in Nat /\ blocks \in Nat /\ remaining \in Nat
           /\ sent + remaining = req.nblks /\ blocks = req.block + sent
           /\ sent + Chunk <= req.nblks
           /\ blocks + Chunk <= NumBlocks
<1>1. req \in Requests /\ req.block + req.nblks <= NumBlocks
  BY DEF Asked
<1>2. /\ req.id \in 1 .. MaxRequests /\ req.op \in {"read", "write"}
      /\ req.block \in 0 .. NumBlocks /\ req.nblks \in 0 .. NumBlocks
  BY <1>1 DEF Requests
<1>3. sent \in Nat /\ blocks \in Nat /\ remaining \in Nat
  BY BlockIOAssumption DEF Types, TypeOK
<1>4. sent + remaining = req.nblks /\ blocks = req.block + sent
  BY DEF Counters
<1> QED  BY <1>1, <1>2, <1>3, <1>4, ChunkFacts, BlockIOAssumption

LEMMA NewDataType ==
    ASSUME req.id \in 1 .. MaxRequests, NEW i \in 0 .. NumBlocks
    PROVE  NewData(req, i) \in Data
BY BlockIOAssumption DEF NewData, Data

\* Only these actions change the request, or how far it has come.
Moving == (\E r \in Requests : Accept(r)) \/ Advance \/ Complete

LEMMA StaysPut ==
    ASSUME Next, ~Moving
    PROVE  UNCHANGED request /\ UNCHANGED position
BY DEF Moving, Next, Task, Attempt, Alloc, Loop, CopyIn, CopyOut, Tried, Free, Load, Select,
   ReadData, WriteData, Stop, StatusBusy, StatusEnd, Unload, request, position

LEMMA SameChunk ==
    ASSUME UNCHANGED position
    PROVE  Chunk' = Chunk /\ sent' = sent /\ blocks' = blocks /\ remaining' = remaining
BY DEF position, Chunk

-----------------------------------------------------------------------------
(***************************************************************************)
(* Types, and where the request is                                         *)
(***************************************************************************)
LEMMA TypesStep ==
    ASSUME Types, Asked, Counters, Errors, [Next]_vars
    PROVE  Types'
<1> USE DEF Types, TypeOK, Labels, Goto, request, position, buffers, resources
<1>1. ASSUME NEW r \in Requests, Accept(r) PROVE Types'
  <2>1. r.block \in 0 .. NumBlocks /\ r.nblks \in 0 .. NumBlocks /\ accepted' \in 0 .. MaxRequests
    BY <1>1, BlockIOAssumption DEF Accept, Requests
  <2>2. 0 \in 0 .. NumBlocks
    BY BlockIOAssumption
  <2> QED  BY <1>1, <2>1, <2>2 DEF Accept
<1>2. CASE Alloc
  BY <1>2, BlockIOAssumption DEF Alloc
<1>3. CASE Loop
  BY <1>3, BlockIOAssumption DEF Loop
<1>4. CASE CopyIn
  <2>1. ASSUME NEW i \in DOMAIN bounce, i < Chunk PROVE NewData(req, sent + i) \in Data
    <3>1. i \in Nat /\ sent + i \in 0 .. NumBlocks
      BY SMTT(60), <1>4, <2>1, RequestFacts, ChunkFacts, BlockIOAssumption DEF CopyIn
    <3> QED  BY <1>4, <3>1, RequestFacts, NewDataType DEF CopyIn
  <2>2. [i \in DOMAIN bounce |-> IF i < Chunk THEN NewData(req, sent + i) ELSE bounce[i]]
           \in [0 .. ChunkBlocks - 1 -> Data]
    BY <2>1
  <2> QED  BY <1>4, <2>2 DEF CopyIn
<1>5. CASE CopyOut
  <2>1. ASSUME NEW i \in DOMAIN mem, i \in sent .. sent + Chunk - 1 PROVE bounce[i - sent] \in Data
    <3>1. i - sent \in 0 .. ChunkBlocks - 1
      BY <2>1, ChunkFacts, BlockIOAssumption
    <3> QED  BY <3>1
  <2>2. [i \in DOMAIN mem |-> IF i \in sent .. sent + Chunk - 1 THEN bounce[i - sent] ELSE mem[i]]
           \in [0 .. NumBlocks - 1 -> Data]
    BY <2>1
  <2> QED  BY <1>5, <2>2 DEF CopyOut
<1>6. CASE Tried
  <2>1. retr # 0 => retr - 1 \in 0 .. Retries
    BY BlockIOAssumption
  <2> QED  BY <1>6, <2>1 DEF Tried
<1>7. CASE Advance
  <2>1. pc # "idle"
    BY <1>7 DEF Advance
  <2> HIDE DEF Types, TypeOK
  <2>2. blocks + Chunk \in 0 .. NumBlocks /\ remaining - Chunk \in 0 .. NumBlocks
        /\ sent + Chunk \in 0 .. NumBlocks
    BY <2>1, RequestFacts, ChunkFacts, BlockIOAssumption
  <2> QED  BY <1>7, <2>2 DEF Advance, Types, TypeOK
<1>8. CASE Free
  BY <1>8 DEF Free
<1>9. CASE Complete
  BY <1>9 DEF Complete
<1>10. CASE Load
  BY <1>10, BlockIOAssumption DEF Load
<1>11. CASE Select
  BY <1>11 DEF Select
<1>12. CASE ReadData
  <2>1. ASSUME NEW k \in 0 .. Chunk, Fetch(k) PROVE bounce' \in [0 .. ChunkBlocks - 1 -> Data]
    <3>1. ASSUME NEW i \in DOMAIN bounce, i < k PROVE card[blocks + i] \in Data
      <4>1. blocks + i \in 0 .. NumBlocks - 1
        BY <1>12, <3>1, RequestFacts, ChunkFacts, BlockIOAssumption DEF ReadData
      <4> QED  BY <4>1
    <3>2. Junk \in Data
      BY DEF Data
    <3> QED  BY <2>1, <3>1, <3>2 DEF Fetch
  <2>2. Chunk \in 0 .. Chunk
    BY ChunkFacts
  <2>3. bounce' \in [0 .. ChunkBlocks - 1 -> Data]
    BY <1>12, <2>1, <2>2 DEF ReadData
  <2> QED  BY <1>12, <2>3 DEF ReadData, AfterData
<1>13. CASE WriteData
  <2>1. ASSUME NEW k \in 0 .. Chunk, Store(k) PROVE card' \in [0 .. NumBlocks - 1 -> Data]
    <3>1. ASSUME NEW b \in DOMAIN card, b \in blocks .. blocks + k - 1 PROVE bounce[b - blocks] \in Data
      <4>1. b - blocks \in 0 .. ChunkBlocks - 1
        BY <3>1, ChunkFacts, BlockIOAssumption
      <4> QED  BY <4>1
    <3> QED  BY <2>1, <3>1 DEF Store
  <2>2. Chunk \in 0 .. Chunk
    BY ChunkFacts
  <2>3. card' \in [0 .. NumBlocks - 1 -> Data]
    BY <1>13, <2>1, <2>2 DEF WriteData
  <2> QED  BY <1>13, <2>3 DEF WriteData, AfterData
<1>14. CASE Stop
  BY <1>14 DEF Stop
<1>15. CASE StatusBusy \/ StatusEnd
  BY <1>15 DEF StatusBusy, StatusEnd
<1>16. CASE Unload
  BY <1>16 DEF Unload
<1>17. CASE UNCHANGED vars
  BY <1>17 DEF vars
<1> QED
  BY <1>1, <1>2, <1>3, <1>4, <1>5, <1>6, <1>7, <1>8, <1>9, <1>10, <1>11, <1>12, <1>13, <1>14,
     <1>15, <1>16, <1>17 DEF Next, Task, Attempt

LEMMA AskedStep ==
    ASSUME Types, Asked, Counters, [Next]_vars
    PROVE  Asked' /\ Counters'
<1> USE DEF Asked, Counters
<1>1. ASSUME NEW r \in Requests, Accept(r) PROVE Asked' /\ Counters'
  <2>1. r.block \in Nat /\ r.nblks \in Nat
    BY BlockIOAssumption DEF Requests
  <2> QED  BY <1>1, <2>1 DEF Accept, InRange, Goto
<1>2. CASE Advance
  <2>1. sent' = sent + Chunk /\ remaining' = remaining - Chunk /\ blocks' = blocks + Chunk
        /\ req' = req /\ pc = "advance" /\ pc' = "loop"
    BY <1>2 DEF Advance, request, Goto
  <2> QED  BY <2>1, RequestFacts, ChunkFacts
<1>3. CASE Complete
  BY <1>3 DEF Complete, Goto
<1>4. CASE Next /\ ~Moving
  <2>1. req' = req /\ sent' = sent /\ remaining' = remaining /\ blocks' = blocks
    BY <1>4, StaysPut DEF request, position
  <2>2. pc # "idle" /\ pc' # "idle"
    BY <1>4 DEF Moving, Next, Task, Attempt, Alloc, Loop, CopyIn, CopyOut, Tried, Free, Load,
       Select, ReadData, WriteData, Stop, StatusBusy, StatusEnd, Unload, Goto, AfterData
  <2> QED  BY <2>1, <2>2
<1>5. CASE UNCHANGED vars
  BY <1>5 DEF vars
<1> QED  BY <1>1, <1>2, <1>3, <1>4, <1>5 DEF Moving

LEMMA ErrorsStep ==
    ASSUME Types, Asked, Counters, Errors, [Next]_vars
    PROVE  Errors'
<1> USE DEF Errors, Goto
<1>1. ASSUME NEW r \in Requests, Accept(r) PROVE Errors'
  BY <1>1 DEF Accept
<1>2. CASE Task
  <2>1. CASE Loop
    <3>1. req.op \in {"read", "write"}
      BY <2>1, RequestFacts DEF Loop
    <3> QED  BY <2>1, <3>1 DEF Loop, request, position
  <2>2. CASE Tried
    <3>1. req.op \in {"read", "write"}
      BY <2>2, RequestFacts DEF Tried
    <3> QED  BY <2>2, <3>1 DEF Tried, request, position
  <2> QED
    BY <1>2, <2>1, <2>2 DEF Task, Alloc, CopyIn, CopyOut, Advance, Free, Complete, request, position
<1>3. CASE Attempt
  BY <1>3 DEF Attempt, Load, Select, ReadData, WriteData, Stop, StatusBusy, StatusEnd, Unload,
     AfterData, request, position
<1>4. CASE UNCHANGED vars
  BY <1>4 DEF vars
<1> QED  BY <1>1, <1>2, <1>3, <1>4 DEF Next

LEMMA HoldsStep ==
    ASSUME Holds, [Next]_vars
    PROVE  Holds'
<1> USE DEF Holds, Goto, resources
<1>1. ASSUME NEW r \in Requests, Accept(r) PROVE Holds'
  BY <1>1 DEF Accept
<1>2. CASE Task
  BY <1>2 DEF Task, Alloc, Loop, CopyIn, CopyOut, Tried, Advance, Free, Complete
<1>3. CASE Attempt
  BY <1>3 DEF Attempt, Load, Select, ReadData, WriteData, Stop, StatusBusy, StatusEnd, Unload,
     AfterData
<1>4. CASE UNCHANGED vars
  BY <1>4 DEF vars
<1> QED  BY <1>1, <1>2, <1>3, <1>4 DEF Next

-----------------------------------------------------------------------------
(***************************************************************************)
(* How far the request has come                                            *)
(***************************************************************************)
Quiet == Alloc \/ Loop \/ Tried \/ Free \/ Load \/ Select \/ Stop \/ StatusBusy \/ StatusEnd \/ Unload

LEMMA QuietStep ==
    ASSUME Types, Asked, Errors, Quiet
    PROVE  /\ UNCHANGED request /\ UNCHANGED position /\ UNCHANGED buffers /\ pc # "idle"
           /\ req.op = "write" =>
                /\ pc' \in {"load", "select", "data", "stop", "status", "unload", "tried", "advance"}
                      => pc \in {"load", "select", "data", "stop", "status", "unload", "tried", "advance"}
                /\ AttemptStored' => AttemptStored
           /\ req.op = "read" =>
                /\ AttemptFetched' => AttemptFetched
                /\ pc' # "advance"
<1>1. UNCHANGED request /\ UNCHANGED position /\ UNCHANGED buffers /\ pc # "idle"
  BY DEF Quiet, Alloc, Loop, Tried, Free, Load, Select, Stop, StatusBusy, StatusEnd, Unload,
     request, position, buffers
<1>2. ASSUME req.op = "write"
      PROVE  /\ pc' \in {"load", "select", "data", "stop", "status", "unload", "tried", "advance"}
                  => pc \in {"load", "select", "data", "stop", "status", "unload", "tried", "advance"}
             /\ AttemptStored' => AttemptStored
  BY <1>2 DEF Quiet, Alloc, Loop, Tried, Free, Load, Select, Stop, StatusBusy, StatusEnd, Unload,
     AttemptStored, Errors, Goto
<1>3. ASSUME req.op = "read"
      PROVE  (AttemptFetched' => AttemptFetched) /\ pc' # "advance"
  BY <1>3 DEF Quiet, Alloc, Loop, Tried, Free, Load, Select, Stop, StatusBusy, StatusEnd, Unload,
     AttemptFetched, Errors, Goto
<1> QED  BY <1>1, <1>2, <1>3

\* The blocks of the request and of its chunk are blocks of the card and of the memory.
LEMMA InBounds ==
    ASSUME Types, Asked, Counters, pc # "idle"
    PROVE  /\ \A i \in 0 .. req.nblks - 1 : req.block + i \in DOMAIN card /\ i \in DOMAIN mem
           /\ \A i \in 0 .. Chunk - 1 : /\ blocks + i \in DOMAIN card /\ sent + i \in DOMAIN mem
                                        /\ i \in DOMAIN bounce
<1>1. DOMAIN card = 0 .. NumBlocks - 1 /\ DOMAIN mem = 0 .. NumBlocks - 1
      /\ DOMAIN bounce = 0 .. ChunkBlocks - 1
  BY DEF Types, TypeOK
<1>2. req.block + req.nblks <= NumBlocks
  BY DEF Asked
<1>3. req.block \in Nat /\ req.nblks \in Nat /\ req.nblks <= NumBlocks
  BY RequestFacts, BlockIOAssumption
<1>4. ASSUME NEW i \in 0 .. req.nblks - 1
      PROVE  req.block + i \in 0 .. NumBlocks - 1 /\ i \in 0 .. NumBlocks - 1
  BY <1>2, <1>3, BlockIOAssumption
<1>5. /\ sent \in Nat /\ blocks \in Nat /\ Chunk \in Nat
      /\ sent + Chunk <= NumBlocks /\ blocks + Chunk <= NumBlocks /\ Chunk <= ChunkBlocks
  BY <1>3, RequestFacts, ChunkFacts, BlockIOAssumption
<1>6. ASSUME NEW i \in 0 .. Chunk - 1
      PROVE  blocks + i \in 0 .. NumBlocks - 1 /\ sent + i \in 0 .. NumBlocks - 1
             /\ i \in 0 .. ChunkBlocks - 1
  BY <1>5, BlockIOAssumption
<1> QED  BY <1>1, <1>4, <1>6

LEMMA WrittenStep ==
    ASSUME Types, Asked, Counters, Errors, Written, [Next]_vars
    PROVE  Written'
<1>1. ASSUME NEW r \in Requests, Accept(r) PROVE Written'
  <2>1. sent' = 0 /\ pc' = "alloc"
    BY <1>1 DEF Accept, Goto
  <2> QED  BY <2>1 DEF Written, AttemptStored
<1>2. CASE CopyIn
  <2>1. pc = "copyin" /\ pc' \in {"load", "free"}
    BY <1>2 DEF CopyIn, Goto
  <2>2. UNCHANGED request /\ UNCHANGED position /\ card' = card
    BY <1>2 DEF CopyIn
  <2>3. req' = req /\ sent' = sent /\ Chunk' = Chunk
    BY <2>2, SameChunk DEF request
  <2>4. pc' = "load" => \A i \in 0 .. Chunk - 1 : bounce'[i] = NewData(req, sent + i)
    <3>1. ASSUME pc' = "load", NEW i \in 0 .. Chunk - 1 PROVE bounce'[i] = NewData(req, sent + i)
      <4>1. i \in DOMAIN bounce /\ i < Chunk
        BY <2>1, InBounds, ChunkFacts
      <4> QED  BY <1>2, <3>1, <4>1 DEF CopyIn, Goto
    <3> QED  BY <3>1
  <2>5. ~AttemptStored'
    BY <2>1 DEF AttemptStored
  <2> QED  BY <2>1, <2>2, <2>3, <2>4, <2>5 DEF Written, NewData
<1>3. CASE CopyOut
  <2>1. req.op = "read" /\ req' = req
    BY <1>3 DEF CopyOut, Errors, request
  <2> QED  BY <2>1 DEF Written
<1>4. CASE Advance
  <2>1. sent' = sent + Chunk /\ req' = req /\ card' = card /\ pc = "advance" /\ pc' = "loop"
    BY <1>4 DEF Advance, request, buffers, Goto
  <2>2. ASSUME req.op = "write", NEW i \in 0 .. sent + Chunk - 1
        PROVE  card[req.block + i] = NewData(req, i)
    <3>1. \A j \in 0 .. sent - 1 : card[req.block + j] = NewData(req, j)
      BY <2>1, <2>2 DEF Written
    <3>2. \A j \in 0 .. Chunk - 1 : card[blocks + j] = NewData(req, sent + j)
      BY <2>1, <2>2 DEF Written, AttemptStored, ChunkStored
    <3>3. CASE i < sent
      <4>1. i \in 0 .. sent - 1
        BY <2>1, <3>3, RequestFacts, ChunkFacts
      <4> QED  BY <3>1, <4>1
    <3>4. CASE i >= sent
      <4>1. i - sent \in 0 .. Chunk - 1 /\ blocks + (i - sent) = req.block + i /\ sent + (i - sent) = i
        BY <2>1, <3>4, RequestFacts, ChunkFacts
      <4> QED  BY <3>2, <4>1
    <3> QED  BY <2>1, <3>3, <3>4, RequestFacts, ChunkFacts
  <2>3. ~AttemptStored' /\ pc' \notin {"load", "select", "data", "stop", "status", "unload", "tried", "advance"}
    BY <2>1 DEF AttemptStored
  <2>4. ASSUME req.op = "write"
        PROVE  \A i \in 0 .. sent' - 1 : card'[req'.block + i] = NewData(req, i)'
    <3>1. \A i \in 0 .. sent + Chunk - 1 : card[req.block + i] = NewData(req, i)
      BY <2>2, <2>4
    <3>2. sent' - 1 = sent + Chunk - 1 /\ card' = card /\ req' = req
      BY <2>1, RequestFacts, ChunkFacts
    <3> QED  BY <3>1, <3>2 DEF NewData
  <2> QED  BY <2>1, <2>3, <2>4 DEF Written
<1>5. CASE Complete
  BY <1>5 DEF Complete, Written, Goto
<1>6. CASE ReadData
  <2>1. req.op = "read" /\ req' = req
    BY <1>6 DEF ReadData, request
  <2> QED  BY <2>1 DEF Written
<1>7. CASE WriteData
  <2>1. pc = "data" /\ req.op = "write" /\ pc' \in {"stop", "status"}
    BY <1>7 DEF WriteData, Goto, AfterData
  <2>2. req' = req /\ UNCHANGED position /\ bounce' = bounce
    BY <1>7 DEF WriteData, request
  <2>3. sent' = sent /\ blocks' = blocks /\ Chunk' = Chunk
    BY <2>2, SameChunk
  <2>4. PICK n \in 0 .. Chunk : Store(n) /\ (wrError' = "none" => n = Chunk)
    <3>1. Chunk \in 0 .. Chunk
      BY ChunkFacts
    <3> QED  BY <1>7, <3>1 DEF WriteData
  <2>5. \A i \in 0 .. Chunk - 1 : bounce[i] = NewData(req, sent + i)
    BY <2>1 DEF Written
  <2>6. ASSUME NEW i \in 0 .. sent - 1 PROVE card'[req.block + i] = NewData(req, i)
    <3>1. req.block + i \in DOMAIN card /\ req.block + i \notin blocks .. blocks + n - 1
      BY <2>1, InBounds, RequestFacts, ChunkFacts
    <3>2. card[req.block + i] = NewData(req, i)
      BY <2>1 DEF Written
    <3> QED  BY <2>4, <3>1, <3>2 DEF Store
  <2>7. ASSUME n = Chunk, NEW i \in 0 .. Chunk - 1 PROVE card'[blocks + i] = NewData(req, sent + i)
    <3>1. blocks + i \in DOMAIN card /\ blocks + i \in blocks .. blocks + n - 1
          /\ (blocks + i) - blocks = i
      BY <2>1, <2>7, InBounds, RequestFacts, ChunkFacts
    <3> QED  BY <2>4, <2>5, <3>1 DEF Store
  <2>8. AttemptStored' => n = Chunk
    BY <2>1, <2>4 DEF AttemptStored
  <2> QED  BY <2>1, <2>2, <2>3, <2>5, <2>6, <2>7, <2>8 DEF Written, ChunkStored, NewData
<1>8. CASE Quiet
  <2>1. pc # "idle" /\ req' = req /\ card' = card /\ bounce' = bounce
        /\ sent' = sent /\ blocks' = blocks /\ Chunk' = Chunk
    BY <1>8, QuietStep, SameChunk DEF request, buffers
  <2>2. ASSUME req.op = "write" PROVE Written'
    BY <1>8, <2>1, <2>2, QuietStep DEF Written, ChunkStored, NewData
  <2> QED  BY <2>1, <2>2 DEF Written
<1>9. CASE UNCHANGED vars
  BY <1>9 DEF vars, Written, AttemptStored, ChunkStored, NewData, Chunk
<1> QED
  BY <1>1, <1>2, <1>3, <1>4, <1>5, <1>6, <1>7, <1>8, <1>9 DEF Next, Task, Attempt, Quiet

LEMMA ReadSoFarStep ==
    ASSUME Types, Asked, Counters, Errors, ReadSoFar, [Next]_vars
    PROVE  ReadSoFar'
<1>1. ASSUME NEW r \in Requests, Accept(r) PROVE ReadSoFar'
  <2>1. sent' = 0 /\ pc' = "alloc"
    BY <1>1 DEF Accept, Goto
  <2> QED  BY <2>1 DEF ReadSoFar, AttemptFetched
<1>2. CASE CopyIn
  <2>1. req.op = "write" /\ req' = req
    BY <1>2 DEF CopyIn, Errors, request
  <2> QED  BY <2>1 DEF ReadSoFar
<1>3. CASE CopyOut
  <2>1. pc = "copyout" /\ pc' \in {"advance", "free"}
    BY <1>3 DEF CopyOut, Goto
  <2>2. req' = req /\ UNCHANGED position /\ card' = card /\ error' \in {error, "EIO"}
    BY <1>3 DEF CopyOut, request
  <2>3. sent' = sent /\ blocks' = blocks /\ Chunk' = Chunk
    BY <2>2, SameChunk
  <2>4. mem' \in {mem, [i \in DOMAIN mem |->
                          IF i \in sent .. sent + Chunk - 1 THEN bounce[i - sent] ELSE mem[i]]}
        /\ (pc' = "advance" => mem' = [i \in DOMAIN mem |->
                          IF i \in sent .. sent + Chunk - 1 THEN bounce[i - sent] ELSE mem[i]])
    BY <1>3 DEF CopyOut, Goto
  <2>5. SUFFICES ASSUME req.op = "read", ~MimicLinux PROVE ReadSoFar'
    BY <2>2 DEF ReadSoFar
  <2>6. (\A i \in 0 .. sent - 1 : mem[i] = card[req.block + i]) /\ ChunkFetched
    BY <2>1, <2>5 DEF ReadSoFar, AttemptFetched
  <2>7. ASSUME NEW i \in 0 .. sent - 1 PROVE mem'[i] = card[req.block + i]
    <3>1. i \in DOMAIN mem /\ i \notin sent .. sent + Chunk - 1
      BY <2>1, InBounds, RequestFacts, ChunkFacts
    <3> QED  BY <2>4, <2>6, <3>1
  <2>8. ASSUME pc' = "advance", NEW i \in 0 .. Chunk - 1 PROVE mem'[sent + i] = card[blocks + i]
    <3>1. sent + i \in DOMAIN mem /\ sent + i \in sent .. sent + Chunk - 1 /\ (sent + i) - sent = i
      BY <2>1, InBounds, RequestFacts, ChunkFacts
    <3> QED  BY <2>4, <2>6, <2>8, <3>1 DEF ChunkFetched
  <2>9. ~AttemptFetched'
    BY <2>1 DEF AttemptFetched
  <2> QED  BY <2>2, <2>3, <2>7, <2>8, <2>9 DEF ReadSoFar
<1>4. CASE Advance
  <2>1. sent' = sent + Chunk /\ req' = req /\ card' = card /\ mem' = mem
        /\ pc = "advance" /\ pc' = "loop"
    BY <1>4 DEF Advance, request, buffers, Goto
  <2>2. ASSUME req.op = "read", ~MimicLinux, NEW i \in 0 .. sent + Chunk - 1
        PROVE  mem[i] = card[req.block + i]
    <3>1. \A j \in 0 .. sent - 1 : mem[j] = card[req.block + j]
      BY <2>1, <2>2 DEF ReadSoFar
    <3>2. \A j \in 0 .. Chunk - 1 : mem[sent + j] = card[blocks + j]
      BY <2>1, <2>2 DEF ReadSoFar
    <3>3. CASE i < sent
      <4>1. i \in 0 .. sent - 1
        BY <2>1, <3>3, RequestFacts, ChunkFacts
      <4> QED  BY <3>1, <4>1
    <3>4. CASE i >= sent
      <4>1. i - sent \in 0 .. Chunk - 1 /\ blocks + (i - sent) = req.block + i /\ sent + (i - sent) = i
        BY <2>1, <3>4, RequestFacts, ChunkFacts
      <4> QED  BY <3>2, <4>1
    <3> QED  BY <2>1, <3>3, <3>4, RequestFacts, ChunkFacts
  <2>3. ~AttemptFetched'
    BY <2>1 DEF AttemptFetched
  <2>4. ASSUME req.op = "read", ~MimicLinux
        PROVE  \A i \in 0 .. sent' - 1 : mem'[i] = card'[req'.block + i]
    <3>1. \A i \in 0 .. sent + Chunk - 1 : mem[i] = card[req.block + i]
      BY <2>2, <2>4
    <3>2. sent' - 1 = sent + Chunk - 1 /\ card' = card /\ req' = req /\ mem' = mem
      BY <2>1, RequestFacts, ChunkFacts
    <3> QED  BY <3>1, <3>2
  <2> QED  BY <2>1, <2>3, <2>4 DEF ReadSoFar
<1>5. CASE Complete
  BY <1>5 DEF Complete, ReadSoFar, Goto
<1>6. CASE ReadData
  <2>1. pc = "data" /\ req' = req /\ UNCHANGED position /\ card' = card /\ mem' = mem
    BY <1>6 DEF ReadData, request
  <2>2. sent' = sent /\ blocks' = blocks /\ Chunk' = Chunk
    BY <2>1, SameChunk
  <2>3. SUFFICES ASSUME req.op = "read", ~MimicLinux PROVE ReadSoFar'
    BY <2>1 DEF ReadSoFar
  <2>4. \/ Fetch(Chunk) /\ pc' \in {"stop", "status"}
        \/ error' = "EIO" /\ pc' = "unload"
    BY <1>6, <2>3 DEF ReadData, Goto, AfterData
  <2>5. pc' \in {"stop", "status", "unload"}
    BY <2>4
  <2>6. \A i \in 0 .. sent - 1 : mem[i] = card[req.block + i]
    BY <2>1, <2>3 DEF ReadSoFar
  <2>7. ASSUME AttemptFetched', NEW i \in 0 .. Chunk - 1 PROVE bounce'[i] = card[blocks + i]
    <3>1. Fetch(Chunk)
      BY <2>4, <2>7 DEF AttemptFetched
    <3>2. i \in DOMAIN bounce /\ i < Chunk
      BY <2>1, InBounds, ChunkFacts
    <3> QED  BY <3>1, <3>2 DEF Fetch
  <2> QED  BY <2>1, <2>2, <2>5, <2>6, <2>7 DEF ReadSoFar, ChunkFetched
<1>7. CASE WriteData
  <2>1. req.op = "write" /\ req' = req
    BY <1>7 DEF WriteData, request
  <2> QED  BY <2>1 DEF ReadSoFar
<1>8. CASE Quiet
  <2>1. pc # "idle" /\ req' = req /\ card' = card /\ bounce' = bounce /\ mem' = mem
        /\ sent' = sent /\ blocks' = blocks /\ Chunk' = Chunk
    BY <1>8, QuietStep, SameChunk DEF request, buffers
  <2>2. ASSUME req.op = "read", ~MimicLinux PROVE ReadSoFar'
    <3>1. (AttemptFetched' => AttemptFetched) /\ pc' # "advance"
      BY <1>8, <2>2, QuietStep
    <3> QED  BY <2>1, <2>2, <3>1 DEF ReadSoFar, ChunkFetched
  <2> QED  BY <2>1, <2>2 DEF ReadSoFar
<1>9. CASE UNCHANGED vars
  BY <1>9 DEF vars, ReadSoFar, AttemptFetched, ChunkFetched, Chunk
<1> QED
  BY <1>1, <1>2, <1>3, <1>4, <1>5, <1>6, <1>7, <1>8, <1>9 DEF Next, Task, Attempt, Quiet

-----------------------------------------------------------------------------
(***************************************************************************)
(* The theorems                                                            *)
(***************************************************************************)
LEMMA InitIInv == Init => IInv
<1>1. Init => Types
  <2>1. 0 \in 0 .. NumBlocks /\ 0 \in 0 .. Retries /\ 0 \in 0 .. MaxRequests
    BY BlockIOAssumption
  <2>2. Junk \in Data /\ \A b \in 0 .. NumBlocks - 1 : <<0, b>> \in Data
    BY BlockIOAssumption DEF Data
  <2> QED  BY <2>1, <2>2 DEF Init, Types, TypeOK, Labels
<1>2. Init => Asked /\ Counters /\ Errors /\ Holds /\ Written /\ ReadSoFar
  BY DEF Init, Asked, Counters, Errors, Holds, Written, ReadSoFar
<1> QED  BY <1>1, <1>2 DEF IInv

LEMMA StepIInv == IInv /\ [Next]_vars => IInv'
BY TypesStep, AskedStep, ErrorsStep, HoldsStep, WrittenStep, ReadSoFarStep DEF IInv

LEMMA Inductive == Spec => []IInv
BY InitIInv, StepIInv, PTL DEF Spec

\* The chunk loop, for every size of card, chunk and request and every number of
\* retries: the three counters of read_task_impl_ stay in their ranges and in step,
\* and the next chunk lies on the card.
THEOREM ChunkLoop == Spec => []ChunksInStep
<1>1. IInv => ChunksInStep
  BY RequestFacts DEF IInv, Counters, Types, ChunksInStep
<1> QED  BY <1>1, Inductive, PTL

\* Whatever fails, the bounce buffer is given back with the request, and the DMA map
\* is loaded only around a command of sdmmc_mem_read_block or sdmmc_mem_write_block.
THEOREM EverythingFreed == Spec => []NothingLeaks
<1>1. IInv => NothingLeaks
  BY DEF IInv, Holds, NothingLeaks
<1> QED  BY <1>1, Inductive, PTL

-----------------------------------------------------------------------------
(***************************************************************************)
(* The driver implements BlockDevice                                       *)
(***************************************************************************)
LEMMA StartsAsDevice == Init => Device!Init
BY DEF Init, Device!Init

\* the data phase of a write: the blocks that reach the card
LEMMA StoreIsTransfer ==
    ASSUME IInv, WriteData
    PROVE  Device!Transfer
<1>1. pc = "data" /\ req.op = "write" /\ UNCHANGED <<req, result, mem>>
  BY DEF WriteData, request
<1>2. Types /\ Asked /\ Counters /\ Written
  BY DEF IInv
<1>3. PICK n \in 0 .. Chunk : Store(n)
  <2>1. Chunk \in 0 .. Chunk
    BY <1>2, ChunkFacts
  <2> QED  BY <2>1 DEF WriteData
<1>4. req # NoRequest
  BY <1>1 DEF NoRequest
<1>5. /\ sent \in Nat /\ blocks \in Nat /\ Chunk \in Nat /\ n \in Nat /\ n <= Chunk
      /\ req.nblks \in Nat /\ req.block \in Nat
      /\ blocks = req.block + sent /\ sent + Chunk <= req.nblks
  BY <1>1, <1>2, RequestFacts, ChunkFacts, BlockIOAssumption
<1>6. sent .. sent + n - 1 \in SUBSET Device!Offsets
  BY <1>4, <1>5 DEF Device!Offsets
<1>7. \A i \in 0 .. Chunk - 1 : bounce[i] = NewData(req, sent + i)
  BY <1>1, <1>2 DEF Written
<1>8. ASSUME NEW b \in DOMAIN card
      PROVE  (IF b \in blocks .. blocks + n - 1 THEN bounce[b - blocks] ELSE card[b])
               = (IF \E i \in sent .. sent + n - 1 : b = req.block + i
                  THEN NewData(req, b - req.block) ELSE card[b])
  <2>1. b \in Nat
    BY <1>2, BlockIOAssumption DEF Types, TypeOK
  <2>2. CASE b \in blocks .. blocks + n - 1
    <3>1. b - req.block \in sent .. sent + n - 1 /\ b = req.block + (b - req.block)
      BY <1>5, <2>1, <2>2
    <3>2. b - blocks \in 0 .. Chunk - 1 /\ sent + (b - blocks) = b - req.block
      BY <1>5, <2>1, <2>2
    <3>3. bounce[b - blocks] = NewData(req, b - req.block)
      BY <1>7, <3>2
    <3> QED  BY <2>2, <3>1, <3>3
  <2>3. CASE b \notin blocks .. blocks + n - 1
    <3>1. ~ \E i \in sent .. sent + n - 1 : b = req.block + i
      BY <1>5, <2>1, <2>3
    <3> QED  BY <2>3, <3>1
  <2> QED  BY <2>2, <2>3
<1>9. card' = [b \in DOMAIN card |->
                 IF \E i \in sent .. sent + n - 1 : b = req.block + i
                 THEN NewData(req, b - req.block) ELSE card[b]]
  BY <1>3, <1>8 DEF Store
<1> QED  BY <1>1, <1>4, <1>6, <1>9 DEF Device!Transfer

\* a chunk copied to the client's memory
LEMMA CopyOutIsTransfer ==
    ASSUME IInv, CopyOut
    PROVE  Device!Transfer
<1>1. pc = "copyout" /\ req.op = "read" /\ UNCHANGED <<req, result, card>>
  BY DEF CopyOut, request, IInv, Errors
<1>2. Types /\ Asked /\ Counters
  BY DEF IInv
<1>3. req # NoRequest
  BY <1>1 DEF NoRequest
<1>4. /\ sent \in Nat /\ Chunk \in Nat /\ req.nblks \in Nat /\ sent + Chunk <= req.nblks
  BY <1>1, <1>2, RequestFacts, ChunkFacts, BlockIOAssumption
<1>5. \A i \in sent .. sent + Chunk - 1 : i \in Device!Offsets
  BY <1>3, <1>4 DEF Device!Offsets
<1>6. \/ mem' = [i \in DOMAIN mem |->
                   IF i \in sent .. sent + Chunk - 1 THEN bounce[i - sent] ELSE mem[i]]
      \/ mem' = mem
  BY DEF CopyOut
<1>7. DOMAIN mem' = DOMAIN mem /\ \A i \in DOMAIN mem : mem'[i] = mem[i] \/ i \in Device!Offsets
  BY <1>5, <1>6
<1> QED  BY <1>1, <1>3, <1>7 DEF Device!Transfer

\* the completion: success only when all the blocks are there
LEMMA CompleteIsFinish ==
    ASSUME IInv, Complete, MimicLinux = FALSE
    PROVE  Device!Finish
<1>1. pc = "complete" /\ req' = NoRequest /\ UNCHANGED <<card, mem>>
  BY DEF Complete, buffers
<1>2. Types /\ Asked /\ Counters /\ Errors /\ Written /\ ReadSoFar
  BY DEF IInv
<1>3. req.op \in {"read", "write"} /\ req # NoRequest
  BY <1>1, <1>2, RequestFacts DEF NoRequest
<1>4. CASE error = "none"
  <2>1. remaining = 0
    BY <1>1, <1>2, <1>4 DEF Errors
  <2>2. sent = req.nblks
    BY <1>1, <1>2, <2>1, RequestFacts
  <2>3. Device!Offsets = 0 .. sent - 1
    BY <1>3, <2>2 DEF Device!Offsets
  <2>4. req.op = "write" => Device!Stored(card)
    BY <1>1, <1>2, <2>3 DEF Written, Device!Stored
  <2>5. req.op = "read" => Device!Fetched(mem)
    BY <1>1, <1>2, <2>3 DEF ReadSoFar, Device!Fetched
  <2>6. result' = "ok"
    BY <1>4 DEF Complete
  <2> QED  BY <1>1, <1>3, <2>4, <2>5, <2>6 DEF Device!Finish
<1>5. CASE error # "none"
  <2>1. result' \in {"ioerr", "nomem"}
    BY <1>5 DEF Complete
  <2> QED  BY <1>1, <1>3, <2>1 DEF Device!Finish
<1> QED  BY <1>4, <1>5

LEMMA DeviceStep ==
    ASSUME IInv, [Next]_vars, MimicLinux = FALSE
    PROVE  [Device!Next]_(Device!vars)
<1>1. ASSUME NEW r \in Requests, Accept(r) PROVE Device!Next
  <2>1. req = NoRequest
    BY <1>1 DEF Accept, IInv, Asked
  <2>2. Device!Accept(r)
    BY <1>1, <2>1 DEF Accept, InRange, buffers, Device!Accept
  <2> QED  BY <2>2 DEF Device!Next
<1>2. CASE CopyOut
  BY <1>2, CopyOutIsTransfer DEF Device!Next
<1>3. CASE WriteData
  BY <1>3, StoreIsTransfer DEF Device!Next
<1>4. CASE Complete
  BY <1>4, CompleteIsFinish DEF Device!Next
<1>5. CASE Quiet
  BY <1>5 DEF Quiet, Alloc, Loop, Tried, Free, Load, Select, Stop, StatusBusy, StatusEnd, Unload,
     request, buffers, Device!vars
<1>6. CASE CopyIn \/ ReadData \/ Advance
  BY <1>6 DEF CopyIn, ReadData, Advance, request, buffers, Device!vars
<1>7. CASE UNCHANGED vars
  BY <1>7 DEF vars, Device!vars
<1> QED
  BY <1>1, <1>2, <1>3, <1>4, <1>5, <1>6, <1>7 DEF Next, Task, Attempt, Quiet

\* Without -rtsx_mimic_linux, the driver is a block device: a request that succeeds,
\* after whatever failures and retries, has transferred all of its blocks and
\* touched no other, for every card, chunk, request and number of retries.
THEOREM ImplementsBlockDevice ==
    ASSUME MimicLinux = FALSE
    PROVE  Spec => DeviceSpec
<1>1. IInv /\ [Next]_vars => [Device!Next]_(Device!vars)
  BY DeviceStep
<1> QED  BY <1>1, StartsAsDevice, Inductive, PTL DEF Spec, DeviceSpec, Device!Spec
=============================================================================
