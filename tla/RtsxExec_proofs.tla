-------------------------- MODULE RtsxExec_proofs --------------------------
(***************************************************************************)
(* Proofs about RtsxExec, for any number of commands, slots, addresses and *)
(* pages.  The order of the labels says what is held; the run number of a  *)
(* completion says whether it is one of the command that waits.            *)
(***************************************************************************)
EXTENDS RtsxExec, FiniteSetTheorems, WellFoundedInduction, TLAPS

-----------------------------------------------------------------------------
(***************************************************************************)
(* The inductive invariant                                                 *)
(***************************************************************************)

\* Between commands; with the bounce buffer; in rtsx_xfer_adma; with the
\* command buffer
OwnLabels  == {"idle", "map_client", "ready", "loaded", "free_client"}
DataMapped == {"copy_in", "load_data", "exec_data", "wait_data",
               "unload_data", "copy_out", "unmap_data"}
DataLabels == {"map_data", "free_data"} \cup DataMapped
AdmaLabels == {"adma", "load_adma", "exec_adma", "wait_adma", "unload_adma"}
CmdMapped  == {"load_cmd", "send", "wait_cmd", "xfer", "bounce", "xfer_done",
               "unload_cmd", "unmap_cmd"} \cup DataLabels \cup AdmaLabels
CmdLabels  == {"map_cmd", "free_cmd"} \cup CmdMapped

Types ==
    /\ pc \in OwnLabels \cup {"alloc_cmd", "ret"} \cup CmdLabels
    /\ n \in Nat /\ req \in Nat /\ run \in Nat /\ first \in Nat
    /\ cmd \in Cmds /\ failed \in BOOLEAN /\ mimic_linux \in BOOLEAN
    /\ misled \in BOOLEAN /\ abandoned \in BOOLEAN

\* What is allocated, at each place
ClientWired == pc \in {"map_client", "free_client"} \/ vmap["client"] # Empty

Wired ==
    alive = {<<"adma", 0>>}
            \cup (IF pc \in CmdLabels THEN {<<"cmd", n>>} ELSE {})
            \cup (IF pc \in DataLabels THEN {<<"data", n>>} ELSE {})
            \cup (IF ClientWired THEN {<<"client", req>>} ELSE {})

\* What is mapped, at each place
Places ==
    /\ vmap["adma"] # Empty
    /\ vmap["cmd"] # Empty <=> pc \in CmdMapped
    /\ vmap["data"] # Empty <=> pc \in DataMapped
    /\ pc \in {"idle", "map_client", "free_client"} => vmap["client"] = Empty
    /\ pc \in {"ready", "loaded"} => vmap["client"] # Empty
    /\ pc \notin OwnLabels /\ cmd.kind = "adma" => vmap["client"] # Empty
    /\ pc \in AdmaLabels => cmd.kind = "adma"
    /\ pc \in {"bounce"} \cup DataLabels => cmd.kind = "bounce"

\* The slots that the driver has taken are those of its mappings.
Listed ==
    /\ DOMAIN keys = Slots /\ \A i \in Slots : keys[i] \in Int
    /\ DOMAIN values = Slots
    /\ vmap \in [Kinds -> Nat]
    /\ \A k, l \in Kinds : vmap[k] = vmap[l] /\ vmap[k] # Empty => k = l
    /\ \A i \in Slots : keys[i] > 0 => \E k \in Kinds : keys[i] = vmap[k]
    /\ \A k \in Kinds : vmap[k] # Empty => \E i \in Slots : keys[i] = vmap[k]
    /\ \A i \in Slots, k \in Kinds : keys[i] = vmap[k] /\ vmap[k] # Empty => values[i] = k

Memory == Wired /\ Places /\ Listed

-----------------------------------------------------------------------------
(***************************************************************************)
(* The chip and the verdict.  As long as no late completion has ended a    *)
(* wait (misled) and the chip was never left at work (or is stopped then,  *)
(* as Linux does), it is at rest outside of Working and Leaving.           *)
(***************************************************************************)
Preparing == {"alloc_cmd", "map_cmd", "load_cmd", "send"}
Setup     == {"bounce", "map_data", "copy_in", "load_data", "exec_data",
              "adma", "load_adma", "exec_adma"}
Working   == {"wait_cmd", "wait_data", "wait_adma"} \cup Setup
Copied    == {"unmap_data", "free_data", "unload_adma", "xfer_done"}
Leaving   == {"unload_data", "copy_out"} \cup Copied
Ending    == {"unload_cmd", "unmap_cmd", "free_cmd", "ret"}

Tame == ~misled /\ (mimic_linux \/ ~abandoned)
Rest == hcb = NoBuf /\ hdb = {}

\* The command buffer that the chip will be given
CmdHeld ==
    /\ DOMAIN held = Kinds
    /\ pc \in {"send", "wait_cmd", "xfer"} => held["cmd"] = <<"cmd", n>>

\* How far the command is
Phase ==
    /\ pc = "wait_cmd" => ~waitsData
    /\ pc \in (Working \cup Leaving) \ {"wait_cmd"} => waitsData /\ cmd.kind # "none"
    /\ pc \in Preparing \cup Working \cup {"xfer"} => ~failed
    /\ pc \in Preparing => run = first
    /\ pc \in {"wait_cmd", "xfer"} => run = first + 1
    /\ pc \in (Working \cup Leaving) \ {"wait_cmd"} => run = first + 2

\* What the chip works with
Chip ==
    Tame =>
      /\ pc \notin Working \cup Leaving => Rest
      /\ pc \in Leaving /\ ~failed => Rest
      /\ pc \in Leaving /\ ~abandoned => hdb = {}
      /\ pc \in Setup \cup {"wait_cmd"} => hdb = {}
      /\ pc = "wait_data" => hdb \in {{}, {<<"data", n>>}}
      /\ pc = "wait_adma" => hdb \in {{}, {<<"adma", 0>>, <<"client", req>>}}
      /\ hcb \in {NoBuf, <<"cmd", n>>}

\* A completion of the current run means that the chip has ended, and if it
\* went well, that the data has moved.
RunsKnown == \A c \in raised \cup intr : c.run \in Nat /\ c.run <= run

Ended ==
    Tame => \A c \in raised \cup intr : c.run = run =>
      /\ hcb = NoBuf
      /\ ~waitsData => hdb = {}
      /\ c.ok => pc \notin Setup
      /\ c.ok /\ pc \in Working => run \in good /\ hdb = {}
      /\ c.ok /\ pc = "wait_adma" => moved = "done"
      /\ c.ok /\ pc = "wait_data" => moved = IF cmd.read THEN "buffered" ELSE "done"

\* What a command that has not failed has achieved
Progress ==
    /\ Tame /\ pc \in {"load_data", "exec_data"} /\ ~cmd.read => moved = "staged"
    /\ Tame /\ pc = "wait_data" /\ ~cmd.read => moved \in {"staged", "done"}
    /\ Tame /\ ~failed =>
        /\ pc \in {"xfer"} \cup (Working \ {"wait_cmd"}) \cup Leaving => first + 1 \in good
        /\ pc \in Leaving => first + 2 \in good
        /\ pc \in {"unload_data", "copy_out"} => moved = IF cmd.read THEN "buffered" ELSE "done"
        /\ pc \in Copied => moved = "done"
        /\ pc \in Ending => /\ first + 1 \in good
                            /\ run = first + (IF cmd.kind = "none" THEN 1 ELSE 2)
                            /\ cmd.kind # "none" => first + 2 \in good /\ moved = "done"

IInv == Types /\ Memory /\ CmdHeld /\ Phase /\ Chip /\ RunsKnown /\ Ended /\ Progress

-----------------------------------------------------------------------------
(***************************************************************************)
(* Buffers and mappings                                                    *)
(***************************************************************************)
LEMMA BufIs ==
    /\ Buf("adma") = <<"adma", 0>> /\ Buf("client") = <<"client", req>>
    /\ Buf("cmd") = <<"cmd", n>> /\ Buf("data") = <<"data", n>>
BY DEF Buf

\* The slot that getFreeSlot finds is a free one.
LEMMA FreeSlotExists ==
    ASSUME FreeSlots # {}
    PROVE  GetFreeSlot \in FreeSlots
<1> DEFINE Less == OpToRel(<, Nat)
<1>1. FreeSlots \subseteq Nat
  BY ExecAssumption DEF FreeSlots, Slots
<1>2. \E i \in FreeSlots : \A j \in FreeSlots : <<j, i>> \notin Less
  <2> HIDE DEF Less
  <2>1. IsWellFoundedOn(Less, Nat)
    BY NatLessThanWellFounded DEF Less
  <2> QED  BY <1>1, <2>1, WFMin
<1>3. \A i, j \in FreeSlots : <<j, i>> \notin Less => i <= j
  BY <1>1 DEF OpToRel
<1>4. \E i \in FreeSlots : \A j \in FreeSlots : i <= j
  BY <1>2, <1>3
<1> QED  BY <1>4 DEF GetFreeSlot

\* An address that map() hands out is not in use.
LEMMA NewMapping ==
    ASSUME Listed, NEW kind \in Kinds, vmap[kind] = Empty,
           NEW addr \in Addrs \ Mapped, FreeSlots # {},
           vmap' = [vmap EXCEPT ![kind] = addr], AddToList(addr, kind)
    PROVE  Listed' /\ vmap'[kind] # Empty /\ \A k \in Kinds \ {kind} : vmap'[k] = vmap[k]
<1> DEFINE s == GetFreeSlot
<1>1. s \in Slots /\ keys[s] = 0
  BY FreeSlotExists DEF FreeSlots, Empty
<1> HIDE DEF s
<1>2. /\ addr \in Nat /\ addr > 0
      /\ \A k \in Kinds : vmap[k] # addr
      /\ \A i \in Slots : keys[i] # addr
  BY ExecAssumption DEF Mapped
<1>3. /\ DOMAIN keys' = Slots /\ DOMAIN values' = Slots
      /\ keys'[s] = addr /\ values'[s] = kind
      /\ \A i \in Slots : i # s => keys'[i] = keys[i] /\ values'[i] = values[i]
  BY <1>1 DEF AddToList, s, Listed
<1>4. /\ vmap' \in [Kinds -> Nat] /\ vmap'[kind] = addr
      /\ \A k \in Kinds : k # kind => vmap'[k] = vmap[k]
  BY <1>2 DEF Listed
<1>5. \A i \in Slots : keys'[i] \in Int
  BY <1>2, <1>3 DEF Listed
<1>6. \A k, l \in Kinds : vmap'[k] = vmap'[l] /\ vmap'[k] # Empty => k = l
  BY <1>2, <1>4 DEF Listed
<1>7. \A i \in Slots : keys'[i] > 0 => \E k \in Kinds : keys'[i] = vmap'[k]
  <2> TAKE i \in Slots
  <2> HAVE keys'[i] > 0
  <2>1. CASE i = s
    BY <2>1, <1>3, <1>4
  <2>2. CASE i # s
    <3>1. keys'[i] = keys[i]
      BY <1>3, <2>2
    <3>2. PICK k \in Kinds : keys[i] = vmap[k]
      BY <3>1 DEF Listed
    <3>3. k # kind
      BY <3>1, <3>2 DEF Empty
    <3> QED  BY <1>4, <3>1, <3>2, <3>3
  <2> QED  BY <2>1, <2>2
<1>8. \A k \in Kinds : vmap'[k] # Empty => \E i \in Slots : keys'[i] = vmap'[k]
  <2> TAKE k \in Kinds
  <2> HAVE vmap'[k] # Empty
  <2>1. CASE k = kind
    BY <2>1, <1>1, <1>3, <1>4
  <2>2. CASE k # kind
    <3>1. PICK i \in Slots : keys[i] = vmap[k]
      BY <1>4, <2>2 DEF Listed
    <3>2. i # s
      BY <1>1, <1>4, <2>2, <3>1 DEF Empty
    <3> QED  BY <1>3, <1>4, <2>2, <3>1, <3>2
  <2> QED  BY <2>1, <2>2
<1>9. \A i \in Slots, k \in Kinds : keys'[i] = vmap'[k] /\ vmap'[k] # Empty => values'[i] = k
  <2> TAKE i \in Slots, k \in Kinds
  <2> HAVE keys'[i] = vmap'[k] /\ vmap'[k] # Empty
  <2>1. CASE i = s
    BY <2>1, <1>2, <1>3, <1>4
  <2>2. CASE i # s
    BY <2>2, <1>2, <1>3, <1>4 DEF Listed
  <2> QED  BY <2>1, <2>2
<1> QED  BY <1>2, <1>3, <1>4, <1>5, <1>6, <1>7, <1>8, <1>9 DEF Listed, Empty

LEMMA NoMapping ==
    ASSUME Listed, NEW kind \in Kinds, vmap[kind] # Empty,
           vmap' = [vmap EXCEPT ![kind] = Empty], RemoveFromList(vmap[kind])
    PROVE  Listed' /\ vmap'[kind] = Empty /\ \A k \in Kinds \ {kind} : vmap'[k] = vmap[k]
<1> DEFINE a == vmap[kind]
<1>1. a \in Nat /\ a # 0
  BY DEF Listed, Empty
<1>2. /\ DOMAIN keys' = Slots /\ DOMAIN values' = Slots
      /\ \A i \in Slots : keys'[i] = IF keys[i] = a THEN 0 ELSE keys[i]
      /\ \A i \in Slots : keys[i] # a => values'[i] = values[i]
  BY DEF RemoveFromList, FindKey, Empty
<1>3. /\ vmap' \in [Kinds -> Nat] /\ vmap'[kind] = 0
      /\ \A k \in Kinds : k # kind => vmap'[k] = vmap[k]
  BY DEF Listed, Empty
<1>4. \A k \in Kinds : k # kind => vmap[k] # a
  BY <1>1 DEF Listed, Empty
<1> HIDE DEF a
<1>5. \A i \in Slots : keys'[i] \in Int
  BY <1>2 DEF Listed
<1>6. \A k, l \in Kinds : vmap'[k] = vmap'[l] /\ vmap'[k] # Empty => k = l
  BY <1>3 DEF Listed, Empty
<1>7. \A i \in Slots : keys'[i] > 0 => \E k \in Kinds : keys'[i] = vmap'[k]
  <2> TAKE i \in Slots
  <2> HAVE keys'[i] > 0
  <2>1. keys'[i] = keys[i] /\ keys[i] # a
    BY <1>2
  <2>2. PICK k \in Kinds : keys[i] = vmap[k]
    BY <2>1 DEF Listed
  <2>3. k # kind
    BY <2>1, <2>2 DEF a
  <2> QED  BY <1>3, <2>1, <2>2, <2>3
<1>8. \A k \in Kinds : vmap'[k] # Empty => \E i \in Slots : keys'[i] = vmap'[k]
  <2> TAKE k \in Kinds
  <2> HAVE vmap'[k] # Empty
  <2>1. k # kind
    BY <1>3 DEF Empty
  <2>2. PICK i \in Slots : keys[i] = vmap[k]
    BY <1>3, <2>1 DEF Listed
  <2> QED  BY <1>2, <1>3, <1>4, <2>1, <2>2
<1>9. \A i \in Slots, k \in Kinds : keys'[i] = vmap'[k] /\ vmap'[k] # Empty => values'[i] = k
  <2> TAKE i \in Slots, k \in Kinds
  <2> HAVE keys'[i] = vmap'[k] /\ vmap'[k] # Empty
  <2>1. k # kind /\ vmap'[k] = vmap[k]
    BY <1>3 DEF Empty
  <2>2. keys'[i] = keys[i] /\ keys[i] # a
    BY <1>2, <1>4, <2>1 DEF Empty
  <2>3. keys[i] = vmap[k] /\ vmap[k] # Empty
    BY <2>1, <2>2
  <2>4. values[i] = k
    BY <2>3 DEF Listed
  <2> QED  BY <1>2, <2>2, <2>4
<1> QED  BY <1>2, <1>3, <1>5, <1>6, <1>7, <1>8, <1>9 DEF Listed, Empty

\* A step that neither allocates nor maps goes on among places that hold the same.
LEMMA SameMemory ==
    ASSUME Memory, UNCHANGED <<alive, vmap, keys, values, n, req, cmd>>,
           pc' \in CmdLabels <=> pc \in CmdLabels, pc' \in CmdMapped <=> pc \in CmdMapped,
           pc' \in DataLabels <=> pc \in DataLabels, pc' \in DataMapped <=> pc \in DataMapped,
           pc' \in OwnLabels <=> pc \in OwnLabels,
           pc' \in {"map_client", "free_client"} <=> pc \in {"map_client", "free_client"},
           pc' \in {"ready", "loaded"} <=> pc \in {"ready", "loaded"},
           pc' = "idle" <=> pc = "idle",
           pc' \in AdmaLabels => cmd.kind = "adma", pc' = "bounce" => cmd.kind = "bounce"
    PROVE  Memory'
<1>1. Listed'
  BY DEF Memory, Listed
<1>2. ClientWired' = ClientWired
  BY DEF ClientWired
<1>3. Wired'
  BY <1>2 DEF Memory, Wired
<1>4. Places'
  BY DEF Memory, Places
<1> QED  BY <1>1, <1>3, <1>4 DEF Memory

Quiet ==
    \/ LoadClient \/ UnloadClient \/ Refuse
    \/ Load("load_cmd", "cmd", "send", "unmap_cmd")
    \/ HostcmdSend \/ Wait("wait_cmd", "xfer", "unload_cmd") \/ XferSend
    \/ CopyIn
    \/ Load("load_data", "data", "exec_data", "unmap_data")
    \/ Trigger("exec_data", {Buf("data")}, "wait_data")
    \/ Wait("wait_data", "unload_data", "unload_data")
    \/ Unload("unload_data", "data", "copy_out") \/ CopyOut
    \/ XferAdma \/ XferDone \/ Unload("unload_cmd", "cmd", "unmap_cmd")
    \/ ChipEnds(TRUE) \/ ChipEnds(FALSE) \/ Interrupt \/ UNCHANGED vars

LEMMA QuietMemory ==
    ASSUME Types, Memory, Quiet
    PROVE  Memory'
<1>0. Places
  BY DEF Memory
<1> DEFINE Kept == UNCHANGED <<alive, vmap, keys, values, n, req, cmd>>
<1> USE DEF thread, request, dict, memory, dmaVars, Succeed, Fail, Goto
<1>1. CASE LoadClient \/ UnloadClient
  <2>1. Kept /\ pc \in {"ready", "loaded"} /\ pc' \in {"ready", "loaded"}
    BY <1>1 DEF LoadClient, UnloadClient, LoadOutcome
  <2> QED
    BY <2>1, SameMemory DEF OwnLabels, CmdLabels, CmdMapped, DataLabels, DataMapped, AdmaLabels
<1>2. CASE Refuse
  <2>1. Kept /\ pc = "alloc_cmd" /\ pc' = "ret"
    BY <1>2 DEF Refuse
  <2> QED
    BY <2>1, SameMemory DEF OwnLabels, CmdLabels, CmdMapped, DataLabels, DataMapped, AdmaLabels
<1>3. CASE \/ Load("load_cmd", "cmd", "send", "unmap_cmd") \/ HostcmdSend
           \/ Wait("wait_cmd", "xfer", "unload_cmd") \/ Unload("unload_cmd", "cmd", "unmap_cmd")
           \/ XferDone
  <2> DEFINE L == {"load_cmd", "send", "unmap_cmd", "wait_cmd", "xfer", "unload_cmd", "xfer_done"}
  <2>1. Kept /\ pc \in L /\ pc' \in L
    BY <1>3 DEF Load, LoadOutcome, HostcmdSend, Wait, WaitTake, WaitTimeout, Unload, XferDone
  <2> QED
    BY <2>1, SameMemory DEF OwnLabels, CmdLabels, CmdMapped, DataLabels, DataMapped, AdmaLabels
<1>4. CASE XferSend
  <2>1. /\ Kept /\ pc = "xfer" /\ cmd \in Cmds
        /\ pc' = IF cmd.kind = "none" THEN "unload_cmd" ELSE cmd.kind
    BY <1>4 DEF XferSend, Types
  <2>2. cmd.kind \in {"none", "bounce", "adma"}
    BY <2>1 DEF Cmds
  <2>3. CASE cmd.kind = "none"
    BY <2>1, <2>3, SameMemory
    DEF OwnLabels, CmdLabels, CmdMapped, DataLabels, DataMapped, AdmaLabels
  <2>4. CASE cmd.kind = "bounce"
    BY <2>1, <2>4, SameMemory
    DEF OwnLabels, CmdLabels, CmdMapped, DataLabels, DataMapped, AdmaLabels
  <2>5. CASE cmd.kind = "adma"
    BY <2>1, <2>5, SameMemory
    DEF OwnLabels, CmdLabels, CmdMapped, DataLabels, DataMapped, AdmaLabels
  <2> QED  BY <2>2, <2>3, <2>4, <2>5
<1>5. CASE \/ CopyIn \/ Load("load_data", "data", "exec_data", "unmap_data")
           \/ Trigger("exec_data", {Buf("data")}, "wait_data")
           \/ Wait("wait_data", "unload_data", "unload_data")
           \/ Unload("unload_data", "data", "copy_out") \/ CopyOut
  <2>1. Kept /\ pc \in DataMapped /\ pc' \in DataMapped
    BY <1>5 DEF CopyIn, Load, LoadOutcome, Trigger, Wait, WaitTake, WaitTimeout, Unload,
       CopyOut, DataMapped
  <2> QED
    BY <2>1, SameMemory DEF OwnLabels, CmdLabels, CmdMapped, DataLabels, DataMapped, AdmaLabels
<1>6. CASE XferAdma
  <2>1. Kept /\ pc \in AdmaLabels /\ pc' \in AdmaLabels \cup {"xfer_done"}
    BY <1>6 DEF XferAdma, BuildTable, Load, LoadOutcome, Trigger, Wait, WaitTake, WaitTimeout,
       Unload, AdmaLabels
  <2>2. cmd.kind = "adma"
    BY <1>0, <2>1 DEF Places
  <2> QED
    BY <2>1, <2>2, SameMemory
    DEF OwnLabels, CmdLabels, CmdMapped, DataLabels, DataMapped, AdmaLabels
<1>7. CASE ChipEnds(TRUE) \/ ChipEnds(FALSE) \/ Interrupt \/ UNCHANGED vars
  <2>1. Kept /\ pc' = pc
    BY <1>7 DEF ChipEnds, Interrupt, vars
  <2> QED
    BY <1>0, <2>1, SameMemory DEF Places, DataLabels
<1> QED  BY <1>1, <1>2, <1>3, <1>4, <1>5, <1>6, <1>7 DEF Quiet

Changing ==
    \/ AllocClient \/ Map("map_client", "client", "ready", "free_client")
    \/ Unmap("ready", "client", "free_client") \/ FreeClient
    \/ Submit \/ Alloc("alloc_cmd", "cmd", "map_cmd", "ret")
    \/ Map("map_cmd", "cmd", "load_cmd", "free_cmd")
    \/ Alloc("bounce", "data", "map_data", "xfer_done")
    \/ Map("map_data", "data", "copy_in", "free_data")
    \/ Unmap("unmap_data", "data", "free_data") \/ Free("free_data", "data", "xfer_done")
    \/ Unmap("unmap_cmd", "cmd", "free_cmd") \/ Free("free_cmd", "cmd", "ret")
    \/ Return

LEMMA QuietOrChanging == [Next]_vars => Quiet \/ Changing
BY DEF Next, SDDiskBuffer, ExecCommand, XferBounce, Quiet, Changing

LEMMA ChangingMemory ==
    ASSUME Types, Memory, Changing
    PROVE  Memory'
<1> SUFFICES Wired' /\ Places' /\ Listed'
  BY DEF Memory
<1>0. Wired /\ Places /\ Listed
  BY DEF Memory
<1> USE DEF thread, request, dict, memory, dmaVars, Succeed, Fail, Goto
<1>1. CASE AllocClient
  <2>1. /\ pc = "idle" /\ pc' \in {"idle", "map_client"} /\ UNCHANGED <<n, cmd, keys, values, vmap>>
        /\ pc' = "map_client" => alive' = alive \cup {<<"client", req'>>}
        /\ pc' = "idle" => alive' = alive
    BY <1>1 DEF AllocClient, Buf
  <2> QED  BY <1>0, <2>1 DEF Wired, Places, Listed, ClientWired, OwnLabels, CmdLabels,
     CmdMapped, DataLabels, DataMapped, AdmaLabels
<1>2. CASE Map("map_client", "client", "ready", "free_client")
  <2>1. pc = "map_client" /\ UNCHANGED <<alive, n, req, cmd>> /\ vmap["client"] = Empty
    BY <1>0, <1>2 DEF Map, Places, OwnLabels, CmdLabels, CmdMapped, DataLabels, DataMapped,
       AdmaLabels
  <2>2. CASE pc' = "ready"
    <3>1. Listed' /\ vmap'["client"] # Empty /\ \A k \in Kinds \ {"client"} : vmap'[k] = vmap[k]
      <4>1. PICK addr \in Addrs \ Mapped :
               FreeSlots # {} /\ vmap' = [vmap EXCEPT !["client"] = addr] /\ AddToList(addr, "client")
        BY <1>2, <2>2 DEF Map, MapOutcome
      <4> QED  BY <1>0, <2>1, <4>1, NewMapping DEF Kinds
    <3> QED  BY <1>0, <2>1, <2>2, <3>1 DEF Wired, Places, ClientWired, Kinds, OwnLabels,
       CmdLabels, CmdMapped, DataLabels, DataMapped, AdmaLabels
  <2>3. CASE pc' = "free_client"
    <3>1. UNCHANGED <<keys, values, vmap>>
      BY <1>2, <2>3 DEF Map, MapOutcome
    <3> QED  BY <1>0, <2>1, <2>3, <3>1 DEF Listed, Wired, Places, ClientWired, OwnLabels,
       CmdLabels, CmdMapped, DataLabels, DataMapped, AdmaLabels
  <2> QED  BY <1>2, <2>2, <2>3 DEF Map, MapOutcome
<1>3. CASE Unmap("ready", "client", "free_client")
  <2>1. pc = "ready" /\ pc' = "free_client" /\ UNCHANGED <<alive, n, req, cmd>> /\ vmap["client"] # Empty
    BY <1>0, <1>3 DEF Unmap, Places, OwnLabels, CmdLabels, CmdMapped, DataLabels, DataMapped,
       AdmaLabels
  <2>2. Listed' /\ vmap'["client"] = Empty /\ \A k \in Kinds \ {"client"} : vmap'[k] = vmap[k]
    BY <1>0, <1>3, <2>1, NoMapping DEF Unmap, Kinds
  <2> QED  BY <1>0, <2>1, <2>2 DEF Wired, Places, ClientWired, Kinds, OwnLabels, CmdLabels,
     CmdMapped, DataLabels, DataMapped, AdmaLabels
<1>4. CASE FreeClient
  <2>1. /\ pc = "free_client" /\ pc' = "idle" /\ UNCHANGED <<n, req, cmd, keys, values, vmap>>
        /\ alive' = alive \ {<<"client", req>>}
    BY <1>4, BufIs DEF FreeClient
  <2> QED  BY <1>0, <2>1 DEF Wired, Places, Listed, ClientWired, OwnLabels, CmdLabels,
     CmdMapped, DataLabels, DataMapped, AdmaLabels
<1>5. CASE Submit
  <2>1. /\ pc \in {"idle", "loaded"} /\ pc' = "alloc_cmd" /\ UNCHANGED <<alive, req, keys, values, vmap>>
        /\ cmd'.kind = "adma" => pc = "loaded"
    BY <1>5 DEF Submit
  <2> QED  BY <1>0, <2>1 DEF Wired, Places, Listed, ClientWired, OwnLabels, CmdLabels,
     CmdMapped, DataLabels, DataMapped, AdmaLabels
<1>6. CASE Alloc("alloc_cmd", "cmd", "map_cmd", "ret")
  <2>1. /\ pc = "alloc_cmd" /\ pc' \in {"map_cmd", "ret"} /\ UNCHANGED <<n, req, cmd, keys, values, vmap>>
        /\ alive' = IF pc' = "ret" THEN alive ELSE alive \cup {<<"cmd", n>>}
    BY <1>6, BufIs DEF Alloc
  <2> QED  BY <1>0, <2>1 DEF Wired, Places, Listed, ClientWired, OwnLabels, CmdLabels,
     CmdMapped, DataLabels, DataMapped, AdmaLabels
<1>7. CASE Map("map_cmd", "cmd", "load_cmd", "free_cmd")
  <2>1. pc = "map_cmd" /\ UNCHANGED <<alive, n, req, cmd>> /\ vmap["cmd"] = Empty
    BY <1>0, <1>7 DEF Map, Places, OwnLabels, CmdLabels, CmdMapped, DataLabels, DataMapped,
       AdmaLabels
  <2>2. CASE pc' = "load_cmd"
    <3>1. Listed' /\ vmap'["cmd"] # Empty /\ \A k \in Kinds \ {"cmd"} : vmap'[k] = vmap[k]
      <4>1. PICK addr \in Addrs \ Mapped :
               FreeSlots # {} /\ vmap' = [vmap EXCEPT !["cmd"] = addr] /\ AddToList(addr, "cmd")
        BY <1>7, <2>2 DEF Map, MapOutcome
      <4> QED  BY <1>0, <2>1, <4>1, NewMapping DEF Kinds
    <3> QED  BY <1>0, <2>1, <2>2, <3>1 DEF Wired, Places, ClientWired, Kinds, OwnLabels,
       CmdLabels, CmdMapped, DataLabels, DataMapped, AdmaLabels
  <2>3. CASE pc' = "free_cmd"
    <3>1. UNCHANGED <<keys, values, vmap>>
      BY <1>7, <2>3 DEF Map, MapOutcome
    <3> QED  BY <1>0, <2>1, <2>3, <3>1 DEF Listed, Wired, Places, ClientWired, OwnLabels,
       CmdLabels, CmdMapped, DataLabels, DataMapped, AdmaLabels
  <2> QED  BY <1>7, <2>2, <2>3 DEF Map, MapOutcome
<1>8. CASE Alloc("bounce", "data", "map_data", "xfer_done")
  <2>1. /\ pc = "bounce" /\ pc' \in {"map_data", "xfer_done"} /\ UNCHANGED <<n, req, cmd, keys, values, vmap>>
        /\ alive' = IF pc' = "xfer_done" THEN alive ELSE alive \cup {<<"data", n>>}
    BY <1>8, BufIs DEF Alloc
  <2> QED  BY <1>0, <2>1 DEF Wired, Places, Listed, ClientWired, OwnLabels, CmdLabels,
     CmdMapped, DataLabels, DataMapped, AdmaLabels
<1>9. CASE Map("map_data", "data", "copy_in", "free_data")
  <2>1. pc = "map_data" /\ UNCHANGED <<alive, n, req, cmd>> /\ vmap["data"] = Empty
    BY <1>0, <1>9 DEF Map, Places, OwnLabels, CmdLabels, CmdMapped, DataLabels, DataMapped,
       AdmaLabels
  <2>2. CASE pc' = "copy_in"
    <3>1. Listed' /\ vmap'["data"] # Empty /\ \A k \in Kinds \ {"data"} : vmap'[k] = vmap[k]
      <4>1. PICK addr \in Addrs \ Mapped :
               FreeSlots # {} /\ vmap' = [vmap EXCEPT !["data"] = addr] /\ AddToList(addr, "data")
        BY <1>9, <2>2 DEF Map, MapOutcome
      <4> QED  BY <1>0, <2>1, <4>1, NewMapping DEF Kinds
    <3> QED  BY <1>0, <2>1, <2>2, <3>1 DEF Wired, Places, ClientWired, Kinds, OwnLabels,
       CmdLabels, CmdMapped, DataLabels, DataMapped, AdmaLabels
  <2>3. CASE pc' = "free_data"
    <3>1. UNCHANGED <<keys, values, vmap>>
      BY <1>9, <2>3 DEF Map, MapOutcome
    <3> QED  BY <1>0, <2>1, <2>3, <3>1 DEF Listed, Wired, Places, ClientWired, OwnLabels,
       CmdLabels, CmdMapped, DataLabels, DataMapped, AdmaLabels
  <2> QED  BY <1>9, <2>2, <2>3 DEF Map, MapOutcome
<1>10. CASE Unmap("unmap_data", "data", "free_data")
  <2>1. pc = "unmap_data" /\ pc' = "free_data" /\ UNCHANGED <<alive, n, req, cmd>> /\ vmap["data"] # Empty
    BY <1>0, <1>10 DEF Unmap, Places, OwnLabels, CmdLabels, CmdMapped, DataLabels, DataMapped,
       AdmaLabels
  <2>2. Listed' /\ vmap'["data"] = Empty /\ \A k \in Kinds \ {"data"} : vmap'[k] = vmap[k]
    BY <1>0, <1>10, <2>1, NoMapping DEF Unmap, Kinds
  <2> QED  BY <1>0, <2>1, <2>2 DEF Wired, Places, ClientWired, Kinds, OwnLabels, CmdLabels,
     CmdMapped, DataLabels, DataMapped, AdmaLabels
<1>11. CASE Free("free_data", "data", "xfer_done")
  <2>1. /\ pc = "free_data" /\ pc' = "xfer_done" /\ UNCHANGED <<n, req, cmd, keys, values, vmap>>
        /\ alive' = alive \ {<<"data", n>>}
    BY <1>11, BufIs DEF Free
  <2> QED  BY <1>0, <2>1 DEF Wired, Places, Listed, ClientWired, OwnLabels, CmdLabels,
     CmdMapped, DataLabels, DataMapped, AdmaLabels
<1>12. CASE Unmap("unmap_cmd", "cmd", "free_cmd")
  <2>1. pc = "unmap_cmd" /\ pc' = "free_cmd" /\ UNCHANGED <<alive, n, req, cmd>> /\ vmap["cmd"] # Empty
    BY <1>0, <1>12 DEF Unmap, Places, OwnLabels, CmdLabels, CmdMapped, DataLabels, DataMapped,
       AdmaLabels
  <2>2. Listed' /\ vmap'["cmd"] = Empty /\ \A k \in Kinds \ {"cmd"} : vmap'[k] = vmap[k]
    BY <1>0, <1>12, <2>1, NoMapping DEF Unmap, Kinds
  <2> QED  BY <1>0, <2>1, <2>2 DEF Wired, Places, ClientWired, Kinds, OwnLabels, CmdLabels,
     CmdMapped, DataLabels, DataMapped, AdmaLabels
<1>13. CASE Free("free_cmd", "cmd", "ret")
  <2>1. /\ pc = "free_cmd" /\ pc' = "ret" /\ UNCHANGED <<n, req, cmd, keys, values, vmap>>
        /\ alive' = alive \ {<<"cmd", n>>}
    BY <1>13, BufIs DEF Free
  <2> QED  BY <1>0, <2>1 DEF Wired, Places, Listed, ClientWired, OwnLabels, CmdLabels,
     CmdMapped, DataLabels, DataMapped, AdmaLabels
<1>14. CASE Return
  <2>1. /\ pc = "ret" /\ pc' = (IF vmap["client"] = Empty THEN "idle" ELSE "loaded")
        /\ UNCHANGED <<alive, n, req, cmd, keys, values, vmap>>
    BY <1>14 DEF Return
  <2> QED  BY <1>0, <2>1 DEF Wired, Places, Listed, ClientWired, OwnLabels, CmdLabels,
     CmdMapped, DataLabels, DataMapped, AdmaLabels
<1> QED
  BY <1>1, <1>2, <1>3, <1>4, <1>5, <1>6, <1>7, <1>8, <1>9, <1>10, <1>11, <1>12, <1>13, <1>14
  DEF Changing

-----------------------------------------------------------------------------
(***************************************************************************)
(* The steps that leave the chip alone                                     *)
(***************************************************************************)
ChipKept ==
    UNCHANGED <<hcb, hdb, waitsData, run, raised, intr, first, good, misled, abandoned, moved,
                n, cmd, mimic_linux>>

Dma ==
    \/ SDDiskBuffer \/ Refuse
    \/ Alloc("alloc_cmd", "cmd", "map_cmd", "ret")
    \/ Map("map_cmd", "cmd", "load_cmd", "free_cmd")
    \/ Load("load_cmd", "cmd", "send", "unmap_cmd")
    \/ Alloc("bounce", "data", "map_data", "xfer_done")
    \/ Map("map_data", "data", "copy_in", "free_data")
    \/ Load("load_data", "data", "exec_data", "unmap_data")
    \/ BuildTable \/ Load("load_adma", "adma", "exec_adma", "xfer_done")
    \/ Unload("unload_data", "data", "copy_out")
    \/ Unmap("unmap_data", "data", "free_data") \/ Free("free_data", "data", "xfer_done")
    \/ Unload("unload_adma", "adma", "xfer_done")
    \/ Unload("unload_cmd", "cmd", "unmap_cmd") \/ Unmap("unmap_cmd", "cmd", "free_cmd")
    \/ Free("free_cmd", "cmd", "ret") \/ Return

\* Where these steps lead
Between  == pc \in OwnLabels /\ pc' \in OwnLabels
Prepare  == /\ pc \in Preparing
            /\ \/ pc' \in Preparing /\ failed' = failed
               \/ pc' \in Ending /\ failed' = TRUE
SetUp    == /\ pc \in Setup /\ req' = req
            /\ \/ /\ pc' \in Setup /\ failed' = failed
                  /\ pc' \in {"load_data", "exec_data"} => pc = "load_data"
               \/ pc' \in {"xfer_done", "free_data", "unmap_data"} /\ failed' = TRUE
Leave    == /\ failed' = failed
            /\ \/ pc = "unload_data" /\ pc' = "copy_out"
               \/ pc \in Copied /\ pc' \in Copied
End      == pc \in Ending /\ pc' \in Ending \cup {"idle", "loaded"} /\ failed' = failed
Move     == Between \/ Prepare \/ SetUp \/ Leave \/ End

LEMMA DmaMoves ==
    ASSUME Dma
    PROVE  ChipKept /\ Move
<1> USE DEF ChipKept, thread, chipVars, chip, history, Succeed, Fail, Goto
<1>1. CASE SDDiskBuffer
  <2>1. ChipKept /\ Between
    BY <1>1 DEF SDDiskBuffer, AllocClient, Map, MapOutcome, LoadClient, LoadOutcome,
       UnloadClient,
       Unmap, FreeClient, Between, OwnLabels
  <2> QED  BY <2>1 DEF Move
<1>2. CASE \/ Refuse \/ Alloc("alloc_cmd", "cmd", "map_cmd", "ret")
           \/ Map("map_cmd", "cmd", "load_cmd", "free_cmd")
           \/ Load("load_cmd", "cmd", "send", "unmap_cmd")
  <2>1. ChipKept /\ Prepare
    BY <1>2 DEF Refuse, Alloc, Map, MapOutcome, Load, LoadOutcome, Prepare, Preparing, Ending
  <2> QED  BY <2>1 DEF Move
<1>3. CASE \/ Alloc("bounce", "data", "map_data", "xfer_done")
           \/ Map("map_data", "data", "copy_in", "free_data")
           \/ Load("load_data", "data", "exec_data", "unmap_data")
           \/ BuildTable \/ Load("load_adma", "adma", "exec_adma", "xfer_done")
  <2>1. ChipKept /\ SetUp
    BY <1>3 DEF Alloc, Map, MapOutcome, Load, LoadOutcome, BuildTable, SetUp, Setup, request
  <2> QED  BY <2>1 DEF Move
<1>4. CASE \/ Unload("unload_data", "data", "copy_out")
           \/ Unmap("unmap_data", "data", "free_data") \/ Free("free_data", "data", "xfer_done")
           \/ Unload("unload_adma", "adma", "xfer_done")
  <2>1. ChipKept /\ Leave
    BY <1>4 DEF Unload, Unmap, Free, Leave, Copied
  <2> QED  BY <2>1 DEF Move
<1>5. CASE \/ Unload("unload_cmd", "cmd", "unmap_cmd") \/ Unmap("unmap_cmd", "cmd", "free_cmd")
           \/ Free("free_cmd", "cmd", "ret") \/ Return
  <2>1. ChipKept /\ End
    BY <1>5 DEF Unload, Unmap, Free, Return, End, Ending
  <2> QED  BY <2>1 DEF Move
<1> QED  BY <1>1, <1>2, <1>3, <1>4, <1>5 DEF Dma

LEMMA TameKept == ASSUME ChipKept, Tame' PROVE Tame
BY DEF ChipKept, Tame

\* The part of the invariant about the chip
Control == Phase /\ Chip /\ RunsKnown /\ Ended /\ Progress

LEMMA DmaControl ==
    ASSUME Types, Control, ChipKept, Move
    PROVE  Control'
<1> USE DEF ChipKept, Move, Between, Prepare, SetUp, Leave, End
<1>1. Phase'
  BY DEF Control, Phase, OwnLabels, Preparing, Setup, Working, Copied, Leaving, Ending
<1>2. Chip'
  <2> SUFFICES ASSUME Tame' PROVE Chip'
    BY DEF Chip
  <2>1. Tame
    BY TameKept
  <2>2. CASE Between \/ Prepare \/ End
    BY <2>1, <2>2 DEF Control, Chip, Rest, OwnLabels, Preparing, Setup, Working, Copied,
       Leaving, Ending
  <2>3. CASE SetUp
    BY <2>1, <2>3 DEF Control, Chip, Rest, OwnLabels, Preparing, Setup, Working, Copied,
       Leaving, Ending
  <2>4. CASE Leave
    BY <2>1, <2>4 DEF Control, Chip, Rest, OwnLabels, Preparing, Setup, Working, Copied,
       Leaving, Ending
  <2> QED  BY <2>2, <2>3, <2>4
<1>3. RunsKnown'
  BY DEF Control, RunsKnown
<1>4. Ended'
  <2> SUFFICES ASSUME Tame' PROVE Ended'
    BY DEF Ended
  <2>1. Tame
    BY TameKept
  <2>2. pc' \in Working => pc \in Setup /\ pc' \in Setup
    BY DEF OwnLabels, Preparing, Setup, Working, Copied, Leaving, Ending
  <2>3. pc' \in Setup => pc \in Setup
    BY DEF OwnLabels, Preparing, Setup, Working, Copied, Leaving, Ending
  <2>4. pc' \notin {"wait_adma", "wait_data"}
    BY DEF OwnLabels, Preparing, Setup, Working, Copied, Leaving, Ending
  <2> QED  BY <2>1, <2>2, <2>3, <2>4 DEF Control, Ended
<1>5. Progress'
  BY TameKept DEF Control, Progress, OwnLabels, Preparing, Setup, Working, Copied, Leaving,
     Ending
<1> QED  BY <1>1, <1>2, <1>3, <1>4, <1>5 DEF Control

-----------------------------------------------------------------------------
(***************************************************************************)
(* The steps of the chip, and those that start it, stop it and wait for it *)
(***************************************************************************)

\* Between commands the chip is at rest, so the next one finds it at rest.
LEMMA SubmitControl ==
    ASSUME Types, Control, Submit
    PROVE  Control'
<1>1. /\ pc \in OwnLabels /\ pc' = "alloc_cmd" /\ failed' = FALSE /\ first' = run
      /\ UNCHANGED <<req, mimic_linux, hcb, hdb, waitsData, run, raised, intr, good, misled, abandoned>>
  BY DEF Submit, OwnLabels, request, chip, Goto
<1>2. Phase'
  BY <1>1 DEF Control, Types, Phase, OwnLabels, Preparing, Setup, Working, Copied, Leaving,
     Ending
<1>3. Chip'
  BY <1>1 DEF Control, Chip, Phase, Tame, Rest, OwnLabels, Preparing, Setup, Working, Copied,
     Leaving, Ending
<1>4. RunsKnown'
  BY <1>1 DEF Control, Types, RunsKnown
<1>5. Ended'
  BY <1>1 DEF Control, Types, Ended, RunsKnown, Phase, Tame, OwnLabels, Preparing, Setup,
     Working, Copied, Leaving, Ending
<1>6. Progress'
  BY <1>1 DEF Control, Types, Progress, Phase, Tame, OwnLabels, Preparing, Setup, Working,
     Copied, Leaving, Ending
<1> QED  BY <1>2, <1>3, <1>4, <1>5, <1>6 DEF Control

LEMMA SendControl ==
    ASSUME Types, Control, CmdHeld, HostcmdSend
    PROVE  Control'
<1>1. /\ pc = "send" /\ pc' = "wait_cmd" /\ hcb' = <<"cmd", n>> /\ waitsData' = FALSE /\ run' = run + 1
      /\ UNCHANGED <<failed, n, cmd, req, mimic_linux, hdb, raised, intr, first, good, misled,
                     abandoned, moved>>
  BY DEF HostcmdSend, CmdHeld, Start, thread, request, history, Succeed, Goto
<1>2. Phase'
  BY <1>1 DEF Control, Types, Phase, OwnLabels, Preparing, Setup, Working, Copied, Leaving,
     Ending
<1>3. Chip'
  BY <1>1 DEF Control, Chip, Phase, Tame, Rest, OwnLabels, Preparing, Setup, Working, Copied,
     Leaving, Ending
<1>4. RunsKnown'
  BY <1>1 DEF Control, Types, RunsKnown
<1>5. Ended'
  BY <1>1 DEF Control, Types, Ended, RunsKnown, Phase, Tame, OwnLabels, Preparing, Setup,
     Working, Copied, Leaving, Ending
<1>6. Progress'
  BY <1>1 DEF Control, Types, Progress, Phase, Tame, OwnLabels, Preparing, Setup, Working,
     Copied, Leaving, Ending
<1> QED  BY <1>2, <1>3, <1>4, <1>5, <1>6 DEF Control

LEMMA CopyInControl ==
    ASSUME Types, Control, CopyIn
    PROVE  Control'
<1>1. /\ pc = "copy_in" /\ pc' = "load_data" /\ moved' = (IF cmd.read THEN moved ELSE "staged")
      /\ UNCHANGED <<failed, n, cmd, req, mimic_linux, hcb, hdb, waitsData, run, raised, intr,
                     first, good, misled, abandoned>>
  BY DEF CopyIn, thread, request, chipVars, chip, history, Succeed, Goto
<1>2. Phase'
  BY <1>1 DEF Control, Types, Phase, OwnLabels, Preparing, Setup, Working, Copied, Leaving,
     Ending
<1>3. Chip'
  BY <1>1 DEF Control, Chip, Phase, Tame, Rest, OwnLabels, Preparing, Setup, Working, Copied,
     Leaving, Ending
<1>4. RunsKnown'
  BY <1>1 DEF Control, Types, RunsKnown
<1>5. Ended'
  BY <1>1 DEF Control, Types, Ended, RunsKnown, Phase, Tame, OwnLabels, Preparing, Setup,
     Working, Copied, Leaving, Ending
<1>6. Progress'
  BY <1>1 DEF Control, Types, Progress, Phase, Tame, OwnLabels, Preparing, Setup, Working,
     Copied, Leaving, Ending
<1> QED  BY <1>2, <1>3, <1>4, <1>5, <1>6 DEF Control

LEMMA CopyOutControl ==
    ASSUME Types, Control, CopyOut
    PROVE  Control'
<1>1. /\ pc = "copy_out" /\ pc' = "unmap_data"
      /\ moved' = IF ~failed /\ cmd.read /\ moved = "buffered" THEN "done" ELSE moved
      /\ UNCHANGED <<failed, n, cmd, req, mimic_linux, hcb, hdb, waitsData, run, raised, intr,
                     first, good, misled, abandoned>>
  BY DEF CopyOut, thread, request, chipVars, chip, history, Succeed, Goto
<1>2. Phase'
  BY <1>1 DEF Control, Types, Phase, OwnLabels, Preparing, Setup, Working, Copied, Leaving,
     Ending
<1>3. Chip'
  BY <1>1 DEF Control, Chip, Phase, Tame, Rest, OwnLabels, Preparing, Setup, Working, Copied,
     Leaving, Ending
<1>4. RunsKnown'
  BY <1>1 DEF Control, Types, RunsKnown
<1>5. Ended'
  BY <1>1 DEF Control, Types, Ended, RunsKnown, Phase, Tame, OwnLabels, Preparing, Setup,
     Working, Copied, Leaving, Ending
<1>6. Progress'
  BY <1>1 DEF Control, Types, Progress, Phase, Tame, OwnLabels, Preparing, Setup, Working,
     Copied, Leaving, Ending
<1> QED  BY <1>2, <1>3, <1>4, <1>5, <1>6 DEF Control

LEMMA TriggerDataControl ==
    ASSUME Types, Control, Trigger("exec_data", {Buf("data")}, "wait_data")
    PROVE  Control'
<1>1. /\ pc = "exec_data" /\ pc' = "wait_data" /\ hdb' = {<<"data", n>>}
      /\ UNCHANGED <<failed, n, cmd, req, mimic_linux, hcb, waitsData, run, raised, intr,
                     first, good, misled, abandoned, moved>>
  BY BufIs DEF Trigger, thread, request, history, Succeed, Goto
<1>2. Phase'
  BY <1>1 DEF Control, Types, Phase, OwnLabels, Preparing, Setup, Working, Copied, Leaving,
     Ending
<1>3. Chip'
  BY <1>1 DEF Control, Chip, Phase, Tame, Rest, OwnLabels, Preparing, Setup, Working, Copied,
     Leaving, Ending
<1>4. RunsKnown'
  BY <1>1 DEF Control, Types, RunsKnown
<1>5. Ended'
  BY <1>1 DEF Control, Types, Ended, RunsKnown, Phase, Tame, OwnLabels, Preparing, Setup,
     Working, Copied, Leaving, Ending
<1>6. Progress'
  BY <1>1 DEF Control, Types, Progress, Phase, Tame, OwnLabels, Preparing, Setup, Working,
     Copied, Leaving, Ending
<1> QED  BY <1>2, <1>3, <1>4, <1>5, <1>6 DEF Control

LEMMA TriggerAdmaControl ==
    ASSUME Types, Control, Trigger("exec_adma", {Buf("adma"), Buf("client")}, "wait_adma")
    PROVE  Control'
<1>1. /\ pc = "exec_adma" /\ pc' = "wait_adma" /\ hdb' = {<<"adma", 0>>, <<"client", req>>}
      /\ UNCHANGED <<failed, n, cmd, req, mimic_linux, hcb, waitsData, run, raised, intr,
                     first, good, misled, abandoned, moved>>
  BY BufIs DEF Trigger, thread, request, history, Succeed, Goto
<1>2. Phase'
  BY <1>1 DEF Control, Types, Phase, OwnLabels, Preparing, Setup, Working, Copied, Leaving,
     Ending
<1>3. Chip'
  BY <1>1 DEF Control, Chip, Phase, Tame, Rest, OwnLabels, Preparing, Setup, Working, Copied,
     Leaving, Ending
<1>4. RunsKnown'
  BY <1>1 DEF Control, Types, RunsKnown
<1>5. Ended'
  BY <1>1 DEF Control, Types, Ended, RunsKnown, Phase, Tame, OwnLabels, Preparing, Setup,
     Working, Copied, Leaving, Ending
<1>6. Progress'
  BY <1>1 DEF Control, Types, Progress, Phase, Tame, OwnLabels, Preparing, Setup, Working,
     Copied, Leaving, Ending
<1> QED  BY <1>2, <1>3, <1>4, <1>5, <1>6 DEF Control

LEMMA XferDoneControl ==
    ASSUME Types, Control, XferDone
    PROVE  Control'
<1>1. /\ pc = "xfer_done" /\ pc' = "unload_cmd"
      /\ \/ failed /\ mimic_linux /\ hcb' = NoBuf /\ hdb' = {} /\ abandoned' = abandoned
         \/ /\ ~(failed /\ mimic_linux) /\ hcb' = hcb /\ hdb' = hdb
            /\ abandoned' = (abandoned \/ (failed /\ {hcb} \cup hdb # {NoBuf}))
      /\ UNCHANGED <<failed, n, cmd, req, mimic_linux, waitsData, run, raised, intr,
                     first, good, misled, moved>>
  BY DEF XferDone, SoftReset, LeaveAtWork, thread, request, chip, Succeed, Goto
<1>2. Phase'
  BY <1>1 DEF Control, Types, Phase, OwnLabels, Preparing, Setup, Working, Copied, Leaving,
     Ending
<1>3. Chip'
  BY <1>1 DEF Control, Chip, Phase, Tame, Rest, OwnLabels, Preparing, Setup, Working, Copied,
     Leaving, Ending
<1>4. RunsKnown'
  BY <1>1 DEF Control, Types, RunsKnown
<1>5. Ended'
  BY <1>1 DEF Control, Types, Ended, RunsKnown, Phase, Tame, OwnLabels, Preparing, Setup,
     Working, Copied, Leaving, Ending
<1>6. Progress'
  BY <1>1 DEF Control, Types, Progress, Phase, Tame, OwnLabels, Preparing, Setup, Working,
     Copied, Leaving, Ending
<1> QED  BY <1>2, <1>3, <1>4, <1>5, <1>6 DEF Control

LEMMA XferSendControl ==
    ASSUME Types, Control, CmdHeld, XferSend
    PROVE  Control'
<1>1. /\ pc = "xfer"
      /\ \/ /\ cmd.kind = "none" /\ pc' = "unload_cmd" /\ UNCHANGED <<hcb, waitsData, run>>
         \/ /\ cmd.kind \in {"bounce", "adma"} /\ pc' = cmd.kind
            /\ hcb' = <<"cmd", n>> /\ waitsData' = TRUE /\ run' = run + 1
      /\ UNCHANGED <<failed, n, cmd, req, mimic_linux, hdb, raised, intr, first, good, misled,
                     abandoned, moved>>
  BY DEF XferSend, CmdHeld, Types, Cmds, Start, thread, request, history, Succeed, Goto
<1>2. Phase'
  BY <1>1 DEF Control, Types, Phase, OwnLabels, Preparing, Setup, Working, Copied, Leaving,
     Ending
<1>3. Chip'
  BY <1>1 DEF Control, Chip, Phase, Tame, Rest, OwnLabels, Preparing, Setup, Working, Copied,
     Leaving, Ending
<1>4. RunsKnown'
  BY <1>1 DEF Control, Types, RunsKnown
<1>5. Ended'
  BY <1>1 DEF Control, Types, Ended, RunsKnown, Phase, Tame, OwnLabels, Preparing, Setup,
     Working, Copied, Leaving, Ending
<1>6. Progress'
  BY <1>1 DEF Control, Types, Progress, Phase, Tame, OwnLabels, Preparing, Setup, Working,
     Copied, Leaving, Ending
<1> QED  BY <1>2, <1>3, <1>4, <1>5, <1>6 DEF Control

LEMMA TimeoutCmdControl ==
    ASSUME Types, Control, WaitTimeout("wait_cmd", "unload_cmd")
    PROVE  Control'
<1>1. /\ pc = "wait_cmd" /\ pc' = "unload_cmd" /\ failed' = TRUE /\ hcb' = NoBuf /\ hdb' = {}
      /\ UNCHANGED <<n, cmd, req, mimic_linux, waitsData, run, raised, intr, first, good, misled,
                     abandoned, moved>>
  BY DEF WaitTimeout, SoftReset, thread, request, history, Fail, Goto
<1>2. Phase'
  BY <1>1 DEF Control, Types, Phase, OwnLabels, Preparing, Setup, Working, Copied, Leaving,
     Ending
<1>3. Chip'
  BY <1>1 DEF Control, Chip, Phase, Tame, Rest, OwnLabels, Preparing, Setup, Working, Copied,
     Leaving, Ending
<1>4. RunsKnown'
  BY <1>1 DEF Control, Types, RunsKnown
<1>5. Ended'
  BY <1>1 DEF Control, Types, Ended, RunsKnown, Phase, Tame, OwnLabels, Preparing, Setup,
     Working, Copied, Leaving, Ending
<1>6. Progress'
  BY <1>1 DEF Control, Types, Progress, Phase, Tame, OwnLabels, Preparing, Setup, Working,
     Copied, Leaving, Ending
<1> QED  BY <1>2, <1>3, <1>4, <1>5, <1>6 DEF Control

\* What a wait takes is a completion of the current run, or misled is set.
LEMMA TakeCmdControl ==
    ASSUME Types, Control, WaitTake("wait_cmd", "xfer", "unload_cmd")
    PROVE  Control'
<1>1. /\ pc = "wait_cmd" /\ intr # {} /\ intr' = {}
      /\ misled' = (misled \/ \E c \in intr : c.run # run)
      /\ \/ pc' = "xfer" /\ failed' = failed /\ \A c \in intr : c.ok
         \/ pc' = "unload_cmd" /\ failed' = TRUE
      /\ abandoned' = (abandoned \/ (failed' /\ {hcb} \cup hdb # {NoBuf}))
      /\ UNCHANGED <<n, cmd, req, mimic_linux, hcb, hdb, waitsData, run, raised, first, good,
                     moved>>
  BY DEF WaitTake, LeaveAtWork, thread, request, chip, Succeed, Fail, Goto
<1>2. ~failed /\ run = first + 1 /\ (waitsData \/ pc = "wait_cmd")
  BY <1>1 DEF Control, Phase, Preparing, Setup, Working, Copied, Leaving, Ending
<1>3. ASSUME Tame'
      PROVE  /\ Tame /\ hcb = NoBuf /\ hdb = {}
             /\ ~failed' => run \in good /\ hdb = {}
  <2>1. Tame /\ ~misled'
    BY <1>1, <1>3 DEF Tame
  <2>2. PICK c \in intr : c.run = run /\ (~failed' => c.ok)
    BY <1>1, <2>1
  <2>3. hdb = {} /\ ~waitsData
    BY <1>1, <2>1 DEF Control, Chip, Phase
  <2>4. hcb = NoBuf
    BY <2>1, <2>2 DEF Control, Ended
  <2>5. ASSUME c.ok PROVE run \in good /\ hdb = {}
    BY <1>1, <2>1, <2>2, <2>5 DEF Control, Ended, Working
  <2>6. CASE failed'
    <3>1. ASSUME ~abandoned' PROVE {hcb} \cup hdb = {NoBuf}
      BY <1>1, <2>6, <3>1
    <3>2. hdb = {}
      BY <2>3, <2>4, <3>1 DEF NoBuf
    <3> QED  BY <2>1, <2>4, <2>6, <3>2
  <2>7. CASE ~failed'
    BY <2>1, <2>2, <2>4, <2>5, <2>7
  <2> QED  BY <2>6, <2>7
<1>4. Phase'
  BY <1>1, <1>2 DEF Control, Types, Phase, OwnLabels, Preparing, Setup, Working, Copied,
     Leaving, Ending
<1>5. Chip'
  BY <1>1, <1>3 DEF Chip, Rest, OwnLabels, Preparing, Setup, Working, Copied, Leaving, Ending
<1>6. RunsKnown'
  BY <1>1 DEF Control, RunsKnown
<1>7. Ended'
  <2>1. \A c \in raised' \cup intr' : c \in raised \cup intr
    BY <1>1
  <2>2. pc' \notin Working /\ pc' \notin Setup /\ pc' # "wait_adma" /\ pc' # "wait_data"
    BY <1>1 DEF Working, Setup
  <2> QED  BY <1>1, <1>3, <2>1, <2>2 DEF Control, Ended
<1>8. Progress'
  <2>1. TRUE
    BY <1>1, <1>2, <1>3 DEF Control, Progress, Working
  <2> QED  BY <1>1, <1>2, <1>3, <2>1 DEF Progress, OwnLabels, Preparing, Setup, Working,
     Copied, Leaving, Ending
<1> QED  BY <1>4, <1>5, <1>6, <1>7, <1>8 DEF Control

LEMMA TimeoutDataControl ==
    ASSUME Types, Control, WaitTimeout("wait_data", "unload_data")
    PROVE  Control'
<1>1. /\ pc = "wait_data" /\ pc' = "unload_data" /\ failed' = TRUE /\ hcb' = NoBuf /\ hdb' = {}
      /\ UNCHANGED <<n, cmd, req, mimic_linux, waitsData, run, raised, intr, first, good, misled,
                     abandoned, moved>>
  BY DEF WaitTimeout, SoftReset, thread, request, history, Fail, Goto
<1>2. Phase'
  BY <1>1 DEF Control, Types, Phase, OwnLabels, Preparing, Setup, Working, Copied, Leaving,
     Ending
<1>3. Chip'
  BY <1>1 DEF Control, Chip, Phase, Tame, Rest, OwnLabels, Preparing, Setup, Working, Copied,
     Leaving, Ending
<1>4. RunsKnown'
  BY <1>1 DEF Control, Types, RunsKnown
<1>5. Ended'
  BY <1>1 DEF Control, Types, Ended, RunsKnown, Phase, Tame, OwnLabels, Preparing, Setup,
     Working, Copied, Leaving, Ending
<1>6. Progress'
  BY <1>1 DEF Control, Types, Progress, Phase, Tame, OwnLabels, Preparing, Setup, Working,
     Copied, Leaving, Ending
<1> QED  BY <1>2, <1>3, <1>4, <1>5, <1>6 DEF Control

LEMMA TakeDataControl ==
    ASSUME Types, Control, WaitTake("wait_data", "unload_data", "unload_data")
    PROVE  Control'
<1>1. /\ pc = "wait_data" /\ intr # {} /\ intr' = {}
      /\ misled' = (misled \/ \E c \in intr : c.run # run)
      /\ \/ pc' = "unload_data" /\ failed' = failed /\ \A c \in intr : c.ok
         \/ pc' = "unload_data" /\ failed' = TRUE
      /\ abandoned' = (abandoned \/ (failed' /\ {hcb} \cup hdb # {NoBuf}))
      /\ UNCHANGED <<n, cmd, req, mimic_linux, hcb, hdb, waitsData, run, raised, first, good,
                     moved>>
  BY DEF WaitTake, LeaveAtWork, thread, request, chip, Succeed, Fail, Goto
<1>2. ~failed /\ run = first + 2 /\ (waitsData \/ pc = "wait_cmd")
  BY <1>1 DEF Control, Phase, Preparing, Setup, Working, Copied, Leaving, Ending
<1>3. ASSUME Tame'
      PROVE  /\ Tame /\ hcb = NoBuf /\ (~abandoned' => hdb = {})
             /\ ~failed' => run \in good /\ hdb = {} /\ moved = (IF cmd.read THEN "buffered" ELSE "done")
  <2>1. Tame /\ ~misled'
    BY <1>1, <1>3 DEF Tame
  <2>2. PICK c \in intr : c.run = run /\ (~failed' => c.ok)
    BY <1>1, <2>1
  <2>3. hdb \in {{}, {<<"data", n>>}}
    BY <1>1, <2>1 DEF Control, Chip, Phase
  <2>4. hcb = NoBuf
    BY <2>1, <2>2 DEF Control, Ended
  <2>5. ASSUME c.ok PROVE run \in good /\ hdb = {} /\ moved = (IF cmd.read THEN "buffered" ELSE "done")
    BY <1>1, <2>1, <2>2, <2>5 DEF Control, Ended, Working
  <2>6. CASE failed'
    <3>1. ASSUME ~abandoned' PROVE {hcb} \cup hdb = {NoBuf}
      BY <1>1, <2>6, <3>1
    <3>2. (~abandoned' => hdb = {})
      BY <2>3, <2>4, <3>1 DEF NoBuf
    <3> QED  BY <2>1, <2>4, <2>6, <3>2
  <2>7. CASE ~failed'
    BY <2>1, <2>2, <2>4, <2>5, <2>7
  <2> QED  BY <2>6, <2>7
<1>4. Phase'
  BY <1>1, <1>2 DEF Control, Types, Phase, OwnLabels, Preparing, Setup, Working, Copied,
     Leaving, Ending
<1>5. Chip'
  BY <1>1, <1>3 DEF Chip, Rest, OwnLabels, Preparing, Setup, Working, Copied, Leaving, Ending
<1>6. RunsKnown'
  BY <1>1 DEF Control, RunsKnown
<1>7. Ended'
  <2>1. \A c \in raised' \cup intr' : c \in raised \cup intr
    BY <1>1
  <2>2. pc' \notin Working /\ pc' \notin Setup /\ pc' # "wait_adma" /\ pc' # "wait_data"
    BY <1>1 DEF Working, Setup
  <2> QED  BY <1>1, <1>3, <2>1, <2>2 DEF Control, Ended
<1>8. Progress'
  <2>1. Tame' => first + 1 \in good
    BY <1>1, <1>2, <1>3 DEF Control, Progress, Working
  <2> QED  BY <1>1, <1>2, <1>3, <2>1 DEF Progress, OwnLabels, Preparing, Setup, Working,
     Copied, Leaving, Ending
<1> QED  BY <1>4, <1>5, <1>6, <1>7, <1>8 DEF Control

LEMMA TimeoutAdmaControl ==
    ASSUME Types, Control, WaitTimeout("wait_adma", "unload_adma")
    PROVE  Control'
<1>1. /\ pc = "wait_adma" /\ pc' = "unload_adma" /\ failed' = TRUE /\ hcb' = NoBuf /\ hdb' = {}
      /\ UNCHANGED <<n, cmd, req, mimic_linux, waitsData, run, raised, intr, first, good, misled,
                     abandoned, moved>>
  BY DEF WaitTimeout, SoftReset, thread, request, history, Fail, Goto
<1>2. Phase'
  BY <1>1 DEF Control, Types, Phase, OwnLabels, Preparing, Setup, Working, Copied, Leaving,
     Ending
<1>3. Chip'
  BY <1>1 DEF Control, Chip, Phase, Tame, Rest, OwnLabels, Preparing, Setup, Working, Copied,
     Leaving, Ending
<1>4. RunsKnown'
  BY <1>1 DEF Control, Types, RunsKnown
<1>5. Ended'
  BY <1>1 DEF Control, Types, Ended, RunsKnown, Phase, Tame, OwnLabels, Preparing, Setup,
     Working, Copied, Leaving, Ending
<1>6. Progress'
  BY <1>1 DEF Control, Types, Progress, Phase, Tame, OwnLabels, Preparing, Setup, Working,
     Copied, Leaving, Ending
<1> QED  BY <1>2, <1>3, <1>4, <1>5, <1>6 DEF Control

LEMMA TakeAdmaControl ==
    ASSUME Types, Control, WaitTake("wait_adma", "unload_adma", "unload_adma")
    PROVE  Control'
<1>1. /\ pc = "wait_adma" /\ intr # {} /\ intr' = {}
      /\ misled' = (misled \/ \E c \in intr : c.run # run)
      /\ \/ pc' = "unload_adma" /\ failed' = failed /\ \A c \in intr : c.ok
         \/ pc' = "unload_adma" /\ failed' = TRUE
      /\ abandoned' = (abandoned \/ (failed' /\ {hcb} \cup hdb # {NoBuf}))
      /\ UNCHANGED <<n, cmd, req, mimic_linux, hcb, hdb, waitsData, run, raised, first, good,
                     moved>>
  BY DEF WaitTake, LeaveAtWork, thread, request, chip, Succeed, Fail, Goto
<1>2. ~failed /\ run = first + 2 /\ (waitsData \/ pc = "wait_cmd")
  BY <1>1 DEF Control, Phase, Preparing, Setup, Working, Copied, Leaving, Ending
<1>3. ASSUME Tame'
      PROVE  /\ Tame /\ hcb = NoBuf /\ (~abandoned' => hdb = {})
             /\ ~failed' => run \in good /\ hdb = {} /\ moved = "done"
  <2>1. Tame /\ ~misled'
    BY <1>1, <1>3 DEF Tame
  <2>2. PICK c \in intr : c.run = run /\ (~failed' => c.ok)
    BY <1>1, <2>1
  <2>3. hdb \in {{}, {<<"adma", 0>>, <<"client", req>>}}
    BY <1>1, <2>1 DEF Control, Chip, Phase
  <2>4. hcb = NoBuf
    BY <2>1, <2>2 DEF Control, Ended
  <2>5. ASSUME c.ok PROVE run \in good /\ hdb = {} /\ moved = "done"
    BY <1>1, <2>1, <2>2, <2>5 DEF Control, Ended, Working
  <2>6. CASE failed'
    <3>1. ASSUME ~abandoned' PROVE {hcb} \cup hdb = {NoBuf}
      BY <1>1, <2>6, <3>1
    <3>2. (~abandoned' => hdb = {})
      BY <2>3, <2>4, <3>1 DEF NoBuf
    <3> QED  BY <2>1, <2>4, <2>6, <3>2
  <2>7. CASE ~failed'
    BY <2>1, <2>2, <2>4, <2>5, <2>7
  <2> QED  BY <2>6, <2>7
<1>4. Phase'
  BY <1>1, <1>2 DEF Control, Types, Phase, OwnLabels, Preparing, Setup, Working, Copied,
     Leaving, Ending
<1>5. Chip'
  BY <1>1, <1>3 DEF Chip, Rest, OwnLabels, Preparing, Setup, Working, Copied, Leaving, Ending
<1>6. RunsKnown'
  BY <1>1 DEF Control, RunsKnown
<1>7. Ended'
  <2>1. \A c \in raised' \cup intr' : c \in raised \cup intr
    BY <1>1
  <2>2. pc' \notin Working /\ pc' \notin Setup /\ pc' # "wait_adma" /\ pc' # "wait_data"
    BY <1>1 DEF Working, Setup
  <2> QED  BY <1>1, <1>3, <2>1, <2>2 DEF Control, Ended
<1>8. Progress'
  <2>1. Tame' => first + 1 \in good
    BY <1>1, <1>2, <1>3 DEF Control, Progress, Working
  <2> QED  BY <1>1, <1>2, <1>3, <2>1 DEF Progress, OwnLabels, Preparing, Setup, Working,
     Copied, Leaving, Ending
<1> QED  BY <1>4, <1>5, <1>6, <1>7, <1>8 DEF Control

LEMMA InterruptControl ==
    ASSUME Types, Control, Interrupt
    PROVE  Control'
<1>1. /\ intr' = intr \cup raised /\ raised' = {}
      /\ UNCHANGED <<pc, failed, n, cmd, req, mimic_linux, hcb, hdb, waitsData, run, first, good,
                     misled, abandoned, moved>>
  BY DEF Interrupt, thread, request, chip, history
<1>2. Phase'
  BY <1>1 DEF Control, Types, Phase, OwnLabels, Preparing, Setup, Working, Copied, Leaving,
     Ending
<1>3. Chip'
  BY <1>1 DEF Control, Chip, Phase, Tame, Rest, OwnLabels, Preparing, Setup, Working, Copied,
     Leaving, Ending
<1>4. RunsKnown'
  BY <1>1 DEF Control, Types, RunsKnown
<1>5. Ended'
  BY <1>1 DEF Control, Types, Ended, RunsKnown, Phase, Tame, OwnLabels, Preparing, Setup,
     Working, Copied, Leaving, Ending
<1>6. Progress'
  BY <1>1 DEF Control, Types, Progress, Phase, Tame, OwnLabels, Preparing, Setup, Working,
     Copied, Leaving, Ending
<1> QED  BY <1>2, <1>3, <1>4, <1>5, <1>6 DEF Control

LEMMA StutterControl ==
    ASSUME Types, Control, UNCHANGED vars
    PROVE  Control'
<1>1. UNCHANGED <<pc, failed, n, cmd, req, mimic_linux, hcb, hdb, waitsData, run, raised, intr,
                 first, good, misled, abandoned, moved>>
  BY DEF vars, thread, request, chipVars, chip, history
<1>2. Phase'
  BY <1>1 DEF Control, Types, Phase, OwnLabels, Preparing, Setup, Working, Copied, Leaving,
     Ending
<1>3. Chip'
  BY <1>1 DEF Control, Chip, Phase, Tame, Rest, OwnLabels, Preparing, Setup, Working, Copied,
     Leaving, Ending
<1>4. RunsKnown'
  BY <1>1 DEF Control, Types, RunsKnown
<1>5. Ended'
  BY <1>1 DEF Control, Types, Ended, RunsKnown, Phase, Tame, OwnLabels, Preparing, Setup,
     Working, Copied, Leaving, Ending
<1>6. Progress'
  BY <1>1 DEF Control, Types, Progress, Phase, Tame, OwnLabels, Preparing, Setup, Working,
     Copied, Leaving, Ending
<1> QED  BY <1>2, <1>3, <1>4, <1>5, <1>6 DEF Control

\* The chip ends the commands that it was given: only where somebody waits for it,
\* or has failed and leaves.
LEMMA EndsControl ==
    ASSUME Types, Control, NEW ok \in BOOLEAN, ChipEnds(ok)
    PROVE  Control'
<1>1. /\ hcb # NoBuf /\ (ok => ~waitsData \/ hdb # {}) /\ hcb' = NoBuf
      /\ hdb' = (IF waitsData THEN {} ELSE hdb)
      /\ raised' = raised \cup {[ok |-> ok, run |-> run]}
      /\ good' = (IF ok THEN good \cup {run} ELSE good)
      /\ moved' = (IF ok /\ waitsData THEN Moved ELSE moved)
      /\ UNCHANGED <<pc, failed, n, cmd, req, mimic_linux, waitsData, run, intr, first,
                     misled, abandoned>>
  BY DEF ChipEnds, thread, request
<1>2. Tame' = Tame
  BY <1>1 DEF Tame
<1>3. ASSUME Tame
      PROVE  /\ pc \in Working \cup Leaving /\ (pc \in Leaving => failed)
             /\ ~waitsData => pc = "wait_cmd"
             /\ pc \in Setup => ~ok
             /\ pc \in Setup \cup {"wait_cmd"} => hdb = {} /\ hdb' = {}
             /\ \A c \in raised \cup intr : c.run # run
  <2>1. pc \in Working \cup Leaving /\ (pc \in Leaving => failed)
    BY <1>1, <1>3 DEF Control, Chip, Rest
  <2>2. ~waitsData => pc = "wait_cmd"
    BY <2>1 DEF Control, Phase
  <2>3. pc \in Setup \cup {"wait_cmd"} => hdb = {} /\ hdb' = {}
    BY <1>1, <1>3 DEF Control, Chip
  <2>4. pc \in Setup => ~ok
    BY <1>1, <2>2, <2>3 DEF Setup
  <2>5. \A c \in raised \cup intr : c.run # run
    BY <1>1, <1>3 DEF Control, Ended
  <2> QED  BY <2>1, <2>2, <2>3, <2>4, <2>5
<1>4. Phase'
  BY <1>1 DEF Control, Phase
<1>5. Chip'
  <2> SUFFICES ASSUME Tame PROVE Chip'
    BY <1>2 DEF Chip
  <2>1. hdb' \in {{}, hdb}
    BY <1>1
  <2> QED
    BY <1>1, <1>2, <1>3, <2>1 DEF Control, Chip, Working, Leaving, Setup, Copied
<1>6. RunsKnown'
  BY <1>1 DEF Control, RunsKnown, Types
<1>7. ASSUME Tame, ok, pc = "wait_data"
      PROVE  moved' = IF cmd.read THEN "buffered" ELSE "done"
  <2>1. waitsData /\ hdb = {<<"data", n>>}
    BY <1>1, <1>3, <1>7 DEF Control, Chip
  <2>2. Buf("client") \notin hdb /\ Buf("data") \in hdb
    BY <2>1, BufIs
  <2>3. moved' = IF cmd.read THEN "buffered" ELSE IF moved = "staged" THEN "done" ELSE moved
    BY <1>1, <1>7, <2>1, <2>2 DEF Moved
  <2>4. ~cmd.read => moved \in {"staged", "done"}
    BY <1>7 DEF Control, Progress
  <2> QED  BY <2>3, <2>4
<1>8. ASSUME Tame, ok, pc = "wait_adma" PROVE moved' = "done"
  <2>1. waitsData /\ hdb = {<<"adma", 0>>, <<"client", req>>}
    BY <1>1, <1>3, <1>8 DEF Control, Chip
  <2>2. Buf("client") \in hdb
    BY <2>1, BufIs
  <2> QED  BY <1>1, <1>8, <2>1, <2>2 DEF Moved
<1>9. Ended'
  <2> SUFFICES ASSUME Tame, NEW c \in raised' \cup intr', c.run = run
               PROVE  /\ ~waitsData => hdb' = {}
                      /\ c.ok => pc \notin Setup
                      /\ c.ok /\ pc \in Working => run \in good' /\ hdb' = {}
                      /\ c.ok /\ pc = "wait_adma" => moved' = "done"
                      /\ c.ok /\ pc = "wait_data" =>
                            moved' = IF cmd.read THEN "buffered" ELSE "done"
    BY <1>1, <1>2 DEF Ended
  <2>1. c = [ok |-> ok, run |-> run]
    BY <1>1, <1>3
  <2>2. c.ok = ok
    BY <2>1
  <2> QED  BY <1>1, <1>3, <1>7, <1>8, <2>2
<1>10. Progress'
  <2>1. ok /\ waitsData /\ Tame => pc \in {"wait_data", "wait_adma"} \cup Leaving
    BY <1>3, <1>1 DEF Working
  <2>2. Tame /\ pc \in Leaving \cup {"xfer"} \cup Ending => failed /\ pc \in Leaving
    BY <1>3 DEF Working, Leaving, Copied, Ending, Setup
  <2>3. Tame /\ pc \in {"load_data", "exec_data"} => moved' = moved
    BY <1>1, <1>3 DEF Setup
  <2>4. Tame /\ pc = "wait_data" /\ ~cmd.read => moved' \in {moved, "done"}
    BY <1>1, <1>7
  <2>5. \A x : x \in good => x \in good'
    BY <1>1
  <2> QED
    BY <1>1, <1>2, <2>2, <2>3, <2>4, <2>5 DEF Control, Progress, Setup, Working, Copied,
       Leaving, Ending
<1> QED  BY <1>4, <1>5, <1>6, <1>9, <1>10 DEF Control

LEMMA StepControl ==
    ASSUME Types, CmdHeld, Control, [Next]_vars
    PROVE  Control'
<1>1. \/ Dma \/ Submit \/ HostcmdSend \/ XferSend \/ CopyIn \/ CopyOut
      \/ Trigger("exec_data", {Buf("data")}, "wait_data")
      \/ Trigger("exec_adma", {Buf("adma"), Buf("client")}, "wait_adma")
      \/ Wait("wait_cmd", "xfer", "unload_cmd")
      \/ Wait("wait_data", "unload_data", "unload_data")
      \/ Wait("wait_adma", "unload_adma", "unload_adma")
      \/ XferDone \/ ChipEnds(TRUE) \/ ChipEnds(FALSE) \/ Interrupt \/ UNCHANGED vars
  BY DEF Next, ExecCommand, XferBounce, XferAdma, Dma
<1>2. TRUE \in BOOLEAN /\ FALSE \in BOOLEAN
  OBVIOUS
<1> QED
  BY <1>1, <1>2, DmaMoves, DmaControl, SubmitControl, SendControl, XferSendControl,
     CopyInControl,
     CopyOutControl, TriggerDataControl, TriggerAdmaControl, TakeCmdControl, TakeDataControl,
     TakeAdmaControl, TimeoutCmdControl, TimeoutDataControl, TimeoutAdmaControl,
     XferDoneControl,
     EndsControl, InterruptControl, StutterControl
  DEF Wait

LEMMA StepCmdHeld ==
    ASSUME Types, Memory, CmdHeld, [Next]_vars
    PROVE  CmdHeld'
<1>1. CASE Load("load_cmd", "cmd", "send", "unmap_cmd")
  <2>1. pc = "load_cmd" /\ n' = n
    BY <1>1 DEF Load, thread
  <2>2. vmap["cmd"] # Empty
    BY <2>1 DEF Memory, Places, CmdMapped
  <2> DEFINE i == CHOOSE i \in FindKey(vmap["cmd"]) : TRUE
  <2>3. i \in Slots /\ keys[i] = vmap["cmd"]
    BY <2>2 DEF Memory, Listed, FindKey, Kinds
  <2>4. values[i] = "cmd"
    BY <2>2, <2>3 DEF Memory, Listed, Kinds
  <2>5. pc' = "send" => held' = [held EXCEPT !["cmd"] = Buf(values[i])]
    BY <1>1 DEF Load, LoadOutcome, Succeed, Fail, Goto
  <2>6. DOMAIN held' = Kinds
    BY <1>1 DEF Load, LoadOutcome, CmdHeld
  <2> HIDE DEF i
  <2>7. pc' = "send" => held'["cmd"] = <<"cmd", n>>
    BY <2>4, <2>5, BufIs DEF CmdHeld, Kinds
  <2>8. pc' \in {"send", "unmap_cmd"}
    BY <1>1 DEF Load, LoadOutcome, Succeed, Fail, Goto
  <2> QED  BY <2>1, <2>6, <2>7, <2>8 DEF CmdHeld
<1>2. CASE HostcmdSend \/ Wait("wait_cmd", "xfer", "unload_cmd")
  <2>1. pc \in {"send", "wait_cmd"} /\ UNCHANGED <<held, n>>
    BY <1>2 DEF HostcmdSend, Wait, WaitTake, WaitTimeout, thread, dmaVars
  <2> QED  BY <2>1 DEF CmdHeld
<1>3. CASE ChipEnds(TRUE) \/ ChipEnds(FALSE) \/ Interrupt \/ UNCHANGED vars
  <2>1. UNCHANGED <<pc, held, n>>
    BY <1>3 DEF ChipEnds, Interrupt, vars, thread, dmaVars
  <2> QED  BY <2>1 DEF CmdHeld
<1>4. CASE SDDiskBuffer
  <2>1. DOMAIN held' = DOMAIN held /\ pc' \in OwnLabels
    BY <1>4 DEF SDDiskBuffer, AllocClient, Map, MapOutcome, LoadClient, LoadOutcome,
       UnloadClient,
       Unmap, FreeClient, dmaVars, Succeed, Fail, Goto, OwnLabels
  <2> QED  BY <2>1 DEF CmdHeld, OwnLabels
<1>5. CASE \/ Submit \/ Refuse \/ Return \/ XferSend \/ XferDone
           \/ Alloc("alloc_cmd", "cmd", "map_cmd", "ret")
           \/ Map("map_cmd", "cmd", "load_cmd", "free_cmd")
           \/ Unload("unload_cmd", "cmd", "unmap_cmd") \/ Unmap("unmap_cmd", "cmd", "free_cmd")
           \/ Free("free_cmd", "cmd", "ret")
  <2>1. DOMAIN held' = DOMAIN held /\ pc' \notin {"send", "wait_cmd", "xfer"}
    BY <1>5 DEF Submit, Refuse, Return, XferSend, XferDone, Alloc, Map, MapOutcome, Unload,
       Unmap,
       Free, dmaVars, Succeed, Fail, Goto, Types, Cmds
  <2> QED  BY <2>1 DEF CmdHeld
<1>6. CASE XferBounce \/ XferAdma
  <2>1. DOMAIN held' = DOMAIN held /\ pc' \notin {"send", "wait_cmd", "xfer"}
    BY <1>6 DEF XferBounce, XferAdma, Alloc, Map, MapOutcome, CopyIn, Load, LoadOutcome,
       Trigger,
       Wait, WaitTake, WaitTimeout, Unload, CopyOut, Unmap, Free, BuildTable, dmaVars, Succeed,
       Fail, Goto
  <2> QED  BY <2>1 DEF CmdHeld
<1> QED  BY <1>1, <1>2, <1>3, <1>4, <1>5, <1>6 DEF Next, ExecCommand

LEMMA StepTypes ==
    ASSUME Types, [Next]_vars
    PROVE  Types'
<1> USE DEF Succeed, Fail, Goto
<1>1. CASE Dma
  <2>1. ChipKept /\ Move
    BY <1>1, DmaMoves
  <2>2. failed' \in BOOLEAN
    BY <1>1 DEF Types, Dma, SDDiskBuffer, AllocClient, Map, MapOutcome, LoadClient, LoadOutcome,
       UnloadClient, Unmap, FreeClient, Refuse, Alloc, Load, BuildTable, Unload, Free, Return
  <2>3. req' \in Nat
    BY <1>1 DEF Types, Dma, SDDiskBuffer, AllocClient, Map, LoadClient, UnloadClient, Unmap,
       FreeClient, Refuse, Alloc, Load, BuildTable, Unload, Free, Return, request
  <2>4. pc' \in OwnLabels \cup {"alloc_cmd", "ret"} \cup CmdLabels
    BY <2>1 DEF Move, Between, Prepare, SetUp, Leave, End, Preparing, Setup, Copied, Ending,
       OwnLabels, CmdLabels, CmdMapped, DataLabels, DataMapped, AdmaLabels
  <2> QED  BY <2>1, <2>2, <2>3, <2>4 DEF Types, ChipKept
<1>2. CASE Submit \/ HostcmdSend \/ XferSend
  <2>1. /\ n' \in Nat /\ run' \in Nat /\ first' \in Nat /\ cmd' \in Cmds /\ failed' \in BOOLEAN
        /\ UNCHANGED <<req, mimic_linux, misled, abandoned>>
    <3>1. CASE Submit
      <4>1. /\ n' = n + 1 /\ first' = run /\ failed' = FALSE /\ cmd' \in Cmds
            /\ UNCHANGED <<req, run, mimic_linux, misled, abandoned>>
        BY <3>1 DEF Submit, request, chip
      <4>2. n \in Nat /\ run \in Nat
        BY DEF Types
      <4>3. n' \in Nat /\ run' \in Nat /\ first' \in Nat
        BY <4>1, <4>2
      <4> QED  BY <4>1, <4>3
    <3>2. CASE HostcmdSend
      BY <3>2 DEF Types, HostcmdSend, Start, thread, request, history
    <3>3. CASE XferSend
      BY <3>3 DEF Types, XferSend, Start, thread, request, history
    <3> QED  BY <1>2, <3>1, <3>2, <3>3
  <2>2. pc' \in {"alloc_cmd", "wait_cmd", "unload_cmd", "bounce", "adma"}
    BY <1>2 DEF Types, Cmds, Submit, HostcmdSend, XferSend
  <2> QED
    BY <2>1, <2>2 DEF Types, CmdLabels, CmdMapped, AdmaLabels
<1>3. CASE \/ CopyIn \/ CopyOut \/ Trigger("exec_data", {Buf("data")}, "wait_data")
           \/ Trigger("exec_adma", {Buf("adma"), Buf("client")}, "wait_adma") \/ XferDone
  <2>1. /\ pc' \in {"load_data", "unmap_data", "wait_data", "wait_adma", "unload_cmd"}
        /\ abandoned' \in BOOLEAN
        /\ UNCHANGED <<n, cmd, mimic_linux, req, run, first, failed, misled>>
    BY <1>3 DEF Types, CopyIn, CopyOut, Trigger, XferDone, SoftReset, LeaveAtWork, thread,
       request,
       chipVars, chip, history
  <2> QED
    BY <2>1 DEF Types, CmdLabels, CmdMapped, DataLabels, DataMapped, AdmaLabels
<1>4. CASE \/ Wait("wait_cmd", "xfer", "unload_cmd")
           \/ Wait("wait_data", "unload_data", "unload_data")
           \/ Wait("wait_adma", "unload_adma", "unload_adma")
  <2>1. /\ pc' \in {"xfer", "unload_cmd", "unload_data", "unload_adma"}
        /\ abandoned' \in BOOLEAN /\ misled' \in BOOLEAN /\ failed' \in BOOLEAN
        /\ UNCHANGED <<n, cmd, mimic_linux, req, run, first>>
    BY <1>4 DEF Types, Wait, WaitTake, WaitTimeout, SoftReset, LeaveAtWork, thread, request,
       chip,
       history
  <2> QED
    BY <2>1 DEF Types, CmdLabels, CmdMapped, DataLabels, DataMapped, AdmaLabels
<1>5. CASE ChipEnds(TRUE) \/ ChipEnds(FALSE) \/ Interrupt \/ UNCHANGED vars
  <2>1. UNCHANGED <<pc, n, cmd, mimic_linux, req, run, first, failed, misled, abandoned>>
    BY <1>5 DEF ChipEnds, Interrupt, vars, thread, request, chipVars, chip, history
  <2> QED  BY <2>1 DEF Types
<1> QED
  BY <1>1, <1>2, <1>3, <1>4, <1>5 DEF Next, ExecCommand, XferBounce, XferAdma, Dma

-----------------------------------------------------------------------------
(***************************************************************************)
(* The theorems                                                            *)
(***************************************************************************)
LEMMA InitIInv == Init => IInv
<1> SUFFICES ASSUME Init PROVE IInv
  OBVIOUS
<1>1. Types /\ CmdHeld /\ Phase /\ RunsKnown /\ Ended
  BY DEF Init, Types, CmdHeld, Phase, RunsKnown, Ended, OwnLabels, NoCmd, Cmds, Preparing,
     Working, Setup, Leaving, Copied
<1>2. Chip /\ Progress
  BY DEF Init, Chip, Rest, Progress, Working, Setup, Leaving, Copied, Ending
<1> DEFINE a == CHOOSE a \in Addrs : TRUE
<1>3. a \in Nat /\ a > 0
  <2>1. a \in Addrs
    BY ExecAssumption
  <2> HIDE DEF a
  <2> QED  BY <2>1, ExecAssumption
<1>4. vmap = [k \in Kinds |-> IF k = "adma" THEN a ELSE Empty]
  BY DEF Init
<1> HIDE DEF a
<1>5. Wired /\ Places
  <2>1. pc = "idle" /\ alive = {<<"adma", 0>>}
    BY DEF Init
  <2> QED
    BY <1>3, <1>4, <2>1 DEF Wired, Places, ClientWired, Kinds, Empty, OwnLabels, CmdLabels,
       CmdMapped, DataLabels, DataMapped, AdmaLabels
<1>6. Listed
  <2>1. PICK others \in Slots :
           /\ keys = [i \in Slots |-> IF i < others THEN Other(i)
                                      ELSE IF i = others THEN a ELSE Empty]
           /\ values = [i \in Slots |-> IF i < others THEN "other"
                                        ELSE IF i = others THEN "adma" ELSE "null"]
    BY DEF Init, a
  <2>2. \A i \in Slots : i \in Int /\ i >= 0
    BY DEF Slots
  <2>3. \A i \in Slots : /\ keys[i] \in Int
                         /\ keys[i] > 0 <=> i = others
                         /\ i = others => keys[i] = a /\ values[i] = "adma"
    BY <1>3, <2>1, <2>2 DEF Other, Empty
  <2>4. vmap \in [Kinds -> Nat] /\ \A k \in Kinds : vmap[k] # Empty <=> k = "adma"
    BY <1>3, <1>4 DEF Empty, Kinds
  <2>5. vmap["adma"] = a
    BY <1>4 DEF Kinds
  <2> QED  BY <1>3, <2>1, <2>3, <2>4, <2>5 DEF Listed, Empty, Kinds
<1> QED  BY <1>1, <1>2, <1>5, <1>6 DEF IInv, Memory

LEMMA StepIInv == IInv /\ [Next]_vars => IInv'
<1> SUFFICES ASSUME IInv, [Next]_vars PROVE IInv'
  OBVIOUS
<1>1. Types /\ Memory /\ CmdHeld /\ Control
  BY DEF IInv, Control
<1>2. Memory'
  BY <1>1, QuietOrChanging, QuietMemory, ChangingMemory
<1> QED  BY <1>1, <1>2, StepTypes, StepCmdHeld, StepControl DEF IInv, Control

LEMMA Inductive == Spec => []IInv
BY InitIInv, StepIInv, PTL DEF Spec

\* Between requests the ADMA table is the only buffer and the only mapping of the
\* driver, whatever allocation, mapping, load or transfer has failed, for any size of
\* the table and any number of commands.
THEOREM NoLeak == Spec => []NothingLeaks
<1>1. IInv => NothingLeaks
  <2> SUFFICES ASSUME IInv, pc = "idle"
               PROVE  alive = {Buf("adma")} /\ {keys[i] : i \in Mine} = {vmap["adma"]}
    BY DEF NothingLeaks
  <2>1. Wired /\ Places /\ Listed
    BY DEF IInv, Memory
  <2>2. \A k \in Kinds : vmap[k] # Empty <=> k = "adma"
    BY <2>1 DEF Places, Kinds, CmdMapped, DataLabels, DataMapped, AdmaLabels
  <2>3. alive = {<<"adma", 0>>}
    BY <2>1, <2>2 DEF Wired, ClientWired, Kinds, CmdLabels, CmdMapped, DataLabels, DataMapped,
       AdmaLabels
  <2>4. \A i \in Mine : keys[i] = vmap["adma"]
    <3> TAKE i \in Mine
    <3>1. i \in Slots /\ keys[i] > 0
      BY DEF Mine
    <3>2. PICK k \in Kinds : keys[i] = vmap[k]
      BY <2>1, <3>1 DEF Listed
    <3>3. vmap[k] # Empty
      BY <3>1, <3>2 DEF Empty
    <3> QED  BY <2>2, <3>2, <3>3
  <2>5. \E i \in Mine : keys[i] = vmap["adma"]
    <3>1. "adma" \in Kinds /\ vmap["adma"] \in Nat /\ vmap["adma"] # 0
      BY <2>1, <2>2 DEF Kinds, Empty, Listed
    <3>2. PICK i \in Slots : keys[i] = vmap["adma"]
      BY <2>1, <3>1 DEF Listed, Empty
    <3>3. i \in Mine
      BY <3>1, <3>2 DEF Mine
    <3> QED  BY <3>2, <3>3
  <2> QED  BY <2>3, <2>4, <2>5, BufIs
<1> QED  BY <1>1, Inductive, PTL

\* The chip works with allocated buffers only, unless a late completion has ended a
\* wait or it was left at work by a data phase that could not be set up.
THEOREM LiveBuffers == Spec => []ChipOnLiveBuffers
<1>1. IInv => ChipOnLiveBuffers
  <2> SUFFICES ASSUME IInv, ~misled, ~abandoned
               PROVE  hdb \cup ({hcb} \ {NoBuf}) \subseteq alive
    BY DEF ChipOnLiveBuffers
  <2>1. Wired /\ Places /\ Chip /\ Tame
    BY DEF IInv, Memory, Tame
  <2>2. CASE pc \notin Working \cup Leaving
    BY <2>1, <2>2 DEF Chip, Rest
  <2>3. CASE pc \in Working \cup Leaving
    <3>1. pc \in CmdLabels
      BY <2>3 DEF Working, Setup, Leaving, Copied, CmdLabels, CmdMapped, DataLabels, DataMapped,
         AdmaLabels
    <3>2. <<"cmd", n>> \in alive /\ <<"adma", 0>> \in alive
      BY <2>1, <3>1 DEF Wired
    <3>3. hcb \in {NoBuf, <<"cmd", n>>}
      BY <2>1 DEF Chip
    <3>4. hdb \subseteq alive
      <4>1. CASE pc = "wait_data"
        <5>1. <<"data", n>> \in alive
          BY <2>1, <4>1 DEF Wired, DataLabels, DataMapped
        <5> QED  BY <2>1, <4>1, <5>1 DEF Chip
      <4>2. CASE pc = "wait_adma"
        <5>1. vmap["client"] # Empty
          BY <2>1, <4>2 DEF Places, AdmaLabels, OwnLabels
        <5>2. <<"client", req>> \in alive
          BY <2>1, <5>1 DEF Wired, ClientWired
        <5> QED  BY <2>1, <3>2, <4>2, <5>2 DEF Chip
      <4>3. CASE pc \in Leaving \cup Setup \cup {"wait_cmd"}
        BY <2>1, <4>3 DEF Chip
      <4> QED  BY <2>3, <4>1, <4>2, <4>3 DEF Working
    <3> QED  BY <3>2, <3>3, <3>4
  <2> QED  BY <2>2, <2>3
<1> QED  BY <1>1, Inductive, PTL

\* With -rtsx_mimic_linux a command is given back with the chip at rest, unless a late
\* completion has ended a wait.
THEOREM AtRest == Spec => []AtRestAsLinux
<1>1. IInv => AtRestAsLinux
  BY DEF IInv, Chip, Rest, Tame, AtRestAsLinux, Working, Setup, Leaving, Copied
<1> QED  BY <1>1, Inductive, PTL

\* A command that is given back without an error has had all of its runs ended well,
\* and its data is where the caller expects it.
THEOREM Verdict == Spec => []VerdictMatches
<1>1. IInv => VerdictMatches
  <2> SUFFICES ASSUME IInv, pc = "ret", ~failed, ~misled, ~abandoned
               PROVE  /\ first + 1 .. run \subseteq good
                      /\ run = first + (IF cmd.kind = "none" THEN 1 ELSE 2)
                      /\ cmd.kind # "none" => moved = "done"
    BY DEF VerdictMatches
  <2>1. first \in Nat /\ run \in Nat
    BY DEF IInv, Types
  <2>2. /\ first + 1 \in good /\ run = first + (IF cmd.kind = "none" THEN 1 ELSE 2)
        /\ cmd.kind # "none" => first + 2 \in good /\ moved = "done"
    BY DEF IInv, Progress, Tame, Ending
  <2>3. first + 1 .. run \subseteq good
    BY <2>1, <2>2
  <2> QED  BY <2>2, <2>3
<1> QED  BY <1>1, Inductive, PTL

-----------------------------------------------------------------------------
(***************************************************************************)
(* Sums of segments: what Upto, Needed and Loaded of DmaSegments compute   *)
(***************************************************************************)
\* A set of natural numbers that is not empty has a least element; the library's
\* induction theorems take a predicate, which a lemma cannot be given here.
LEMMA LeastNat ==
    ASSUME NEW T \in SUBSET Nat, T # {}
    PROVE  \E m \in T : \A k \in T : m <= k
<1> DEFINE R == OpToRel(<, Nat)
<1>1. PICK x \in T : \A y \in T : <<y, x>> \notin R
  <2>1. IsWellFoundedOn(R, Nat)
    BY NatLessThanWellFounded
  <2> HIDE DEF R
  <2> QED  BY <2>1, WFMin
<1>2. ASSUME NEW y \in T PROVE x <= y
  <2>1. ~ (y < x)
    BY <1>1 DEF OpToRel
  <2> QED  BY <2>1
<1> QED  BY <1>2

\* Induction on the natural numbers, for a set instead of a predicate
LEMMA NatSetInduction ==
    ASSUME NEW S, 0 \in S, \A m \in Nat : m \in S => m + 1 \in S
    PROVE  Nat \subseteq S
<1> SUFFICES ASSUME Nat \ S # {} PROVE FALSE
  OBVIOUS
<1>1. PICK m \in Nat \ S : \A k \in Nat \ S : m <= k
  BY LeastNat
<1>2. m # 0
  OBVIOUS
<1>3. m - 1 \in Nat /\ m - 1 \in S
  BY <1>1, <1>2
<1> QED  BY <1>3

\* Upto adds the lengths one by one: the recursive sum exists, by induction on the
\* number of lengths, and its values are natural numbers.
LEMMA UptoSteps ==
    ASSUME NEW s \in Seq(Nat)
    PROVE  /\ Upto(s, 0) = 0
           /\ \A k \in 1 .. Len(s) : Upto(s, k) = Upto(s, k - 1) + s[k]
           /\ \A k \in 0 .. Len(s) : Upto(s, k) \in Nat
<1> DEFINE L == Len(s)
           Next1(w, i) == IF i = 0 THEN 0 ELSE w[i - 1] + s[i]
           IsSum(w) == w = [i \in 0 .. L |-> Next1(w, i)]
           sum == CHOOSE w : IsSum(w)
<1>1. L \in Nat /\ \A i \in 1 .. L : s[i] \in Nat
  OBVIOUS
<1>2. \A k : Upto(s, k) = sum[k]
  BY Zenon DEF Upto
<1> HIDE DEF L
<1>3. \E w : IsSum(w)
  <2> DEFINE Works(w, m) == w \in [0 .. m -> Nat] /\ \A i \in 0 .. m : w[i] = Next1(w, i)
             S == {m \in Nat : m <= L => \E w : Works(w, m)}
  <2>1. 0 \in S
    <3>1. Works([i \in 0 .. 0 |-> 0], 0)
      OBVIOUS
    <3> QED  BY <3>1
  <2>2. ASSUME NEW m \in Nat, m \in S PROVE m + 1 \in S
    <3> SUFFICES ASSUME m + 1 <= L PROVE \E w : Works(w, m + 1)
      OBVIOUS
    <3>0. m <= L
      BY <1>1
    <3>1. PICK w : Works(w, m)
      BY <2>2, <3>0
    <3> DEFINE v == [i \in 0 .. m + 1 |-> IF i = m + 1 THEN w[m] + s[m + 1] ELSE w[i]]
    <3>2. /\ m + 1 \in 1 .. L /\ s[m + 1] \in Nat /\ m \in 0 .. m
          /\ w[m] \in Nat /\ w[m] + s[m + 1] \in Nat
      BY <1>1, <3>1
    <3>3. v \in [0 .. m + 1 -> Nat]
      BY <3>1, <3>2
    <3>4. ASSUME NEW i \in 0 .. m + 1 PROVE v[i] = Next1(v, i)
      <4>1. CASE i = m + 1
        <5>1. v[i] = w[m] + s[m + 1] /\ i - 1 = m /\ m \in 0 .. m + 1 /\ v[m] = w[m] /\ i # 0
          BY <4>1
        <5> HIDE DEF v
        <5> QED  BY <4>1, <5>1
      <4>2. CASE i # m + 1 /\ i # 0
        <5>1. i \in 0 .. m /\ i - 1 \in 0 .. m /\ v[i] = w[i] /\ v[i - 1] = w[i - 1]
          BY <4>2
        <5>2. w[i] = w[i - 1] + s[i]
          BY <3>1, <4>2, <5>1
        <5> HIDE DEF v
        <5> QED  BY <4>2, <5>1, <5>2
      <4>3. CASE i = 0
        <5>1. 0 \in 0 .. m /\ v[0] = w[0] /\ w[0] = 0
          BY <3>1
        <5> HIDE DEF v
        <5> QED  BY <4>3, <5>1
      <4> QED  BY <4>1, <4>2, <4>3
    <3> HIDE DEF v, Next1
    <3> QED  BY <3>3, <3>4
  <2> HIDE DEF S
  <2>3. Nat \subseteq S
    BY <2>1, <2>2, NatSetInduction
  <2> HIDE DEF Works
  <2>4. PICK w : Works(w, L)
    <3>1. L \in S /\ L <= L
      BY <1>1, <2>3
    <3> QED  BY <3>1 DEF S
  <2> USE DEF Works
  <2>5. w = [i \in 0 .. L |-> w[i]]
    BY <2>4
  <2> HIDE DEF Next1
  <2>6. IsSum(w)
    BY <2>4, <2>5
  <2> QED  BY <2>6
<1>4. IsSum(sum)
  <2> HIDE DEF IsSum
  <2> QED  BY <1>3
<1> HIDE DEF sum
<1>5. \A i \in 0 .. L : sum[i] = Next1(sum, i)
  BY <1>4
<1>6. sum[0] = 0 /\ \A k \in 1 .. L : sum[k] = sum[k - 1] + s[k]
  BY <1>1, <1>5
<1>7. \A k \in 0 .. L : sum[k] \in Nat
  <2> DEFINE S == {m \in Nat : m <= L => sum[m] \in Nat}
  <2>1. 0 \in S
    BY <1>6
  <2>2. ASSUME NEW m \in Nat, m \in S PROVE m + 1 \in S
    <3> SUFFICES ASSUME m + 1 <= L PROVE sum[m + 1] \in Nat
      OBVIOUS
    <3>1. m + 1 \in 1 .. L /\ sum[m] \in Nat /\ (m + 1) - 1 = m
      BY <1>1, <2>2
    <3> QED  BY <1>1, <1>6, <3>1
  <2> HIDE DEF S
  <2>3. Nat \subseteq S
    BY <2>1, <2>2, NatSetInduction
  <2> QED  BY <1>1, <2>3 DEF S
<1> QED  BY <1>2, <1>6, <1>7 DEF L

\* bus_dmamap_load finds the segment with which the length is reached.
LEMMA NeededExists ==
    ASSUME NEW s \in Seq(Nat), NEW l \in Nat, l > 0, l <= Total(s)
    PROVE  /\ Needed(s, l) \in 1 .. Len(s)
           /\ Upto(s, Needed(s, l)) >= l /\ Upto(s, Needed(s, l) - 1) < l
<1> DEFINE T == {k \in 0 .. Len(s) : Upto(s, k) >= l}
<1>1. Len(s) \in Nat /\ Upto(s, Len(s)) >= l
  BY UptoSteps DEF Total
<1>2. T \in SUBSET Nat /\ Len(s) \in T
  BY <1>1
<1>3. PICK k \in T : \A j \in T : k <= j
  <2> HIDE DEF T
  <2> QED  BY <1>2, LeastNat
<1>4. k # 0 /\ k \in 1 .. Len(s) /\ Upto(s, k) >= l
  BY <1>1, <1>3, UptoSteps
<1>5. k - 1 \in 0 .. Len(s) /\ k - 1 \notin T
  BY <1>1, <1>3, <1>4
<1>6. Upto(s, k - 1) < l
  <2>1. Upto(s, k - 1) \in Nat
    BY <1>5, UptoSteps
  <2> QED  BY <1>5, <2>1
<1> QED  BY <1>4, <1>6 DEF Needed

\* The segments that bus_dmamap_load leaves in the map cover the length that it was
\* asked for, no more and no less, and are as many as it needed.
LEMMA LoadedCovers ==
    ASSUME NEW s \in Seq(Nat), NEW l \in Nat, l > 0, l <= Total(s)
    PROVE  /\ Loaded(s, l) \in Seq(Nat) /\ Len(Loaded(s, l)) = Needed(s, l)
           /\ Total(Loaded(s, l)) = l
<1> DEFINE k == Needed(s, l)
           t == Loaded(s, l)
<1>1. /\ Len(s) \in Nat /\ k \in 1 .. Len(s) /\ k - 1 \in 0 .. Len(s)
      /\ Upto(s, k) >= l /\ Upto(s, k - 1) < l /\ Upto(s, k - 1) \in Nat
  <2>1. k \in 1 .. Len(s) /\ Upto(s, k) >= l /\ Upto(s, k - 1) < l
    BY NeededExists
  <2> HIDE DEF k
  <2>2. k - 1 \in 0 .. Len(s)
    BY <2>1
  <2> QED  BY <2>1, <2>2, UptoSteps
<1>2. t = [i \in 1 .. k |-> IF i = k THEN l - Upto(s, k - 1) ELSE s[i]]
  BY Zenon DEF Loaded
<1> HIDE DEF k, t
<1>3. l - Upto(s, k - 1) \in Nat
  BY <1>1
<1>4. t \in Seq(Nat) /\ Len(t) = k /\ t[k] = l - Upto(s, k - 1)
  BY <1>1, <1>2, <1>3
<1>5. \A i \in 1 .. k - 1 : t[i] = s[i]
  BY <1>1, <1>2
<1>6. \A j \in 0 .. k - 1 : Upto(t, j) = Upto(s, j)
  <2> DEFINE S == {m \in Nat : m <= k - 1 => Upto(t, m) = Upto(s, m)}
  <2>1. 0 \in S
    BY <1>4, UptoSteps
  <2>2. ASSUME NEW m \in Nat, m \in S PROVE m + 1 \in S
    <3> SUFFICES ASSUME m + 1 <= k - 1 PROVE Upto(t, m + 1) = Upto(s, m + 1)
      OBVIOUS
    <3>1. /\ m + 1 \in 1 .. Len(s) /\ m + 1 \in 1 .. Len(t) /\ m + 1 \in 1 .. k - 1
          /\ (m + 1) - 1 = m /\ Upto(t, m) = Upto(s, m)
      BY <1>1, <1>4, <2>2
    <3>2. Upto(t, m + 1) = Upto(t, (m + 1) - 1) + t[m + 1]
      BY <1>4, <3>1, UptoSteps
    <3>3. Upto(s, m + 1) = Upto(s, (m + 1) - 1) + s[m + 1]
      BY <3>1, UptoSteps
    <3> QED  BY <1>5, <3>1, <3>2, <3>3
  <2> HIDE DEF S
  <2>3. Nat \subseteq S
    BY <2>1, <2>2, NatSetInduction
  <2> QED  BY <1>1, <2>3 DEF S
<1>7. Upto(t, k) = Upto(t, k - 1) + t[k]
  <2>1. k \in 1 .. Len(t)
    BY <1>1, <1>4
  <2> QED  BY <1>4, <2>1, UptoSteps
<1>8. Upto(t, k - 1) = Upto(s, k - 1)
  BY <1>1, <1>6
<1>9. Upto(t, k) = l
  BY <1>1, <1>4, <1>7, <1>8
<1> QED  BY <1>4, <1>9 DEF Total, t, k

\* A buffer is cut in a sequence of lengths, no more than it has pages.
LEMMA CutIs ==
    ASSUME NEW m \in Nat, NEW s \in Cuts(m)
    PROVE  s \in Seq(Nat) /\ Len(s) \in Nat /\ Len(s) <= m /\ Total(s) = m
<1>1. PICK k \in 1 .. m : s \in [1 .. k -> 1 .. m]
  BY DEF Cuts
<1>2. s \in Seq(Nat) /\ Len(s) = k
  BY <1>1
<1> QED  BY <1>1, <1>2 DEF Cuts

-----------------------------------------------------------------------------
(***************************************************************************)
(* The arrays of fixed length and the types                                *)
(***************************************************************************)
Counters ==
    /\ n <= MaxCmds /\ req <= MaxCmds
    /\ run <= 2 * n
    /\ pc \notin OwnLabels => first + 2 <= 2 * n
    /\ hcb # NoBuf => run > 0

\* The arrays of segments: sc_dmap covers the length that it was loaded with as
\* long as it is loaded, and so does the ADMA table that was made from it.
Covers(t) == Len(t) <= SDMMC_MAXNSEGS /\ Total(t) = len

Segments ==
    /\ size \in 0 .. MaxPages /\ len \in 0 .. size
    /\ stored \in Nat /\ stored <= SDMMC_MAXNSEGS
    /\ pc \notin OwnLabels \ {"loaded"} /\ vmap["client"] # Empty => Covers(segs)
    /\ pc \in {"load_adma", "exec_adma", "wait_adma"} => table = segs
    /\ pc \notin OwnLabels /\ cmd.kind = "bounce" => vmap["client"] = Empty

\* The table of mapped buffers: no address is in two slots, and a mapping is
\* lost only if fewer than three slots were left by other readers.
Foreign == {i \in Slots : keys[i] < 0}

Dictionary ==
    /\ \A i \in Slots : keys[i] \in Addrs \cup {Empty, Other(i)}
    /\ values \in [Slots -> Kinds \cup {"null", "other"}]
    /\ vmap \in [Kinds -> Addrs \cup {Empty}]
    /\ \A i, j \in Slots : keys[i] = keys[j] /\ keys[i] > 0 => i = j
    /\ lost \in SUBSET Addrs
    /\ lost # {} => Cardinality(Foreign) > ArraySize - 3

Holders ==
    /\ held \in [Kinds -> Bufs \cup {NoBuf}]
    /\ hcb \in Bufs \cup {NoBuf} /\ hdb \in SUBSET Bufs /\ waitsData \in BOOLEAN

Reports ==
    /\ raised \in SUBSET Completions /\ intr \in SUBSET Completions
    /\ moved \in {"no", "staged", "buffered", "done"}

-----------------------------------------------------------------------------
(***************************************************************************)
(* Each part of it is kept by every step.                                  *)
(***************************************************************************)
\* A command has at most two runs, and requests and commands are counted.
LEMMA CountersStep ==
    ASSUME Types, Phase, Counters, [Next]_vars
    PROVE  Counters'
<1> USE DEF Goto, Succeed, Fail, thread, request, chipVars, chip, history, dmaVars
<1>0. n \in Nat /\ req \in Nat /\ run \in Nat /\ first \in Nat /\ MaxCmds \in Nat
  BY ExecAssumption DEF Types
<1>1. CASE Submit
  <2>1. n' = n + 1 /\ n < MaxCmds /\ first' = run /\ UNCHANGED <<req, run, hcb>>
    BY <1>1 DEF Submit
  <2> QED  BY <1>0, <2>1 DEF Counters
<1>2. CASE AllocClient
  <2>1. /\ req' = req + 1 /\ req < MaxCmds /\ UNCHANGED <<n, run, first, hcb>>
        /\ pc' \in {"idle", "map_client"}
    BY <1>2 DEF AllocClient
  <2> QED  BY <1>0, <2>1 DEF Counters, OwnLabels
<1>3. CASE HostcmdSend \/ XferSend
  <2>1. /\ UNCHANGED <<n, req, first>> /\ pc \in {"send", "xfer"}
        /\ \/ run' = run /\ hcb' = hcb
           \/ run' = run + 1 /\ pc \in Preparing \cup {"xfer"}
    BY <1>3 DEF HostcmdSend, XferSend, Start, Preparing
  <2>2. run + 1 <= first + 2 /\ first + 2 <= 2 * n
    BY <1>0, <2>1 DEF Phase, Counters, OwnLabels, Preparing
  <2>3. run' <= 2 * n /\ (hcb' # NoBuf => run' > 0)
    BY <1>0, <2>1, <2>2 DEF Counters
  <2> QED  BY <1>0, <2>1, <2>2, <2>3 DEF Counters
<1>4. CASE \/ Wait("wait_cmd", "xfer", "unload_cmd") \/ Wait("wait_data", "unload_data", "unload_data")
           \/ Wait("wait_adma", "unload_adma", "unload_adma") \/ XferDone
           \/ ChipEnds(TRUE) \/ ChipEnds(FALSE) \/ Interrupt \/ UNCHANGED vars
  <2>1. /\ UNCHANGED <<n, req, run, first>> /\ hcb' \in {hcb, NoBuf}
        /\ pc' = pc \/ pc \notin OwnLabels
    BY <1>4 DEF Wait, WaitTake, WaitTimeout, XferDone, SoftReset, ChipEnds, Interrupt, vars, OwnLabels
  <2> QED  BY <1>0, <2>1 DEF Counters
<1>5. CASE \/ CopyIn \/ CopyOut \/ Trigger("exec_data", {Buf("data")}, "wait_data")
           \/ Trigger("exec_adma", {Buf("adma"), Buf("client")}, "wait_adma")
  <2>1. UNCHANGED <<n, req, run, first, hcb>> /\ pc \notin OwnLabels
    BY <1>5 DEF CopyIn, CopyOut, Trigger, OwnLabels
  <2> QED  BY <1>0, <2>1 DEF Counters
<1>6. CASE Dma /\ ~AllocClient
  <2>1. ChipKept /\ Move
    BY <1>6, DmaMoves
  <2>2. req' = req
    BY <1>6 DEF Dma, SDDiskBuffer, Map, LoadClient, UnloadClient, Unmap,
       FreeClient, Refuse, Alloc, Load, BuildTable, Unload, Free, Return
  <2>3. pc' \notin OwnLabels => pc \notin OwnLabels
    BY <2>1 DEF Move, Between, Prepare, SetUp, Leave, End, OwnLabels, Preparing, Setup, Copied, Ending
  <2> QED  BY <1>0, <2>1, <2>2, <2>3 DEF Counters, ChipKept
<1> QED
  BY <1>1, <1>2, <1>3, <1>4, <1>5, <1>6 DEF Next, ExecCommand, XferBounce, XferAdma, Dma

\* The segments stay those of the last load until the map is unloaded.
LEMMA SegmentsStep ==
    ASSUME Types, Places, Listed, Segments, [Next]_vars
    PROVE  Segments'
<1> USE DEF Goto, Succeed, Fail, thread, request, chipVars, chip, history, dmaVars, dict, memory, segments
<1>0. MaxPages \in Nat /\ SDMMC_MAXNSEGS = MaxPages + 1 /\ MaxPages > 0
  BY ExecAssumption DEF SDMMC_MAXNSEGS
<1>1. CASE AllocClient
  <2>1. /\ size' \in 1 .. MaxPages /\ len' = 0 /\ pc' \in {"idle", "map_client"}
        /\ pc = "idle" /\ vmap' = vmap
        /\ stored' = stored \/ \E s \in Cuts(size') : stored' = Stored(s, SDMMC_MAXNSEGS)
    BY <1>1 DEF AllocClient
  <2>2. ASSUME NEW s \in Cuts(size')
        PROVE  Stored(s, SDMMC_MAXNSEGS) \in Nat /\ Stored(s, SDMMC_MAXNSEGS) <= SDMMC_MAXNSEGS
    <3>1. size' \in Nat /\ Len(s) \in Nat /\ Len(s) <= size'
      BY <1>0, <2>1, CutIs
    <3> QED  BY <1>0, <2>1, <3>1 DEF Stored
  <2>3. stored' \in Nat /\ stored' <= SDMMC_MAXNSEGS
    BY <2>1, <2>2 DEF Segments
  <2>4. size' \in 0 .. MaxPages /\ len' \in 0 .. size'
    BY <1>0, <2>1
  <2> QED  BY <2>1, <2>3, <2>4 DEF Segments, OwnLabels
<1>2. CASE LoadClient
  <2>1. PICK l \in 1 .. size, s \in Cuts(size) :
             /\ len' = l /\ pc' \in {"loaded", "ready"}
             /\ segs' = IF pc' = "loaded" /\ LoadFits(s, l, SDMMC_MAXNSEGS) THEN Loaded(s, l) ELSE <<>>
             /\ pc' = "loaded" => LoadFits(s, l, SDMMC_MAXNSEGS)
    BY <1>2 DEF LoadClient, LoadOutcome
  <2>2. UNCHANGED <<size, stored, vmap>>
    BY <1>2 DEF LoadClient
  <2>3. /\ size \in Nat /\ l \in Nat /\ l > 0 /\ l <= size
        /\ s \in Seq(Nat) /\ Total(s) = size
    BY <1>0, <2>1, CutIs DEF Segments
  <2>4. ASSUME pc' = "loaded" PROVE Covers(segs)'
    <3>1. segs' = Loaded(s, l) /\ Needed(s, l) <= SDMMC_MAXNSEGS
      BY <2>1, <2>4 DEF LoadFits
    <3>2. Len(Loaded(s, l)) = Needed(s, l) /\ Total(Loaded(s, l)) = l
      BY <2>3, LoadedCovers
    <3>3. Len(segs') <= SDMMC_MAXNSEGS /\ Total(segs') = len'
      BY <2>1, <3>1, <3>2
    <3> QED  BY <3>3 DEF Covers, SDMMC_MAXNSEGS
  <2>5. len' \in 0 .. size'
    BY <2>1, <2>2, <2>3
  <2> QED  BY <2>1, <2>2, <2>4, <2>5 DEF Segments, OwnLabels
<1>3. CASE \/ UnloadClient \/ FreeClient \/ Map("map_client", "client", "ready", "free_client")
           \/ Unmap("ready", "client", "free_client")
  <2>1. /\ pc' \in OwnLabels \ {"loaded"}
        /\ \/ size' = size /\ len' = len /\ stored' = stored
           \/ size' = 0 /\ len' = 0 /\ stored' = 0
    BY <1>3 DEF UnloadClient, FreeClient, Map, MapOutcome, Unmap, OwnLabels
  <2>2. size' \in 0 .. MaxPages /\ len' \in 0 .. size' /\ stored' \in Nat /\ stored' <= SDMMC_MAXNSEGS
    BY <1>0, <2>1 DEF Segments
  <2> QED  BY <2>1, <2>2 DEF Segments, OwnLabels
<1>4. CASE Submit
  <2>1. /\ UNCHANGED <<size, len, stored, segs, table, vmap>> /\ pc' = "alloc_cmd"
        /\ \/ pc = "idle"
           \/ pc = "loaded" /\ cmd'.kind # "bounce"
    BY <1>4 DEF Submit
  <2> QED  BY <2>1 DEF Segments, Covers, OwnLabels, Places
<1>5. CASE BuildTable
  <2>1. UNCHANGED <<size, len, stored, segs, vmap, cmd>> /\ table' = segs /\ pc = "adma"
    BY <1>5 DEF BuildTable
  <2> QED  BY <2>1 DEF Segments, Covers, OwnLabels
<1>6. CASE \/ Refuse
           \/ Alloc("alloc_cmd", "cmd", "map_cmd", "ret")
           \/ Map("map_cmd", "cmd", "load_cmd", "free_cmd")
           \/ Load("load_cmd", "cmd", "send", "unmap_cmd")
           \/ Unload("unload_cmd", "cmd", "unmap_cmd") \/ Unmap("unmap_cmd", "cmd", "free_cmd")
           \/ Free("free_cmd", "cmd", "ret")
           \/ HostcmdSend \/ Wait("wait_cmd", "xfer", "unload_cmd") \/ XferSend \/ XferDone
  <2>1. /\ UNCHANGED <<size, len, stored, segs, table, cmd>> /\ pc \notin OwnLabels
        /\ pc' \notin OwnLabels \cup {"load_adma", "exec_adma", "wait_adma"}
    BY <1>6 DEF Refuse, Alloc, Map, MapOutcome, Load, LoadOutcome, Unload, Unmap, Free, Types, Cmds,
       HostcmdSend, Wait, WaitTake, WaitTimeout, XferSend, XferDone, OwnLabels
  <2>2. vmap'["client"] = vmap["client"]
    BY <1>6 DEF Refuse, Alloc, Map, MapOutcome, Load, Unload, Unmap, Free, Listed, Kinds,
       HostcmdSend, Wait, WaitTake, WaitTimeout, XferSend, XferDone
  <2> QED  BY <2>1, <2>2 DEF Segments, Covers
<1>7. CASE XferBounce
  <2>1. /\ UNCHANGED <<size, len, stored, segs, table, cmd>> /\ pc \notin OwnLabels
        /\ pc' \notin OwnLabels \cup {"load_adma", "exec_adma", "wait_adma"}
    BY <1>7 DEF XferBounce, Alloc, Map, MapOutcome, Load, LoadOutcome, Unload, Unmap, Free,
       CopyIn, CopyOut, Trigger, Wait, WaitTake, WaitTimeout, OwnLabels
  <2>2. vmap'["client"] = vmap["client"]
    BY <1>7 DEF XferBounce, Alloc, Map, MapOutcome, Load, Unload, Unmap, Free, Listed, Kinds,
       CopyIn, CopyOut, Trigger, Wait, WaitTake, WaitTimeout
  <2> QED  BY <2>1, <2>2 DEF Segments, Covers
<1>8. CASE XferAdma /\ ~BuildTable
  <2>1. /\ UNCHANGED <<size, len, stored, segs, table, vmap, cmd>> /\ pc \notin OwnLabels
        /\ pc' \notin OwnLabels
        /\ pc' \in {"load_adma", "exec_adma", "wait_adma"} =>
              pc \in {"load_adma", "exec_adma", "wait_adma"}
    BY <1>8 DEF XferAdma, Load, LoadOutcome, Unload, Trigger, Wait, WaitTake, WaitTimeout, OwnLabels
  <2> QED  BY <2>1 DEF Segments, Covers
<1>9. CASE Return
  <2>1. /\ UNCHANGED <<size, len, stored, segs, table, vmap, cmd>> /\ pc = "ret"
        /\ pc' \in {"idle", "loaded"}
    BY <1>9 DEF Return
  <2> QED  BY <2>1 DEF Segments, Covers, OwnLabels
<1>10. CASE ChipEnds(TRUE) \/ ChipEnds(FALSE) \/ Interrupt \/ UNCHANGED vars
  <2>1. UNCHANGED <<size, len, stored, segs, table, vmap, cmd, pc>>
    BY <1>10 DEF ChipEnds, Interrupt, vars
  <2> QED  BY <2>1 DEF Segments, Covers
<1> QED
  BY <1>1, <1>2, <1>3, <1>4, <1>5, <1>6, <1>7, <1>8, <1>9, <1>10
  DEF Next, SDDiskBuffer, ExecCommand, XferAdma

\* When no slot is free and the driver has mapped two buffers at most, the rest of
\* the table has other readers' buffers.
LEMMA ForeignMany ==
    ASSUME Listed, Dictionary, FreeSlots = {}, NEW k1 \in Kinds, NEW k2 \in Kinds,
           \A k \in Kinds : vmap[k] # Empty => k \in {k1, k2}
    PROVE  Cardinality(Foreign) > ArraySize - 3
<1> DEFINE Own(k) == {i \in Slots : keys[i] > 0 /\ keys[i] = vmap[k]}
<1>1. IsFiniteSet(Slots) /\ Cardinality(Slots) = ArraySize /\ ArraySize \in Nat
  <2>1. ArraySize \in Nat /\ 0 \in Int /\ ArraySize - 1 \in Int /\ 0 <= ArraySize - 1
    BY ExecAssumption
  <2>2. IsFiniteSet(0 .. ArraySize - 1) /\ Cardinality(0 .. ArraySize - 1) = ArraySize - 1 - 0 + 1
    BY <2>1, FS_Interval
  <2> QED  BY <2>1, <2>2 DEF Slots
<1>2. ASSUME NEW k \in Kinds PROVE IsFiniteSet(Own(k)) /\ Cardinality(Own(k)) \in {0, 1}
  <2>1. CASE Own(k) = {}
    BY <2>1, FS_EmptySet
  <2>2. CASE Own(k) # {}
    <3>1. PICK i \in Own(k) : TRUE
      BY <2>2
    <3>2. Own(k) = {i}
      BY <3>1 DEF Dictionary
    <3> HIDE DEF Own
    <3> QED  BY <3>2, FS_Singleton
  <2> QED  BY <2>1, <2>2
<1>3. Slots = Foreign \cup (Own(k1) \cup Own(k2))
  <2>1. ASSUME NEW i \in Slots PROVE i \in Foreign \cup (Own(k1) \cup Own(k2))
    <3>1. keys[i] \in Int /\ keys[i] # 0
      BY DEF Listed, FreeSlots, Empty
    <3>2. CASE keys[i] < 0
      BY <3>2 DEF Foreign
    <3>3. CASE keys[i] > 0
      <4>1. PICK k \in Kinds : keys[i] = vmap[k]
        BY <3>3 DEF Listed
      <4>2. k \in {k1, k2}
        BY <3>1, <4>1 DEF Empty
      <4> QED  BY <3>3, <4>1, <4>2
    <3> QED  BY <3>1, <3>2, <3>3
  <2> QED  BY <2>1 DEF Foreign
<1>4. Foreign \subseteq Slots /\ IsFiniteSet(Foreign) /\ Cardinality(Foreign) \in Nat
  <2>1. Foreign \subseteq Slots
    BY DEF Foreign
  <2> QED  BY <1>1, <2>1, FS_Subset, FS_CardinalityType
<1> HIDE DEF Own
<1>5. /\ IsFiniteSet(Own(k1) \cup Own(k2)) /\ Cardinality(Own(k1) \cup Own(k2)) \in Nat
      /\ Cardinality(Own(k1) \cup Own(k2)) <= 2
  <2>1. /\ IsFiniteSet(Own(k1)) /\ IsFiniteSet(Own(k2))
        /\ Cardinality(Own(k1)) \in {0, 1} /\ Cardinality(Own(k2)) \in {0, 1}
    BY <1>2
  <2>2. /\ IsFiniteSet(Own(k1) \cup Own(k2))
        /\ Cardinality(Own(k1) \cup Own(k2))
             = Cardinality(Own(k1)) + Cardinality(Own(k2)) - Cardinality(Own(k1) \cap Own(k2))
    BY <2>1, FS_Union
  <2>3. /\ Cardinality(Own(k1) \cup Own(k2)) \in Nat
        /\ Cardinality(Own(k1) \cap Own(k2)) \in Nat
    BY <2>1, <2>2, FS_Intersection, FS_CardinalityType
  <2> QED  BY <2>1, <2>2, <2>3
<1>6. /\ Cardinality(Slots) = Cardinality(Foreign) + Cardinality(Own(k1) \cup Own(k2))
                               - Cardinality(Foreign \cap (Own(k1) \cup Own(k2)))
      /\ Cardinality(Foreign \cap (Own(k1) \cup Own(k2))) \in Nat
  <2>1. Cardinality(Foreign \cap (Own(k1) \cup Own(k2))) \in Nat
    BY <1>4, <1>5, FS_Intersection, FS_CardinalityType
  <2> QED  BY <1>3, <1>4, <1>5, <2>1, FS_Union
<1> QED  BY <1>1, <1>4, <1>5, <1>6

\* bus_dmamem_map keeps the table sound, and loses a mapping only to other readers.
LEMMA MapDictionary ==
    ASSUME Listed, Dictionary, NEW kind \in Kinds, vmap[kind] = Empty,
           NEW ok, NEW ko, MapOutcome(kind, ok, ko),
           NEW k1 \in Kinds, NEW k2 \in Kinds, \A k \in Kinds : vmap[k] # Empty => k \in {k1, k2}
    PROVE  Dictionary'
<1>1. CASE UNCHANGED <<dict, vmap>>
  BY <1>1 DEF dict, Dictionary, Foreign
<1>2. ASSUME NEW addr \in Addrs \ Mapped, FreeSlots # {}, AddToList(addr, kind),
             vmap' = [vmap EXCEPT ![kind] = addr], UNCHANGED lost
      PROVE  Dictionary'
  <2> DEFINE s == GetFreeSlot
  <2>1. s \in Slots /\ keys[s] = 0
    BY <1>2, FreeSlotExists DEF FreeSlots, Empty
  <2>2. addr \in Nat /\ addr > 0 /\ addr \in Addrs /\ \A i \in Slots : keys[i] # addr
    BY <1>2, ExecAssumption DEF Mapped
  <2>3. /\ keys' = [keys EXCEPT ![s] = addr] /\ values' = [values EXCEPT ![s] = kind]
        /\ DOMAIN keys = Slots
    BY <1>2 DEF AddToList, Listed
  <2> HIDE DEF s
  <2>4. keys'[s] = addr /\ \A i \in Slots : i # s => keys'[i] = keys[i]
    BY <2>1, <2>3
  <2>5. Foreign' = Foreign
    BY <2>1, <2>2, <2>4 DEF Foreign
  <2>6. \A i \in Slots : keys'[i] \in Addrs \cup {Empty, Other(i)}
    BY <2>2, <2>4 DEF Dictionary
  <2>7. values' \in [Slots -> Kinds \cup {"null", "other"}] /\ vmap' \in [Kinds -> Addrs \cup {Empty}]
    BY <1>2, <2>1, <2>3 DEF Dictionary
  <2>8. \A i, j \in Slots : keys'[i] = keys'[j] /\ keys'[i] > 0 => i = j
    BY <2>2, <2>4 DEF Dictionary
  <2> QED  BY <1>2, <2>5, <2>6, <2>7, <2>8 DEF Dictionary
<1>3. ASSUME NEW addr \in Addrs, FreeSlots = {}, lost' = lost \cup {addr},
             UNCHANGED <<keys, values, vmap>>
      PROVE  Dictionary'
  <2>1. Cardinality(Foreign) > ArraySize - 3
    BY <1>3, ForeignMany
  <2>2. Foreign' = Foreign
    BY <1>3 DEF Foreign
  <2> QED  BY <1>3, <2>1, <2>2 DEF Dictionary
<1>4. \/ UNCHANGED <<dict, vmap>>
      \/ \E addr \in Addrs \ Mapped :
            \/ /\ FreeSlots # {} /\ AddToList(addr, kind)
               /\ vmap' = [vmap EXCEPT ![kind] = addr] /\ UNCHANGED lost
            \/ FreeSlots = {} /\ lost' = lost \cup {addr} /\ UNCHANGED <<keys, values, vmap>>
  <2> DEFINE addr == CHOOSE a \in Addrs \ Mapped : TRUE
  <2>1. CASE Addrs \ Mapped = {}
    BY <2>1 DEF MapOutcome
  <2>2. CASE Addrs \ Mapped # {}
    <3>1. addr \in Addrs \ Mapped
      BY <2>2
    <3> HIDE DEF addr
    <3>2. \/ UNCHANGED <<dict, vmap>>
          \/ /\ FreeSlots # {} /\ AddToList(addr, kind)
             /\ vmap' = [vmap EXCEPT ![kind] = addr] /\ UNCHANGED lost
          \/ FreeSlots = {} /\ lost' = lost \cup {addr} /\ UNCHANGED <<keys, values, vmap>>
      BY Zenon DEF MapOutcome, addr
    <3> QED  BY <3>1, <3>2
  <2> QED  BY <2>1, <2>2
<1> QED  BY <1>1, <1>2, <1>3, <1>4

LEMMA UnmapDictionary ==
    ASSUME Listed, Dictionary, NEW kind \in Kinds, vmap[kind] # Empty,
           vmap' = [vmap EXCEPT ![kind] = Empty], RemoveFromList(vmap[kind]), UNCHANGED lost
    PROVE  Dictionary'
<1> DEFINE a == vmap[kind]
<1>1. a \in Nat /\ a > 0
  BY DEF Listed, Empty
<1>2. /\ DOMAIN keys' = Slots /\ DOMAIN values' = Slots
      /\ \A i \in Slots : keys'[i] = IF keys[i] = a THEN 0 ELSE keys[i]
      /\ values' = [i \in Slots |-> IF i \in FindKey(a) THEN "null" ELSE values[i]]
  BY DEF RemoveFromList, FindKey, Empty
<1> HIDE DEF a
<1>3. Foreign' = Foreign
  BY <1>1, <1>2 DEF Foreign
<1>4. \A i \in Slots : keys'[i] \in Addrs \cup {Empty, Other(i)}
  BY <1>2 DEF Dictionary, Empty
<1>5. values' \in [Slots -> Kinds \cup {"null", "other"}] /\ vmap' \in [Kinds -> Addrs \cup {Empty}]
  BY <1>2 DEF Dictionary
<1>6. \A i, j \in Slots : keys'[i] = keys'[j] /\ keys'[i] > 0 => i = j
  BY <1>2 DEF Dictionary
<1> QED  BY <1>3, <1>4, <1>5, <1>6 DEF Dictionary

LEMMA DictionaryStep ==
    ASSUME Types, Places, Listed, Segments, Dictionary, [Next]_vars
    PROVE  Dictionary'
<1> USE DEF Goto, Succeed, Fail, thread, request, chipVars, chip, history, dmaVars, dict, memory
<1>0. Kinds = {"client", "cmd", "data", "adma"}
  BY DEF Kinds
<1>1. CASE Map("map_client", "client", "ready", "free_client")
  <2>1. pc = "map_client" /\ MapOutcome("client", "ready", "free_client")
    BY <1>1 DEF Map
  <2>2. vmap["client"] = Empty /\ \A k \in Kinds : vmap[k] # Empty => k \in {"adma", "client"}
    BY <2>1 DEF Places, Kinds, CmdMapped, DataLabels, DataMapped, AdmaLabels
  <2> QED  BY <1>0, <2>1, <2>2, MapDictionary
<1>2. CASE Map("map_cmd", "cmd", "load_cmd", "free_cmd")
  <2>1. pc = "map_cmd" /\ MapOutcome("cmd", "load_cmd", "free_cmd")
    BY <1>2 DEF Map
  <2>2. vmap["cmd"] = Empty /\ \A k \in Kinds : vmap[k] # Empty => k \in {"adma", "client"}
    BY <2>1 DEF Places, Kinds, CmdMapped, DataLabels, DataMapped, AdmaLabels
  <2> QED  BY <1>0, <2>1, <2>2, MapDictionary
<1>3. CASE Map("map_data", "data", "copy_in", "free_data")
  <2>1. pc = "map_data" /\ MapOutcome("data", "copy_in", "free_data")
    BY <1>3 DEF Map
  <2>2. vmap["client"] = Empty
    BY <2>1 DEF Places, Segments, DataLabels, OwnLabels
  <2>3. vmap["data"] = Empty /\ \A k \in Kinds : vmap[k] # Empty => k \in {"adma", "cmd"}
    BY <2>1, <2>2 DEF Places, Kinds, CmdMapped, DataLabels, DataMapped, AdmaLabels
  <2> QED  BY <1>0, <2>1, <2>3, MapDictionary
<1>4. ASSUME NEW kind \in {"client", "cmd", "data"}, NEW from, NEW to, Unmap(from, kind, to),
             vmap[kind] # Empty
      PROVE  Dictionary'
  BY <1>0, <1>4, UnmapDictionary DEF Unmap
<1>5. CASE \/ Unmap("ready", "client", "free_client") \/ Unmap("unmap_data", "data", "free_data")
           \/ Unmap("unmap_cmd", "cmd", "free_cmd")
  <2>1. CASE Unmap("ready", "client", "free_client")
    <3>1. vmap["client"] # Empty
      BY <2>1 DEF Unmap, Places
    <3> QED  BY <1>4, <2>1, <3>1
  <2>2. CASE Unmap("unmap_data", "data", "free_data")
    <3>1. vmap["data"] # Empty
      BY <2>2 DEF Unmap, Places, DataMapped
    <3> QED  BY <1>4, <2>2, <3>1
  <2>3. CASE Unmap("unmap_cmd", "cmd", "free_cmd")
    <3>1. vmap["cmd"] # Empty
      BY <2>3 DEF Unmap, Places, CmdMapped
    <3> QED  BY <1>4, <2>3, <3>1
  <2> QED  BY <1>5, <2>1, <2>2, <2>3
<1>6. CASE UNCHANGED <<keys, values, lost, vmap>>
  BY <1>6 DEF Dictionary, Foreign
<1>7. CASE \/ AllocClient \/ LoadClient \/ UnloadClient \/ FreeClient
           \/ Submit \/ Refuse \/ HostcmdSend \/ XferSend \/ XferDone \/ Return
           \/ ChipEnds(TRUE) \/ ChipEnds(FALSE) \/ Interrupt \/ UNCHANGED vars
  <2>1. UNCHANGED <<keys, values, lost, vmap>>
    BY <1>7 DEF AllocClient, LoadClient, UnloadClient, FreeClient, Submit, Refuse, HostcmdSend,
       XferSend, XferDone, Return, ChipEnds, Interrupt, vars
  <2> QED  BY <1>6, <2>1
<1>8. CASE \/ Alloc("alloc_cmd", "cmd", "map_cmd", "ret")
           \/ Load("load_cmd", "cmd", "send", "unmap_cmd")
           \/ Unload("unload_cmd", "cmd", "unmap_cmd") \/ Free("free_cmd", "cmd", "ret")
           \/ Wait("wait_cmd", "xfer", "unload_cmd")
           \/ Alloc("bounce", "data", "map_data", "xfer_done")
           \/ CopyIn \/ Load("load_data", "data", "exec_data", "unmap_data")
           \/ Trigger("exec_data", {Buf("data")}, "wait_data")
           \/ Wait("wait_data", "unload_data", "unload_data")
           \/ Unload("unload_data", "data", "copy_out") \/ CopyOut
           \/ Free("free_data", "data", "xfer_done") \/ XferAdma
  <2>1. UNCHANGED <<keys, values, lost, vmap>>
    BY <1>8 DEF Alloc, Load, LoadOutcome, Unload, Free, Wait, WaitTake, WaitTimeout, CopyIn, CopyOut,
       Trigger, XferAdma, BuildTable
  <2> QED  BY <1>6, <2>1
<1> QED
  BY <1>1, <1>2, <1>3, <1>5, <1>7, <1>8 DEF Next, SDDiskBuffer, ExecCommand, XferBounce

\* A load puts the buffer in the IODMACommand that the table has for the address of
\* the map.
LEMMA LoadHolds ==
    ASSUME Types, Listed, Counters, Holders, NEW kind \in Kinds, vmap[kind] # Empty,
           NEW ok, NEW ko, LoadOutcome(kind, ok, ko)
    PROVE  held' \in [Kinds -> Bufs \cup {NoBuf}]
<1> DEFINE i == CHOOSE i \in FindKey(vmap[kind]) : TRUE
<1>1. i \in Slots /\ keys[i] = vmap[kind]
  <2>1. FindKey(vmap[kind]) # {}
    BY DEF Listed, FindKey
  <2> QED  BY <2>1 DEF FindKey
<1>2. held' = held \/ held' = [held EXCEPT ![kind] = Buf(values[i])]
  BY Zenon DEF LoadOutcome
<1> HIDE DEF i
<1>3. values[i] = kind
  BY <1>1 DEF Listed
<1>4. Buf(kind) \in Bufs
  BY ExecAssumption DEF Buf, Bufs, Types, Counters
<1> QED  BY <1>2, <1>3, <1>4 DEF Holders

LEMMA HoldersStep ==
    ASSUME Types, Places, Listed, Counters, Holders, [Next]_vars
    PROVE  Holders'
<1> USE DEF Goto, Succeed, Fail, thread, request, chipVars, chip, history, dmaVars, dict, memory
<1>0. Kinds = {"client", "cmd", "data", "adma"} /\ \A k \in Kinds : Buf(k) \in Bufs
  BY ExecAssumption DEF Kinds, Buf, Bufs, Types, Counters
<1>1. ASSUME NEW kind \in Kinds, vmap[kind] # Empty, NEW from, NEW ok, NEW ko,
             Load(from, kind, ok, ko)
      PROVE  Holders'
  <2>1. held' \in [Kinds -> Bufs \cup {NoBuf}]
    BY <1>1, LoadHolds DEF Load
  <2>2. UNCHANGED <<hcb, hdb, waitsData>>
    BY <1>1 DEF Load
  <2> QED  BY <2>1, <2>2 DEF Holders, Bufs
<1>2. CASE LoadClient
  <2>1. /\ vmap["client"] # Empty /\ \E ok, ko : LoadOutcome("client", ok, ko)
        /\ UNCHANGED <<hcb, hdb, waitsData>>
    BY <1>2 DEF LoadClient, Places
  <2>2. held' \in [Kinds -> Bufs \cup {NoBuf}]
    BY <1>0, <2>1, LoadHolds
  <2> QED  BY <2>1, <2>2 DEF Holders, Bufs
<1>3. CASE \/ Load("load_cmd", "cmd", "send", "unmap_cmd")
           \/ Load("load_data", "data", "exec_data", "unmap_data")
           \/ Load("load_adma", "adma", "exec_adma", "xfer_done")
  <2>1. CASE Load("load_cmd", "cmd", "send", "unmap_cmd")
    <3>1. vmap["cmd"] # Empty
      BY <2>1 DEF Load, Places, CmdMapped
    <3> QED  BY <1>0, <1>1, <2>1, <3>1
  <2>2. CASE Load("load_data", "data", "exec_data", "unmap_data")
    <3>1. vmap["data"] # Empty
      BY <2>2 DEF Load, Places, DataMapped
    <3> QED  BY <1>0, <1>1, <2>2, <3>1
  <2>3. CASE Load("load_adma", "adma", "exec_adma", "xfer_done")
    <3>1. vmap["adma"] # Empty
      BY DEF Places
    <3> QED  BY <1>0, <1>1, <2>3, <3>1
  <2> QED  BY <1>3, <2>1, <2>2, <2>3
<1>4. CASE \/ UnloadClient \/ Unload("unload_cmd", "cmd", "unmap_cmd")
           \/ Unload("unload_data", "data", "copy_out") \/ Unload("unload_adma", "adma", "xfer_done")
  <2>1. /\ \E kind \in Kinds : held' = [held EXCEPT ![kind] = NoBuf]
        /\ UNCHANGED <<hcb, hdb, waitsData>>
    BY <1>0, <1>4 DEF UnloadClient, Unload
  <2> QED  BY <2>1 DEF Holders, Bufs
<1>5. CASE \/ HostcmdSend \/ XferSend
           \/ Wait("wait_cmd", "xfer", "unload_cmd") \/ Wait("wait_data", "unload_data", "unload_data")
           \/ Wait("wait_adma", "unload_adma", "unload_adma") \/ XferDone
           \/ Trigger("exec_data", {Buf("data")}, "wait_data")
           \/ Trigger("exec_adma", {Buf("adma"), Buf("client")}, "wait_adma")
           \/ ChipEnds(TRUE) \/ ChipEnds(FALSE)
  <2>1. held' = held /\ hcb' \in {hcb, NoBuf, held["cmd"]} /\ waitsData' \in {waitsData, TRUE, FALSE}
    BY <1>5 DEF HostcmdSend, XferSend, Start, Wait, WaitTake, WaitTimeout, XferDone, SoftReset,
       Trigger, ChipEnds
  <2>2. hdb' \in {hdb, {}, {Buf("data")}, {Buf("adma"), Buf("client")}}
    BY <1>5 DEF HostcmdSend, XferSend, Start, Wait, WaitTake, WaitTimeout, XferDone, SoftReset,
       Trigger, ChipEnds
  <2>3. hcb' \in Bufs \cup {NoBuf}
    BY <1>0, <2>1 DEF Holders
  <2>4. hdb' \in SUBSET Bufs
    BY <1>0, <2>2 DEF Holders
  <2> QED  BY <2>1, <2>3, <2>4 DEF Holders, Bufs
<1>6. CASE \/ AllocClient \/ Map("map_client", "client", "ready", "free_client")
           \/ Unmap("ready", "client", "free_client") \/ FreeClient
           \/ Submit \/ Refuse \/ Alloc("alloc_cmd", "cmd", "map_cmd", "ret")
           \/ Map("map_cmd", "cmd", "load_cmd", "free_cmd")
           \/ Unmap("unmap_cmd", "cmd", "free_cmd") \/ Free("free_cmd", "cmd", "ret") \/ Return
           \/ Alloc("bounce", "data", "map_data", "xfer_done")
           \/ Map("map_data", "data", "copy_in", "free_data") \/ CopyIn \/ CopyOut
           \/ Unmap("unmap_data", "data", "free_data") \/ Free("free_data", "data", "xfer_done")
           \/ BuildTable \/ Interrupt \/ UNCHANGED vars
  <2>1. UNCHANGED <<held, hcb, hdb, waitsData>>
    BY <1>6 DEF AllocClient, Map, MapOutcome, Unmap, FreeClient, Submit, Refuse, Alloc, Free, Return,
       CopyIn, CopyOut, BuildTable, Interrupt, vars
  <2> QED  BY <2>1 DEF Holders, Bufs
<1> QED
  BY <1>2, <1>3, <1>4, <1>5, <1>6 DEF Next, SDDiskBuffer, ExecCommand, XferBounce, XferAdma

LEMMA ReportsStep ==
    ASSUME Types, Counters, Reports, [Next]_vars
    PROVE  Reports'
<1> USE DEF Goto, Succeed, Fail, thread, request, chipVars, chip, history, dmaVars
<1>1. CASE ChipEnds(TRUE) \/ ChipEnds(FALSE)
  <2>1. PICK ok \in BOOLEAN : ChipEnds(ok)
    BY <1>1
  <2>2. /\ raised' = raised \cup {[ok |-> ok, run |-> run]} /\ intr' = intr /\ hcb # NoBuf
        /\ moved' \in {moved, Moved}
    BY <2>1 DEF ChipEnds
  <2>3. run \in 1 .. 2 * MaxCmds
    BY <2>2, ExecAssumption DEF Types, Counters
  <2>4. raised' \in SUBSET Completions
    BY <2>2, <2>3 DEF Reports, Completions
  <2>5. moved' \in {"no", "staged", "buffered", "done"}
    BY <2>2 DEF Reports, Moved
  <2> QED  BY <2>2, <2>4, <2>5 DEF Reports, Completions
<1>2. CASE CopyIn \/ CopyOut \/ Submit
  <2>1. UNCHANGED <<raised, intr>> /\ moved' \in {moved, "no", "staged", "done"}
    BY <1>2 DEF CopyIn, CopyOut, Submit
  <2> QED  BY <2>1 DEF Reports, Completions
<1>3. CASE \/ Interrupt \/ Wait("wait_cmd", "xfer", "unload_cmd")
           \/ Wait("wait_data", "unload_data", "unload_data")
           \/ Wait("wait_adma", "unload_adma", "unload_adma")
  <2>1. raised' \in {raised, {}} /\ intr' \in {intr, {}, intr \cup raised} /\ moved' = moved
    BY <1>3 DEF Interrupt, Wait, WaitTake, WaitTimeout
  <2> QED  BY <2>1 DEF Reports, Completions
<1>4. CASE Dma
  <2>1. ChipKept
    BY <1>4, DmaMoves
  <2> QED  BY <2>1 DEF Reports, Completions, ChipKept
<1>5. CASE \/ HostcmdSend \/ XferSend \/ XferDone \/ UNCHANGED vars
           \/ Trigger("exec_data", {Buf("data")}, "wait_data")
           \/ Trigger("exec_adma", {Buf("adma"), Buf("client")}, "wait_adma")
  <2>1. UNCHANGED <<raised, intr, moved>>
    BY <1>5 DEF HostcmdSend, XferSend, XferDone, Trigger, vars
  <2> QED  BY <2>1 DEF Reports, Completions
<1> QED
  BY <1>1, <1>2, <1>3, <1>4, <1>5 DEF Next, ExecCommand, XferBounce, XferAdma, Dma

\* The arrays and the types
Arrays == Counters /\ Segments /\ Dictionary /\ Holders /\ Reports

LEMMA InitArrays == Init => Arrays
<1> SUFFICES ASSUME Init PROVE Arrays
  OBVIOUS
<1>1. Counters /\ Segments /\ Reports
  BY ExecAssumption DEF Init, Counters, Segments, Reports, OwnLabels, SDMMC_MAXNSEGS
<1>2. Holders
  BY DEF Init, Holders
<1>3. Dictionary
  <2> DEFINE a == CHOOSE a \in Addrs : TRUE
  <2>1. a \in Addrs /\ a > 0 /\ a \in Nat
    <3>1. a \in Addrs
      BY ExecAssumption
    <3> HIDE DEF a
    <3> QED  BY <3>1, ExecAssumption
  <2>2. PICK others \in Slots :
           /\ keys = [i \in Slots |-> IF i < others THEN Other(i)
                                      ELSE IF i = others THEN a ELSE Empty]
           /\ values = [i \in Slots |-> IF i < others THEN "other"
                                        ELSE IF i = others THEN "adma" ELSE "null"]
    BY DEF Init
  <2>3. vmap = [k \in Kinds |-> IF k = "adma" THEN a ELSE Empty] /\ lost = {}
    BY DEF Init
  <2> HIDE DEF a
  <2>4. \A i \in Slots : i \in Int /\ i >= 0
    BY DEF Slots
  <2>5. \A i \in Slots : /\ keys[i] \in Addrs \cup {Empty, Other(i)}
                         /\ keys[i] > 0 <=> i = others
    BY <2>1, <2>2, <2>4 DEF Other, Empty
  <2>6. values \in [Slots -> Kinds \cup {"null", "other"}] /\ vmap \in [Kinds -> Addrs \cup {Empty}]
    BY <2>1, <2>2, <2>3 DEF Kinds
  <2> QED  BY <2>3, <2>5, <2>6 DEF Dictionary
<1> QED  BY <1>1, <1>2, <1>3 DEF Arrays

LEMMA ArraysInductive == Spec => [](IInv /\ Arrays)
<1>1. Init => IInv /\ Arrays
  BY InitIInv, InitArrays
<1>2. (IInv /\ Arrays) /\ [Next]_vars => (IInv /\ Arrays)'
  <2> SUFFICES ASSUME IInv, Arrays, [Next]_vars PROVE (IInv /\ Arrays)'
    OBVIOUS
  <2>1. Types /\ Places /\ Listed /\ Phase
    BY DEF IInv, Memory
  <2> QED
    BY <2>1, StepIInv, CountersStep, SegmentsStep, DictionaryStep, HoldersStep, ReportsStep DEF Arrays
<1> QED  BY <1>1, <1>2, PTL DEF Spec

\* The table of mapped buffers loses a mapping only when other readers have all but two
\* of its slots, bus_dmamem_alloc never writes past the array of SDDisk although it
\* tests too late, and every variable keeps its type.
THEOREM ArraysAreEnough == Spec => []ArraysSuffice
<1>1. IInv /\ Arrays => ArraysSuffice
  <2> SUFFICES ASSUME IInv, Arrays PROVE ArraysSuffice
    OBVIOUS
  <2>1. Types /\ Wired
    BY DEF IInv, Memory
  <2>2. /\ lost # {} => Cardinality({i \in Slots : keys[i] < 0}) > ArraySize - 3
        /\ stored <= SDMMC_MAXNSEGS
    BY DEF Arrays, Dictionary, Foreign, Segments
  <2>3. n \in 0 .. MaxCmds /\ req \in 0 .. MaxCmds /\ run \in 0 .. 2 * MaxCmds
    BY <2>1, ExecAssumption DEF Types, Arrays, Counters
  <2>4. alive \in SUBSET Bufs
    BY <2>1, <2>3, ExecAssumption DEF Wired, Bufs, Kinds
  <2>5. pc \in Labels
    BY <2>1 DEF Types, Labels, OwnLabels, CmdLabels, CmdMapped, DataLabels, DataMapped, AdmaLabels
  <2>6. TypeOK
    BY <2>1, <2>3, <2>4, <2>5 DEF TypeOK, Types, Arrays, Segments, Dictionary, Holders, Reports
  <2> QED  BY <2>2, <2>6 DEF ArraysSuffice
<1> QED  BY <1>1, ArraysInductive, PTL

\* The scatter/gather table that the chip follows covers what the command moves, for
\* every way of cutting a buffer and every length, and fits in its buffer.
THEOREM TableCovers == Spec => []TableCoversTransfer
<1>1. IInv /\ Arrays => TableCoversTransfer
  <2> SUFFICES ASSUME IInv, Arrays, <<"adma", 0>> \in hdb, ~misled, ~abandoned
               PROVE  Len(table) <= SDMMC_MAXNSEGS /\ Total(table) = len
    BY BufIs DEF TableCoversTransfer
  <2>1. Places /\ Chip /\ Tame /\ Segments
    BY DEF IInv, Memory, Tame, Arrays
  <2>2. pc = "wait_adma"
    <3>1. hdb # {}
      OBVIOUS
    <3>2. pc \in Working \cup Leaving
      BY <2>1, <3>1 DEF Chip, Rest
    <3>3. pc \notin Leaving \cup Setup \cup {"wait_cmd"}
      BY <2>1, <3>1 DEF Chip
    <3>4. pc # "wait_data"
      BY <2>1 DEF Chip
    <3> QED  BY <3>2, <3>3, <3>4 DEF Working
  <2>3. table = segs /\ vmap["client"] # Empty
    BY <2>1, <2>2 DEF Segments, Places, AdmaLabels, OwnLabels
  <2>4. Covers(segs)
    BY <2>1, <2>2, <2>3 DEF Segments, OwnLabels
  <2> QED  BY <2>3, <2>4 DEF Covers
<1> QED  BY <1>1, ArraysInductive, PTL
=============================================================================
