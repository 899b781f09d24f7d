---------------------------- MODULE SdmmcBus_proofs ----------------------------
(***************************************************************************)
(* Proofs about SdmmcBus, for any number of cards, ejects, suspends and    *)
(* requests: the flags, sc_fn0 and the disk agree, there is one live disk, *)
(* and a request of a live disk reaches no other card.                     *)
(*                                                                         *)
(* Only the task thread changes what Bound speaks of.  The other threads   *)
(* change the queue (Queued), the slot and the answering card (Powered),   *)
(* and take requests (Requested), between any two of its steps.            *)
(***************************************************************************)
EXTENDS SdmmcBus, FiniteSetTheorems, TLAPS

-----------------------------------------------------------------------------
(***************************************************************************)
(* The inductive invariant                                                 *)
(***************************************************************************)
ThreadTypes ==
    /\ slot \in Cards \cup {0} /\ inserted \in 0 .. MaxCards /\ sdInt \in BOOLEAN
    /\ cardPresent \in BOOLEAN
    /\ ipc \in {"idle", "ack", "insert", "eject", "needs"} /\ exist \in BOOLEAN
    /\ epc \in {"idle", "needs"} /\ ejects \in 0 .. MaxEjects
    /\ ppc \in {"on", "off"} \cup ResumeLabels /\ suspends \in 0 .. MaxSuspends
    /\ dying \in {-1, 0}
    /\ eventLost \in BOOLEAN

\* The queue holds a task once, and a request only while it is queued and not taken.
Queued ==
    /\ queue \in Seq(Tasks)
    /\ tpc \in TaskLabels /\ cur \in Tasks \cup {"none"}
    /\ \A i, j \in 1 .. Len(queue) : queue[i] = queue[j] => i = j
    /\ \A i \in 1 .. Len(queue) : queue[i] # Discover => rstate[queue[i]] = "queued"
    /\ tpc \in {"check", "io"} =>
          /\ cur \in Reqs /\ rstate[cur] = "queued"
          /\ \A i \in 1 .. Len(queue) : queue[i] # cur

\* Which card and which disk the task thread has, at which place
Bound ==
    /\ present \in BOOLEAN /\ attached \in BOOLEAN
    /\ fn0 \in Cards \cup {0} /\ fnError \in BOOLEAN
    /\ sddisk # 0 => attached
    /\ attached => fn0 # 0
    /\ tpc \notin AttachLabels => (fn0 # 0 => attached)
    /\ tpc \notin AttachLabels \cup {"restart"} => (attached => present)
    /\ tpc \in {"enable", "scan", "init", "blkattach", "disable", "restart"} => ~attached
    /\ tpc \in {"enable", "scan"} => fn0 = 0
    /\ tpc \in {"init", "blkattach"} => fn0 # 0
    /\ tpc \in {"enable", "scan", "init", "blkattach"} => present

\* sddisk_ was made for the card of sc_fn0, and no disk but it is live.
Disks ==
    /\ disks \in Seq([card : Cards \cup {0}, state : DiskStates])
    /\ sddisk \in 0 .. Len(disks)
    /\ sddisk # 0 => disks[sddisk].card = fn0 /\ disks[sddisk].state \in {"live", "freed"}
    /\ \A d \in 1 .. Len(disks) : disks[d].state = "live" => d = sddisk

\* A card that answers has the function, but for the time between its power-up
\* and its scan, and while it is given up.
Powered ==
    /\ answering \in Cards \cup {0}
    /\ tpc \notin {"scan", "detach", "disable"} => (answering # 0 => answering = fn0)

\* What a request has touched, it has touched as it was done.
Requested ==
    /\ rdisk \in [Reqs -> 0 .. Len(disks)]
    /\ rstate \in [Reqs -> ReqStates]
    /\ touched \in [Reqs -> Cards \cup {0}]
    /\ \A r \in Reqs : rstate[r] # "done" => touched[r] = 0
    /\ \A r \in Reqs : rstate[r] # "new" => rdisk[r] # 0
    /\ TransfersOwnCard

IInv == ThreadTypes /\ Queued /\ Bound /\ Disks /\ Powered /\ Requested

-----------------------------------------------------------------------------
(***************************************************************************)
(* What the steps of the other threads leave alone                         *)
(***************************************************************************)
SubmitStep == \E r \in Reqs : \/ \E d \in 1 .. Len(disks) : SubmitCheck(r, d)
                              \/ SubmitAdd(r)

Outside ==
    \/ SlotStep \/ IntrStep \/ EjectFlag \/ EjectNeeds
    \/ Suspend \/ ResumeInit \/ ResumeStep \/ SubmitStep
    \/ \E d \in 1 .. Len(disks) : DiskDetach(d)

Woken == tpc' = tpc \/ (tpc = "asleep" /\ tpc' = "while")

LEMMA OutsideQuiet ==
    ASSUME Outside
    PROVE  Woken /\ UNCHANGED <<cur, cardVars, sddisk>>
<1>1. CASE SlotStep
  BY <1>1 DEF SlotStep, InsertCard, RemoveCard, Woken, diskVars
<1>2. CASE IntrStep
  BY <1>2 DEF IntrStep, IntrRead, IntrAck, IntrFlag, IntrNeeds, NeedsDiscover, AddTask, Wakeup,
     Woken, diskVars
<1>3. CASE EjectFlag \/ EjectNeeds
  BY <1>3 DEF EjectFlag, EjectNeeds, NeedsDiscover, AddTask, Wakeup, Woken, diskVars
<1>4. CASE Suspend \/ ResumeInit \/ ResumeStep
  BY <1>4 DEF Suspend, ResumeInit, ResumeStep, ResumeFound, ResumeRead,
     ResumeFlag, ResumeNeeds, ResumeWakeup,
     NeedsDiscover, AddTask, Wakeup, Woken, diskVars
<1>5. CASE SubmitStep
  BY <1>5 DEF SubmitStep, SubmitCheck, SubmitAdd, AddTask, Wakeup, Woken, diskVars
<1>6. CASE \E d \in 1 .. Len(disks) : DiskDetach(d)
  BY <1>6 DEF DiskDetach, Woken
<1> QED  BY <1>1, <1>2, <1>3, <1>4, <1>5, <1>6 DEF Outside

LEMMA TaskOrOutside == Next => TaskStep \/ Outside
BY DEF Next, Outside, SubmitStep

LEMMA ThreadTypesStep ==
    ASSUME ThreadTypes, [Next]_vars
    PROVE  ThreadTypes'
<1> USE DEF ThreadTypes
<1>1. CASE SlotStep
  <2>1. inserted < MaxCards => inserted + 1 \in Cards /\ inserted + 1 \in 0 .. MaxCards
    BY BusAssumption DEF Cards
  <2> QED  BY ZenonT(60), <1>1, <2>1 DEF SlotStep, InsertCard, RemoveCard, intrVars, ejectVars, pmVars
<1>2. CASE IntrStep
  BY ZenonT(60), <1>2 DEF IntrStep, IntrRead, IntrAck, IntrFlag, IntrNeeds, slotVars, ejectVars, pmVars
<1>3. CASE EjectFlag \/ EjectNeeds
  <2>1. ejects < MaxEjects => ejects + 1 \in 0 .. MaxEjects
    BY BusAssumption
  <2> QED  BY ZenonT(60), <1>3, <2>1 DEF EjectFlag, EjectNeeds, slotVars, intrVars, pmVars
<1>4. CASE Suspend \/ ResumeInit \/ ResumeStep
  <2>1. suspends < MaxSuspends => suspends + 1 \in 0 .. MaxSuspends
    BY BusAssumption
  <2> QED
    BY ZenonT(60), <1>4, <2>1 DEF Suspend, ResumeInit, ResumeStep, ResumeFound, ResumeRead,
     ResumeFlag, ResumeNeeds, ResumeWakeup,
       ResumeLabels, slotVars, intrVars, ejectVars
<1>5. CASE SubmitStep
  BY <1>5 DEF SubmitStep, SubmitCheck, SubmitAdd, slotVars, intrVars, ejectVars, pmVars
<1>6. CASE \E d \in 1 .. Len(disks) : DiskDetach(d)
  BY <1>6 DEF DiskDetach, slotVars, intrVars, ejectVars, pmVars
<1>7. CASE TaskStep
  <2>1. CASE CardEnable \/ CardDisable
    <3>1. /\ sdInt' \in {sdInt, FALSE} /\ eventLost' \in BOOLEAN
          /\ UNCHANGED <<slot, inserted, threads, dying>>
      BY <2>1 DEF CardEnable, CardDisable, PowerOffClears, slotVars
    <3> QED  BY <3>1 DEF threads, intrVars, ejectVars, pmVars
  <2>2. CASE TaskRestart
    BY <2>2 DEF TaskRestart, others, threads, slotVars, intrVars, ejectVars, pmVars
  <2>3. CASE ~(CardEnable \/ CardDisable \/ TaskRestart)
    <3>1. UNCHANGED others /\ UNCHANGED dying
      BY <1>7, <2>3 DEF TaskStep, TaskNeeds, TaskWhile, TaskFor, TaskExit, DiscoverCard,
         CardScan, CardInit, BlkAttach, CardDetach, ReadCheck, ReadIO
    <3> QED  BY <3>1 DEF others, threads, slotVars, intrVars, ejectVars, pmVars
  <2> QED  BY <2>1, <2>2, <2>3
<1>8. CASE UNCHANGED vars
  BY <1>8 DEF vars, slotVars, intrVars, ejectVars, pmVars
<1> QED  BY <1>1, <1>2, <1>3, <1>4, <1>5, <1>6, <1>7, <1>8, TaskOrOutside DEF Outside

-----------------------------------------------------------------------------
(***************************************************************************)
(* Flags, functions and disks                                              *)
(***************************************************************************)
LEMMA BoundStep ==
    ASSUME Bound, Powered, Disks, ThreadTypes, [Next]_vars
    PROVE  Bound'
<1> USE DEF Bound
<1>1. CASE Outside
  <2>1. Woken /\ UNCHANGED <<present, attached, fn0, fnError, sddisk>>
    BY <1>1, OutsideQuiet DEF cardVars
  <2> QED  BY <2>1 DEF Woken, AttachLabels
<1>2. CASE TaskNeeds \/ TaskWhile \/ TaskFor
  BY <1>2 DEF TaskNeeds, TaskWhile, TaskFor, cardVars, diskVars, AttachLabels
<1>3. CASE TaskExit
  BY <1>3 DEF TaskExit, cardVars, diskVars, AttachLabels
<1>4. CASE TaskRestart
  BY <1>4 DEF TaskRestart, cardVars, diskVars, AttachLabels
<1>5. CASE DiscoverCard
  <2>1. cardPresent \in BOOLEAN
    BY DEF ThreadTypes
  <2>2. tpc = "discover" /\ UNCHANGED <<fn0, fnError, sddisk>> /\ present' = cardPresent
    BY <1>5 DEF DiscoverCard, diskVars
  <2>3. CASE cardPresent = present
    <3>1. tpc' = "for" /\ attached' = attached /\ present' = present
      BY <1>5, <2>3 DEF DiscoverCard
    <3> QED  BY <2>2, <3>1 DEF AttachLabels
  <2>4. CASE cardPresent /\ ~present
    <3>1. tpc' = "enable" /\ attached' = FALSE /\ present' = TRUE /\ attached = FALSE
      BY <1>5, <2>1, <2>4 DEF DiscoverCard, AttachLabels
    <3> QED  BY <2>2, <3>1 DEF AttachLabels
  <2>5. CASE ~cardPresent /\ present
    <3>1. tpc' = "detach" /\ attached' = attached /\ present' = FALSE
      BY <1>5, <2>1, <2>5 DEF DiscoverCard
    <3> QED  BY <2>2, <3>1 DEF AttachLabels
  <2> QED  BY <2>1, <2>3, <2>4, <2>5
<1>6. CASE CardEnable
  BY <1>6 DEF CardEnable, cardVars, diskVars, AttachLabels
<1>7. CASE CardScan
  BY <1>7 DEF CardScan, diskVars, AttachLabels, Powered
<1>8. CASE CardInit
  BY <1>8 DEF CardInit, diskVars, AttachLabels
<1>9. CASE BlkAttach
  <2>1. Len(disks) + 1 # 0
    BY DEF Disks
  <2> QED  BY <1>9, <2>1 DEF BlkAttach, AttachLabels
<1>10. CASE CardDetach
  BY <1>10 DEF CardDetach, diskVars, AttachLabels
<1>11. CASE CardDisable
  BY <1>11 DEF CardDisable, diskVars, AttachLabels
<1>12. CASE ReadCheck \/ ReadIO
  BY <1>12 DEF ReadCheck, ReadIO, cardVars, diskVars, AttachLabels
<1>13. CASE UNCHANGED vars
  BY <1>13 DEF vars, cardVars, diskVars
<1> QED
  BY <1>1, <1>2, <1>5, <1>6, <1>7, <1>8, <1>9, <1>10, <1>11, <1>12, <1>13, <1>3, <1>4, TaskOrOutside
  DEF TaskStep

LEMMA PoweredStep ==
    ASSUME Powered, Bound, ThreadTypes, [Next]_vars
    PROVE  Powered'
<1> USE DEF Powered
<1>1. CASE Outside
  <2>1. Woken /\ fn0' = fn0
    BY <1>1, OutsideQuiet DEF cardVars
  <2>2. answering' = answering \/ answering' = 0
    BY <1>1 DEF Outside, SlotStep, InsertCard, RemoveCard, IntrStep, IntrRead, IntrAck, IntrFlag,
       IntrNeeds, EjectFlag, EjectNeeds, Suspend, ResumeInit, ResumeStep, ResumeFound,
       ResumeRead, ResumeFlag, ResumeNeeds,
       ResumeWakeup, SubmitStep, SubmitCheck, SubmitAdd, DiskDetach
  <2> QED  BY <2>1, <2>2 DEF Woken
<1>2. CASE TaskNeeds \/ TaskWhile \/ TaskFor \/ TaskExit \/ TaskRestart \/ DiscoverCard
  BY <1>2 DEF TaskNeeds, TaskWhile, TaskFor, TaskExit, TaskRestart, DiscoverCard, cardVars
<1>3. CASE CardEnable
  BY <1>3 DEF CardEnable, cardVars, ThreadTypes, Responds
<1>4. CASE CardScan
  BY <1>4 DEF CardScan, Bound
<1>5. CASE CardInit \/ BlkAttach \/ CardDetach \/ CardDisable \/ ReadCheck \/ ReadIO
  BY <1>5 DEF CardInit, BlkAttach, CardDetach, CardDisable, ReadCheck, ReadIO, cardVars
<1>6. CASE UNCHANGED vars
  BY <1>6 DEF vars, cardVars
<1> QED  BY <1>1, <1>2, <1>3, <1>4, <1>5, <1>6, TaskOrOutside DEF TaskStep

DiskRecords == [card : Cards \cup {0}, state : DiskStates]

\* A disk changes its state, and nothing else of any disk changes.
LEMMA StateChange ==
    ASSUME Disks, NEW d \in 1 .. Len(disks), NEW st \in DiskStates,
           disks' = [disks EXCEPT ![d].state = st]
    PROVE  /\ disks' \in Seq([card : Cards \cup {0}, state : DiskStates])
           /\ Len(disks') = Len(disks)
           /\ \A e \in 1 .. Len(disks) :
                 /\ disks'[e].card = disks[e].card
                 /\ e # d => disks'[e].state = disks[e].state
           /\ disks'[d].state = st
<1>1. disks \in Seq([card : Cards \cup {0}, state : DiskStates])
  BY DEF Disks
<1>2. disks[d] \in [card : Cards \cup {0}, state : DiskStates]
  <2>1. disks \in Seq(DiskRecords)
    BY <1>1 DEF DiskRecords
  <2>2. disks[d] \in DiskRecords
    BY <2>1
  <2> QED  BY <2>2 DEF DiskRecords
<1>3. disks' = [disks EXCEPT ![d] = [disks[d] EXCEPT !.state = st]]
  OBVIOUS
<1>4. [disks[d] EXCEPT !.state = st] \in [card : Cards \cup {0}, state : DiskStates]
      /\ [disks[d] EXCEPT !.state = st].state = st
      /\ [disks[d] EXCEPT !.state = st].card = disks[d].card
  BY <1>2
<1>5. disks' \in Seq([card : Cards \cup {0}, state : DiskStates]) /\ Len(disks') = Len(disks)
  BY <1>1, <1>3, <1>4
<1>6. disks'[d] = [disks[d] EXCEPT !.state = st]
      /\ \A e \in 1 .. Len(disks) : e # d => disks'[e] = disks[e]
  BY <1>1, <1>3
<1> QED  BY <1>4, <1>5, <1>6

\* A new disk is the last one.
LEMMA NewDisk ==
    ASSUME Disks, Bound, NEW st \in DiskStates,
           disks' = Append(disks, [card |-> fn0, state |-> st])
    PROVE  /\ disks' \in Seq([card : Cards \cup {0}, state : DiskStates])
           /\ Len(disks') = Len(disks) + 1 /\ Len(disks) \in Nat
           /\ \A e \in 1 .. Len(disks) : disks'[e] = disks[e]
           /\ disks'[Len(disks) + 1] = [card |-> fn0, state |-> st]
<1>1. [card |-> fn0, state |-> st] \in [card : Cards \cup {0}, state : DiskStates]
  BY DEF Bound
<1> QED  BY <1>1 DEF Disks

\* blk_attach makes a disk for sc_fn0, live or freed, or none.
LEMMA BlkAttachDisk ==
    ASSUME BlkAttach
    PROVE  \/ \E st \in DiskStates :
                 /\ st \in {"live", "freed"} /\ sddisk' = Len(disks) + 1
                 /\ disks' = Append(disks, [card |-> fn0, state |-> st])
           \/ sddisk' = 0 /\ disks' = disks
BY DEF BlkAttach, DiskStates

\* blk_detach changes the disk that it finds, if any, to one that is not live.
LEMMA CardDetachDisk ==
    ASSUME CardDetach, Bound, Disks
    PROVE  /\ sddisk' = 0
           /\ \/ disks' = disks /\ sddisk = 0
              \/ /\ sddisk \in 1 .. Len(disks)
                 /\ \E st \in DiskStates \ {"live"} :
                       disks' = [disks EXCEPT ![sddisk].state = st]
<1>1. CASE sddisk = 0
  BY <1>1 DEF CardDetach, diskVars
<1>2. CASE sddisk # 0
  <2>1. attached /\ sddisk \in 1 .. Len(disks)
    BY <1>2 DEF Bound, Disks
  <2> DEFINE st == IF disks[sddisk].state = "live" THEN "terminated" ELSE "detached"
  <2>2. disks' = [disks EXCEPT ![sddisk].state = st] /\ sddisk' = 0
    BY <1>2, <2>1 DEF CardDetach
  <2>3. st \in DiskStates \ {"live"}
    BY DEF DiskStates
  <2> HIDE DEF st
  <2> QED  BY <2>1, <2>2, <2>3
<1> QED  BY <1>1, <1>2

LEMMA DisksStep ==
    ASSUME Disks, Bound, [Next]_vars
    PROVE  Disks'
<1>1. CASE \E d \in 1 .. Len(disks) : DiskDetach(d)
  <2>1. PICK d \in 1 .. Len(disks) : DiskDetach(d)
    BY <1>1
  <2>2. fn0' = fn0 /\ sddisk' = sddisk
    BY <2>1 DEF DiskDetach, cardVars
  <2>3. d # sddisk
    BY <2>1 DEF DiskDetach, Disks
  <2>4. "detached" \in DiskStates /\ disks' = [disks EXCEPT ![d].state = "detached"]
    BY <2>1 DEF DiskDetach, DiskStates
  <2>5. /\ disks' \in Seq([card : Cards \cup {0}, state : DiskStates])
        /\ Len(disks') = Len(disks)
        /\ \A e \in 1 .. Len(disks) : disks'[e].card = disks[e].card
                                      /\ (e # d => disks'[e].state = disks[e].state)
        /\ disks'[d].state = "detached"
    BY <2>4, StateChange
  <2> QED  BY <2>2, <2>3, <2>5 DEF Disks
<1>2. CASE BlkAttach
  <2>1. sddisk = 0 /\ fn0' = fn0
    BY <1>2 DEF BlkAttach, Bound
  <2>2. \A d \in 1 .. Len(disks) : disks[d].state # "live"
    BY <2>1 DEF Disks
  <2>3. ASSUME NEW st \in DiskStates, st \in {"live", "freed"}, sddisk' = Len(disks) + 1,
               disks' = Append(disks, [card |-> fn0, state |-> st])
        PROVE  Disks'
    <3>1. /\ disks' \in Seq([card : Cards \cup {0}, state : DiskStates])
          /\ Len(disks') = Len(disks) + 1 /\ Len(disks) \in Nat
          /\ \A e \in 1 .. Len(disks) : disks'[e] = disks[e]
          /\ disks'[Len(disks) + 1] = [card |-> fn0, state |-> st]
      BY <2>3, NewDisk
    <3> QED  BY <2>1, <2>2, <2>3, <3>1 DEF Disks
  <2>4. CASE sddisk' = 0 /\ disks' = disks
    BY <2>2, <2>4 DEF Disks
  <2> QED  BY <1>2, <2>3, <2>4, BlkAttachDisk
<1>3. CASE CardDetach
  <2>1. sddisk' = 0
    BY <1>3, CardDetachDisk
  <2>2. CASE disks' = disks /\ sddisk = 0
    BY <2>1, <2>2 DEF Disks
  <2>3. ASSUME sddisk \in 1 .. Len(disks), NEW st \in DiskStates \ {"live"},
               disks' = [disks EXCEPT ![sddisk].state = st]
        PROVE  Disks'
    <3>1. /\ disks' \in Seq([card : Cards \cup {0}, state : DiskStates])
          /\ Len(disks') = Len(disks)
          /\ \A e \in 1 .. Len(disks) : e # sddisk => disks'[e].state = disks[e].state
          /\ disks'[sddisk].state = st
      BY <2>3, StateChange
    <3> QED  BY <2>1, <2>3, <3>1 DEF Disks
  <2> QED  BY <1>3, <2>2, <2>3, CardDetachDisk
<1>4. CASE CardScan \/ CardDisable
  <2>1. disks' = disks /\ sddisk' = sddisk /\ sddisk = 0
    BY <1>4 DEF CardScan, CardDisable, diskVars, Bound
  <2> QED  BY <2>1 DEF Disks
<1>5. CASE Outside /\ ~(\E d \in 1 .. Len(disks) : DiskDetach(d))
  <2>1. disks' = disks /\ sddisk' = sddisk
    BY <1>5 DEF Outside, SlotStep, InsertCard, RemoveCard, IntrStep, IntrRead, IntrAck, IntrFlag,
       IntrNeeds, EjectFlag, EjectNeeds, Suspend, ResumeInit, ResumeStep, ResumeFound,
       ResumeRead, ResumeFlag, ResumeNeeds,
       ResumeWakeup, SubmitStep, SubmitCheck, SubmitAdd, diskVars
  <2>2. fn0' = fn0
    BY <1>5, OutsideQuiet DEF cardVars
  <2> QED  BY <2>1, <2>2 DEF Disks
<1>6. CASE TaskStep /\ ~(BlkAttach \/ CardDetach \/ CardScan \/ CardDisable)
  <2>1. disks' = disks /\ sddisk' = sddisk /\ fn0' = fn0
    BY <1>6 DEF TaskStep, TaskNeeds, TaskWhile, TaskFor, TaskExit, TaskRestart, DiscoverCard,
       CardEnable, CardInit, ReadCheck, ReadIO, cardVars, diskVars
  <2> QED  BY <2>1 DEF Disks
<1>7. CASE UNCHANGED vars
  BY <1>7 DEF vars, cardVars, diskVars, Disks
<1> QED  BY <1>1, <1>2, <1>3, <1>4, <1>5, <1>6, <1>7, TaskOrOutside

-----------------------------------------------------------------------------
(***************************************************************************)
(* Requests                                                                *)
(***************************************************************************)
RequestTypes ==
    /\ rdisk \in [Reqs -> 0 .. Len(disks)]
    /\ rstate \in [Reqs -> ReqStates]
    /\ touched \in [Reqs -> Cards \cup {0}]
    /\ \A r \in Reqs : rstate[r] # "done" => touched[r] = 0
    /\ \A r \in Reqs : rstate[r] # "new" => rdisk[r] # 0

\* A disk that is live was live before, or is new, and has kept its card.
LEMMA SameRequests ==
    ASSUME Requested, UNCHANGED reqVars, Len(disks') >= Len(disks),
           Len(disks) \in Nat, Len(disks') \in Nat,
           \A d \in 1 .. Len(disks) : /\ disks'[d].card = disks[d].card
                                      /\ disks'[d].state = "live" => disks[d].state = "live"
    PROVE  Requested'
<1>1. rdisk' = rdisk /\ rstate' = rstate /\ touched' = touched
  BY DEF reqVars
<1>2. rdisk \in [Reqs -> 0 .. Len(disks')]
  BY DEF Requested
<1>3. ASSUME NEW r \in Reqs, touched[r] # 0, rdisk[r] # 0, disks'[rdisk[r]].state = "live"
      PROVE  touched[r] = disks'[rdisk[r]].card
  <2>1. rdisk[r] \in 1 .. Len(disks)
    BY <1>3 DEF Requested
  <2> QED  BY <1>3, <2>1 DEF Requested, TransfersOwnCard, Live
<1>4. TransfersOwnCard'
  BY <1>1, <1>3 DEF TransfersOwnCard, Live
<1> QED  BY <1>1, <1>2, <1>4 DEF Requested

LEMMA RequestedStep ==
    ASSUME Requested, Queued, Disks, Bound, Powered, [Next]_vars
    PROVE  Requested'
<1>0. Len(disks) \in Nat
  BY DEF Disks
<1>1. CASE \E d \in 1 .. Len(disks) : DiskDetach(d)
  <2>1. PICK d \in 1 .. Len(disks) : DiskDetach(d)
    BY <1>1
  <2>2. "detached" \in DiskStates /\ disks' = [disks EXCEPT ![d].state = "detached"]
        /\ UNCHANGED reqVars
    BY <2>1 DEF DiskDetach, DiskStates
  <2> QED  BY <1>0, <2>2, StateChange, SameRequests
<1>2. CASE BlkAttach
  <2>1. UNCHANGED reqVars
    BY <1>2 DEF BlkAttach
  <2>2. ASSUME NEW st \in DiskStates, disks' = Append(disks, [card |-> fn0, state |-> st])
        PROVE  Requested'
    <3>1. Len(disks') = Len(disks) + 1 /\ \A e \in 1 .. Len(disks) : disks'[e] = disks[e]
      BY <2>2, NewDisk
    <3> QED  BY <1>0, <2>1, <3>1, SameRequests
  <2>3. CASE disks' = disks
    BY <1>0, <2>1, <2>3, SameRequests
  <2> QED  BY <1>2, <2>2, <2>3, BlkAttachDisk
<1>3. CASE CardDetach
  <2>1. UNCHANGED reqVars
    BY <1>3 DEF CardDetach
  <2>2. CASE disks' = disks
    BY <1>0, <2>1, <2>2, SameRequests
  <2>3. ASSUME sddisk \in 1 .. Len(disks), NEW st \in DiskStates \ {"live"},
               disks' = [disks EXCEPT ![sddisk].state = st]
        PROVE  Requested'
    BY <1>0, <2>1, <2>3, StateChange, SameRequests
  <2> QED  BY <1>3, <2>2, <2>3, CardDetachDisk
<1>4. ASSUME NEW r \in Reqs, NEW d \in 1 .. Len(disks), SubmitCheck(r, d)
      PROVE  Requested'
  <2>1. /\ rstate[r] = "new" /\ disks' = disks /\ touched' = touched
        /\ rdisk' = [rdisk EXCEPT ![r] = d] /\ rstate' = [rstate EXCEPT ![r] = "accepted"]
    BY <1>4 DEF SubmitCheck, diskVars
  <2>2. touched[r] = 0
    BY <2>1 DEF Requested
  <2>3. RequestTypes'
    BY <1>0, <2>1, <2>2 DEF RequestTypes, Requested, ReqStates
  <2>4. TransfersOwnCard'
    BY <2>1, <2>2 DEF Requested, TransfersOwnCard, Live
  <2> QED  BY <2>3, <2>4 DEF Requested, RequestTypes
<1>5. ASSUME NEW r \in Reqs, SubmitAdd(r)
      PROVE  Requested'
  <2>1. /\ rstate[r] = "accepted" /\ disks' = disks /\ touched' = touched /\ rdisk' = rdisk
        /\ rstate' = [rstate EXCEPT ![r] = "queued"]
    BY <1>5 DEF SubmitAdd, diskVars
  <2>2. RequestTypes'
    BY <2>1 DEF RequestTypes, Requested, ReqStates
  <2>3. TransfersOwnCard'
    BY <2>1 DEF Requested, TransfersOwnCard, Live
  <2> QED  BY <2>2, <2>3 DEF Requested, RequestTypes
<1>6. CASE ReadCheck
  <2>1. /\ cur \in Reqs /\ rstate[cur] = "queued"
        /\ disks' = disks /\ touched' = touched /\ rdisk' = rdisk
        /\ rstate' \in {rstate, [rstate EXCEPT ![cur] = "dropped"]}
    BY <1>6 DEF ReadCheck, diskVars, Queued
  <2>2. RequestTypes'
    BY <2>1 DEF RequestTypes, Requested, ReqStates
  <2>3. TransfersOwnCard'
    BY <2>1 DEF Requested, TransfersOwnCard, Live
  <2> QED  BY <2>2, <2>3 DEF Requested, RequestTypes
<1>7. CASE ReadIO
  <2>1. /\ cur \in Reqs /\ rstate[cur] = "queued" /\ tpc = "io"
        /\ disks' = disks /\ rdisk' = rdisk
    BY <1>7 DEF ReadIO, diskVars, Queued
  <2>2. \/ /\ answering # 0 /\ touched' = [touched EXCEPT ![cur] = answering]
           /\ rstate' = [rstate EXCEPT ![cur] = "done"]
        \/ rstate' = [rstate EXCEPT ![cur] = "error"] /\ touched' = touched
    BY <1>7 DEF ReadIO
  <2>3. answering \in Cards \cup {0}
    BY DEF Powered
  <2>4. RequestTypes'
    BY <2>1, <2>2, <2>3 DEF RequestTypes, Requested, ReqStates
  <2>5. ASSUME NEW r \in Reqs, touched'[r] # 0, rdisk[r] # 0, disks[rdisk[r]].state = "live"
        PROVE  touched'[r] = disks[rdisk[r]].card
    <3>1. CASE r # cur \/ touched' = touched
      <4>1. touched'[r] = touched[r]
        BY <2>2, <3>1 DEF Requested
      <4> QED  BY <2>5, <4>1 DEF Requested, TransfersOwnCard, Live
    <3>2. CASE r = cur /\ touched' # touched
      <4>1. touched'[r] = answering /\ answering # 0
        BY <2>1, <2>2, <3>2 DEF Requested
      <4>2. answering = fn0
        BY <2>1, <4>1 DEF Powered
      <4>3. rdisk[r] = sddisk
        BY <2>5 DEF Disks, Requested
      <4> QED  BY <2>5, <4>1, <4>2, <4>3 DEF Disks
    <3> QED  BY <3>1, <3>2
  <2>6. TransfersOwnCard'
    BY <2>1, <2>5 DEF TransfersOwnCard, Live
  <2> QED  BY <2>4, <2>6 DEF Requested, RequestTypes
<1>8. CASE Outside /\ ~SubmitStep /\ ~(\E d \in 1 .. Len(disks) : DiskDetach(d))
  <2>1. disks' = disks /\ UNCHANGED reqVars
    BY <1>8 DEF Outside, SlotStep, InsertCard, RemoveCard, IntrStep, IntrRead, IntrAck, IntrFlag,
       IntrNeeds, EjectFlag, EjectNeeds, Suspend, ResumeInit, ResumeStep, ResumeFound,
       ResumeRead, ResumeFlag, ResumeNeeds,
       ResumeWakeup, diskVars
  <2> QED  BY <1>0, <2>1, SameRequests
<1>9. CASE TaskStep /\ ~(BlkAttach \/ CardDetach \/ ReadCheck \/ ReadIO)
  <2>1. disks' = disks /\ UNCHANGED reqVars
    BY <1>9 DEF TaskStep, TaskNeeds, TaskWhile, TaskFor, TaskExit, TaskRestart, DiscoverCard,
       CardEnable, CardScan, CardInit, CardDisable, diskVars
  <2> QED  BY <1>0, <2>1, SameRequests
<1>10. CASE UNCHANGED vars
  <2>1. disks' = disks /\ UNCHANGED reqVars
    BY <1>10 DEF vars, diskVars
  <2> QED  BY <1>0, <2>1, SameRequests
<1> QED
  BY <1>1, <1>2, <1>3, <1>4, <1>5, <1>6, <1>7, <1>8, <1>9, <1>10, TaskOrOutside DEF SubmitStep

-----------------------------------------------------------------------------
(***************************************************************************)
(* The queue                                                               *)
(***************************************************************************)
Once == \A i, j \in 1 .. Len(queue) : queue[i] = queue[j] => i = j

NoneIs(t) == \A i \in 1 .. Len(queue) : queue[i] # t

LEMMA AppendOnce ==
    ASSUME queue \in Seq(Tasks), Once, NEW t \in Tasks, NoneIs(t), queue' = Append(queue, t)
    PROVE  /\ queue' \in Seq(Tasks) /\ Once'
           /\ \A i \in 1 .. Len(queue') :
                 queue'[i] = t \/ \E j \in 1 .. Len(queue) : queue'[i] = queue[j]
<1>1. /\ queue' \in Seq(Tasks) /\ Len(queue) \in Nat /\ Len(queue') = Len(queue) + 1
      /\ queue'[Len(queue) + 1] = t
      /\ \A i \in 1 .. Len(queue) : queue'[i] = queue[i]
  OBVIOUS
<1>2. ASSUME NEW i \in 1 .. Len(queue') PROVE i \in 1 .. Len(queue) \/ i = Len(queue) + 1
  BY <1>1
<1>3. Once'
  BY <1>1, <1>2 DEF Once, NoneIs
<1> QED  BY <1>1, <1>2, <1>3

LEMMA TailOnce ==
    ASSUME queue \in Seq(Tasks), Once, queue # <<>>, queue' = Tail(queue)
    PROVE  /\ queue' \in Seq(Tasks) /\ Once' /\ Head(queue) \in Tasks
           /\ \A i \in 1 .. Len(queue') :
                 /\ queue'[i] # Head(queue)
                 /\ \E j \in 1 .. Len(queue) : queue'[i] = queue[j]
<1>1. /\ queue' \in Seq(Tasks) /\ Len(queue) \in Nat \ {0} /\ Len(queue') = Len(queue) - 1
      /\ Head(queue) = queue[1] /\ Head(queue) \in Tasks
      /\ \A i \in 1 .. Len(queue') : queue'[i] = queue[i + 1]
  OBVIOUS
<1>2. ASSUME NEW i \in 1 .. Len(queue') PROVE i + 1 \in 1 .. Len(queue) /\ i + 1 # 1
  BY <1>1
<1>3. 1 \in 1 .. Len(queue)
  BY <1>1
<1>4. Once'
  <2> SUFFICES ASSUME NEW i \in 1 .. Len(queue'), NEW j \in 1 .. Len(queue'), queue'[i] = queue'[j]
               PROVE  i = j
    BY DEF Once
  <2>1. i + 1 = j + 1
    BY <1>1, <1>2 DEF Once
  <2> QED  BY <2>1
<1> QED  BY <1>1, <1>2, <1>3, <1>4 DEF Once

\* sdmmc_needs_discover, and the restart of the thread, append what is not there.
LEMMA QueuedAppend ==
    ASSUME Queued, rstate \in [Reqs -> ReqStates],
           queue' = queue \/ (NoneIs(Discover) /\ queue' = Append(queue, Discover)),
           rstate' = rstate, cur' = cur, tpc' \in TaskLabels,
           tpc' \in {"check", "io"} => tpc \in {"check", "io"}
    PROVE  Queued'
<1>1. Discover \in Tasks
  BY DEF Tasks
<1>2. queue \in Seq(Tasks) /\ Once
  BY DEF Queued, Once
<1>3. CASE queue' = queue
  BY <1>3 DEF Queued
<1>4. CASE NoneIs(Discover) /\ queue' = Append(queue, Discover)
  <2>1. /\ queue' \in Seq(Tasks) /\ Once'
        /\ \A i \in 1 .. Len(queue') :
              queue'[i] = Discover \/ \E j \in 1 .. Len(queue) : queue'[i] = queue[j]
    BY <1>1, <1>2, <1>4, AppendOnce
  <2>2. \A r \in Reqs : r # Discover
    BY BusAssumption
  <2> QED  BY <2>1, <2>2 DEF Queued, Once
<1> QED  BY <1>3, <1>4

LEMMA NotQueued == QueuePositions(Discover) = {} => NoneIs(Discover)
BY DEF QueuePositions, NoneIs

LEMMA WakeupLabel ==
    ASSUME tpc \in TaskLabels, Woken
    PROVE  tpc' \in TaskLabels /\ (tpc' \in {"check", "io"} => tpc \in {"check", "io"})
BY DEF Woken, TaskLabels

LEMMA QueuedStep ==
    ASSUME Queued, Requested, [Next]_vars
    PROVE  Queued'
<1>0. rstate \in [Reqs -> ReqStates] /\ tpc \in TaskLabels /\ queue \in Seq(Tasks) /\ Once
  BY DEF Queued, Requested, Once
<1>1. CASE Outside /\ ~SubmitStep
  <2>1. Woken /\ cur' = cur
    BY <1>1, OutsideQuiet
  <2>2. rstate' = rstate
    BY <1>1 DEF Outside, SlotStep, InsertCard, RemoveCard, IntrStep, IntrRead, IntrAck, IntrFlag,
       IntrNeeds, EjectFlag, EjectNeeds, Suspend, ResumeInit, ResumeStep, ResumeFound,
       ResumeRead, ResumeFlag, ResumeNeeds,
       ResumeWakeup, DiskDetach, reqVars
  <2>3. queue' = queue \/ (QueuePositions(Discover) = {} /\ queue' = Append(queue, Discover))
    BY <1>1 DEF Outside, SlotStep, InsertCard, RemoveCard, IntrStep, IntrRead, IntrAck, IntrFlag,
       IntrNeeds, EjectFlag, EjectNeeds, Suspend, ResumeInit, ResumeStep, ResumeFound,
       ResumeRead, ResumeFlag, ResumeNeeds,
       ResumeWakeup, DiskDetach, NeedsDiscover, AddTask
  <2> QED  BY <1>0, <2>1, <2>2, <2>3, NotQueued, WakeupLabel, QueuedAppend
<1>2. ASSUME NEW r \in Reqs, NEW d \in 1 .. Len(disks), SubmitCheck(r, d)
      PROVE  Queued'
  <2>1. /\ rstate[r] = "new" /\ rstate' = [rstate EXCEPT ![r] = "accepted"]
        /\ queue' = queue /\ tpc' = tpc /\ cur' = cur
    BY <1>2 DEF SubmitCheck
  <2>2. \A x \in Reqs : rstate[x] = "queued" => rstate'[x] = "queued"
    BY <1>0, <2>1
  <2>3. \A i \in 1 .. Len(queue) : queue[i] # Discover => queue[i] \in Reqs
    BY <1>0 DEF Tasks
  <2> QED  BY <2>1, <2>2, <2>3 DEF Queued
<1>3. ASSUME NEW r \in Reqs, SubmitAdd(r)
      PROVE  Queued'
  <2>1. /\ rstate[r] = "accepted" /\ rstate' = [rstate EXCEPT ![r] = "queued"]
        /\ queue' = Append(queue, r) /\ Woken /\ cur' = cur
    BY <1>3 DEF SubmitAdd, AddTask, Wakeup, Woken
  <2>2. \A x \in Reqs : rstate[x] = "queued" => rstate'[x] = "queued"
    BY <1>0, <2>1
  <2>3. rstate'[r] = "queued" /\ r \in Tasks /\ r # Discover
    BY <1>0, <2>1, BusAssumption DEF Tasks
  <2>4. \A i \in 1 .. Len(queue) : queue[i] # Discover => queue[i] \in Reqs
    BY <1>0 DEF Tasks
  <2>5. NoneIs(r)
    BY <2>1, <2>3 DEF NoneIs, Queued
  <2>6. /\ queue' \in Seq(Tasks) /\ Once'
        /\ \A i \in 1 .. Len(queue') :
              queue'[i] = r \/ \E j \in 1 .. Len(queue) : queue'[i] = queue[j]
    BY <1>0, <2>1, <2>3, <2>5, AppendOnce
  <2>7. tpc' \in TaskLabels /\ (tpc' \in {"check", "io"} => tpc \in {"check", "io"})
    BY <1>0, <2>1, WakeupLabel
  <2>8. \A i \in 1 .. Len(queue') : queue'[i] # Discover => rstate'[queue'[i]] = "queued"
    BY <2>2, <2>3, <2>4, <2>6 DEF Queued
  <2>9. ASSUME tpc' \in {"check", "io"}
        PROVE  /\ cur \in Reqs /\ rstate'[cur] = "queued"
               /\ \A i \in 1 .. Len(queue') : queue'[i] # cur
    <3>1. /\ cur \in Reqs /\ rstate[cur] = "queued"
          /\ \A i \in 1 .. Len(queue) : queue[i] # cur
      BY <2>7, <2>9 DEF Queued
    <3>2. cur # r
      BY <2>1, <3>1
    <3> QED  BY <2>2, <2>6, <3>1, <3>2
  <2>10. cur' \in Tasks \cup {"none"}
    BY <2>1 DEF Queued
  <2> QED  BY <2>1, <2>6, <2>7, <2>8, <2>9, <2>10 DEF Queued, Once
<1>4. CASE TaskNeeds
  <2>1. /\ rstate' = rstate /\ cur' = cur /\ tpc' = "while"
        /\ queue' = queue \/ (QueuePositions(Discover) = {} /\ queue' = Append(queue, Discover))
    BY <1>4 DEF TaskNeeds, reqVars
  <2> QED  BY <1>0, <2>1, NotQueued, QueuedAppend DEF TaskLabels
<1>5. CASE TaskFor
  <2>1. rstate' = rstate
    BY <1>5 DEF TaskFor, reqVars
  <2>2. CASE queue = <<>>
    <3>1. queue' = queue /\ tpc' = "asleep" /\ cur' = "none"
      BY <1>5, <2>2 DEF TaskFor
    <3> QED  BY <2>1, <3>1 DEF Queued, TaskLabels
  <2>3. CASE queue # <<>>
    <3>1. queue' = Tail(queue) /\ cur' = Head(queue)
          /\ tpc' = IF Head(queue) = Discover THEN "discover" ELSE "check"
      BY <1>5, <2>3 DEF TaskFor
    <3>2. /\ queue' \in Seq(Tasks) /\ Once' /\ Head(queue) \in Tasks
          /\ \A i \in 1 .. Len(queue') :
                /\ queue'[i] # Head(queue)
                /\ \E j \in 1 .. Len(queue) : queue'[i] = queue[j]
      BY <1>0, <2>3, <3>1, TailOnce
    <3>3. \A i \in 1 .. Len(queue') : queue'[i] # Discover => rstate'[queue'[i]] = "queued"
      BY <2>1, <3>2 DEF Queued
    <3>4. tpc' = "check" => cur' \in Reqs /\ rstate'[cur'] = "queued"
      <4>1. 1 \in 1 .. Len(queue) /\ Head(queue) = queue[1]
        BY <1>0, <2>3
      <4> QED  BY <2>1, <3>1, <3>2, <4>1 DEF Queued, Tasks
    <3>5. tpc' \in {"discover", "check"} /\ tpc' \in TaskLabels
      BY <3>1 DEF TaskLabels
    <3> QED  BY <3>1, <3>2, <3>3, <3>4, <3>5 DEF Queued, Once
  <2> QED  BY <2>2, <2>3
<1>6. CASE ReadCheck \/ ReadIO
  <2>1. /\ tpc \in {"check", "io"} /\ queue' = queue /\ cur' = cur /\ tpc' \in {"for", "io"}
        /\ tpc' = "io" => rstate' = rstate
        /\ \A x \in Reqs : x # cur => rstate'[x] = rstate[x]
    BY <1>0, <1>6 DEF ReadCheck, ReadIO
  <2>2. cur \in Reqs /\ rstate[cur] = "queued" /\ \A i \in 1 .. Len(queue) : queue[i] # cur
    BY <2>1 DEF Queued
  <2>3. \A i \in 1 .. Len(queue) : queue[i] # Discover => queue[i] \in Reqs
    BY <1>0 DEF Tasks
  <2>4. \A i \in 1 .. Len(queue) : queue[i] # Discover => rstate'[queue[i]] = "queued"
    BY <2>1, <2>2, <2>3 DEF Queued
  <2>5. tpc' \in TaskLabels
    BY <2>1 DEF TaskLabels
  <2> QED  BY <2>1, <2>2, <2>4, <2>5 DEF Queued
<1>7. CASE TaskStep /\ ~(TaskNeeds \/ TaskFor \/ ReadCheck \/ ReadIO)
  <2>1. /\ queue' = queue /\ rstate' = rstate /\ cur' \in {cur, "none"}
        /\ tpc' \in TaskLabels /\ tpc' \notin {"check", "io"}
    BY <1>7 DEF TaskStep, TaskWhile, TaskExit, TaskRestart, DiscoverCard, CardEnable, CardScan,
       CardInit, BlkAttach, CardDetach, CardDisable, reqVars, TaskLabels, AttachLabels
  <2> QED  BY <2>1 DEF Queued
<1>8. CASE UNCHANGED vars
  BY <1>8 DEF vars, reqVars, Queued
<1> QED
  BY <1>1, <1>2, <1>3, <1>4, <1>5, <1>6, <1>7, <1>8, TaskOrOutside DEF SubmitStep

-----------------------------------------------------------------------------
(***************************************************************************)
(* The theorems                                                            *)
(***************************************************************************)
LEMMA InitIInv == Init => IInv
<1>1. Init => ThreadTypes
  <2>1. 0 \in 0 .. MaxEjects /\ 0 \in 0 .. MaxSuspends /\ 0 \in 0 .. MaxCards
    BY BusAssumption
  <2>2. ASSUME slot \in {0, 1} \cap (Cards \cup {0}) PROVE slot \in Cards \cup {0} /\ slot \in 0 .. MaxCards
    BY <2>2, BusAssumption DEF Cards
  <2> QED  BY <2>1, <2>2 DEF Init, ThreadTypes
<1>2. Init => Queued
  BY DEF Init, Queued, TaskLabels
<1>3. Init => Bound
  BY DEF Init, Bound
<1>4. Init => Disks /\ Powered
  BY DEF Init, Disks, Powered
<1>5. Init => Requested
  BY DEF Init, Requested, ReqStates, TransfersOwnCard
<1> QED  BY <1>1, <1>2, <1>3, <1>4, <1>5 DEF IInv

LEMMA StepIInv == IInv /\ [Next]_vars => IInv'
BY ThreadTypesStep, QueuedStep, BoundStep, DisksStep, PoweredStep, RequestedStep DEF IInv

LEMMA Inductive == Spec => []IInv
BY InitIInv, StepIInv, PTL DEF Spec

LEMMA QueuedOnce ==
    ASSUME Queued, NEW t \in Tasks
    PROVE  Cardinality(QueuePositions(t)) <= 1
<1>1. CASE QueuePositions(t) = {}
  BY <1>1, FS_EmptySet
<1>2. CASE QueuePositions(t) # {}
  <2>1. PICK i \in QueuePositions(t) : TRUE
    BY <1>2
  <2>2. QueuePositions(t) = {i}
    BY <2>1 DEF QueuePositions, Queued
  <2> QED  BY <2>2, FS_Singleton
<1> QED  BY <1>1, <1>2

LEMMA Typed == IInv => TypeOK
<1> SUFFICES ASSUME IInv PROVE TypeOK
  OBVIOUS
<1>1. \A t \in Tasks : Cardinality(QueuePositions(t)) <= 1
  BY QueuedOnce DEF IInv
<1> QED  BY <1>1 DEF IInv, ThreadTypes, Queued, Bound, Disks, Powered, Requested, TypeOK

\* Every variable has its type, the queue holds a task once, and the task thread is
\* at one of its labels, for any number of cards, ejects, suspends and requests.
THEOREM TypeCorrect == Spec => []TypeOK
BY Typed, Inductive, PTL

\* At any time there is at most one live disk, sddisk_, and blk_attach finds that
\* pointer NULL, for any number of cards, ejects, suspends and requests.
THEOREM OneDisk == Spec => []SingleDisk
<1>1. IInv => SingleDisk
  BY DEF IInv, Disks, Bound, SingleDisk
<1> QED  BY <1>1, Inductive, PTL

\* A disk is kept only for the function of the attached card, and that card, with or
\* without a disk, is one that a suspend will detach, wherever the task thread is not
\* in the middle of an attach or a detach: also if blk_attach fails in any way.
THEOREM DiskAndCard == Spec => []DiskMatchesCard
<1>1. IInv => DiskMatchesCard
  BY Typed DEF IInv, Bound, Disks, DiskMatchesCard, AttachLabels
<1> QED  BY <1>1, Inductive, PTL

\* A request of a live disk has transferred data with no card but the one that its
\* disk was made for, for any number of swaps, ejects and suspends.
THEOREM OwnCard == Spec => []TransfersOwnCard
<1>1. IInv => TransfersOwnCard
  BY DEF IInv, Requested
<1> QED  BY <1>1, Inductive, PTL
=============================================================================
