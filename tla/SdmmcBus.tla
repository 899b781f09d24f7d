------------------------------ MODULE SdmmcBus ------------------------------
(***************************************************************************)
(* The life of a card and of its disk: card slot, interrupt thread         *)
(* (rtsx_intr), eject by a storage client, suspend and resume, discovery   *)
(* (sdmmc_discover_task, sdmmc_card_attach, sdmmc_card_detach), the block  *)
(* device nub (Sinetek_rtsx::blk_attach, blk_detach, SDDisk) and its       *)
(* queued requests (doAsyncReadWrite, read_task_impl_).                    *)
(*                                                                         *)
(* The task queue is a sequence here: SdmmcTasks shows that the pointers   *)
(* behave like one as long as no two sdmmc_needs_discover overlap, and     *)
(* that call is one step here.  Only the task thread touches the flags,    *)
(* the functions and the disk pointer; the other threads touch the queue,  *)
(* RTSX_F_CARD_PRESENT and sc_dying, between any two steps.  stop() is     *)
(* left to SdmmcTasks.                                                     *)
(***************************************************************************)
EXTENDS Integers, Sequences, FiniteSets

CONSTANTS
    Reqs,         \* requests of the storage clients
    Discover,     \* sc_discover_task
    MaxCards,     \* bound: cards put into the slot, numbered from 1
    MaxEjects,    \* bound: calls of doEjectMedia
    MaxSuspends   \* bound: suspend/resume cycles

ASSUME BusAssumption ==
    /\ Discover \notin Reqs
    /\ MaxCards \in Nat /\ MaxEjects \in Nat /\ MaxSuspends \in Nat

VARIABLES
    (* the slot: 0 is "no card" *)
    slot, inserted,
    sdInt,        \* RTSX_SD_INT pending in RTSX_BIPR
    answering,    \* the card that has been powered up and given an address
    (* struct rtsx_softc, the interrupt, eject and power threads *)
    cardPresent,  \* RTSX_F_CARD_PRESENT
    ipc, exist,   \* rtsx_intr: place, RTSX_SD_EXIST as it was read (FALSE when idle)
    epc, ejects,
    ppc, suspends,
    (* struct sdmmc_softc and the task thread *)
    dying, queue, tpc, cur,
    present,      \* SMF_CARD_PRESENT
    attached,     \* SMF_CARD_ATTACHED
    fn0,          \* the card that sc_fn0 was allocated for, 0 for NULL
    fnError,      \* SFF_ERROR
    (* the disks ever attached, and sddisk_ (0 for NULL) *)
    disks, sddisk,
    (* requests *)
    rdisk, rstate,
    touched,      \* the card that a request has transferred data with
    eventLost     \* history: a card event went by that no handler has seen

slotVars == <<slot, inserted, sdInt, eventLost>>
intrVars == <<ipc, exist>>
ejectVars == <<epc, ejects>>
pmVars   == <<ppc, suspends>>
cardVars == <<present, attached, fn0, fnError>>
diskVars == <<disks, sddisk>>
reqVars  == <<rdisk, rstate, touched>>
vars == <<slotVars, answering, cardPresent, intrVars, ejectVars, pmVars, dying,
          queue, tpc, cur, cardVars, diskVars, reqVars>>

Cards == 1 .. MaxCards
Tasks == Reqs \cup {Discover}
DiskStates == {"live", "terminated", "detached", "freed"}
ResumeLabels == {"found", "read", "insert", "eject", "needs", "wake"}
ReqStates == {"new", "accepted", "queued", "done", "error", "dropped"}
AttachLabels == {"enable", "scan", "init", "blkattach", "detach", "disable"}
TaskLabels == AttachLabels \cup
    {"needs", "while", "for", "asleep", "discover", "check", "io", "exit", "restart"}

QueuePositions(t) == {i \in 1 .. Len(queue) : queue[i] = t}

\* A task is on the queue at most once.
TypeOK ==
    /\ slot \in Cards \cup {0} /\ inserted \in 0 .. MaxCards /\ sdInt \in BOOLEAN
    /\ answering \in Cards \cup {0}
    /\ cardPresent \in BOOLEAN
    /\ ipc \in {"idle", "ack", "insert", "eject", "needs"} /\ exist \in BOOLEAN
    /\ epc \in {"idle", "needs"} /\ ejects \in 0 .. MaxEjects
    /\ ppc \in {"on", "off"} \cup ResumeLabels /\ suspends \in 0 .. MaxSuspends
    /\ dying \in {-1, 0}
    /\ queue \in Seq(Tasks) /\ \A t \in Tasks : Cardinality(QueuePositions(t)) <= 1
    /\ tpc \in TaskLabels /\ cur \in Tasks \cup {"none"}
    /\ present \in BOOLEAN /\ attached \in BOOLEAN
    /\ fn0 \in Cards \cup {0} /\ fnError \in BOOLEAN
    /\ disks \in Seq([card : Cards \cup {0}, state : DiskStates])
    /\ sddisk \in 0 .. Len(disks)
    /\ rdisk \in [Reqs -> 0 .. Len(disks)]
    /\ rstate \in [Reqs -> ReqStates]
    /\ touched \in [Reqs -> Cards \cup {0}]
    /\ eventLost \in BOOLEAN

\* sdmmc_attach has run; rtsx_init has noted a card that is in the slot.
Init ==
    /\ slot \in {0, 1} \cap (Cards \cup {0})
    /\ inserted = slot
    /\ sdInt = FALSE
    /\ answering = 0
    /\ cardPresent = (slot # 0)
    /\ ipc = "idle" /\ exist = FALSE
    /\ epc = "idle" /\ ejects = 0
    /\ ppc = "on" /\ suspends = 0
    /\ dying = 0
    /\ queue = <<>> /\ tpc = "needs" /\ cur = "none"
    /\ present = FALSE /\ attached = FALSE
    /\ fn0 = 0 /\ fnError = FALSE
    /\ disks = <<>> /\ sddisk = 0
    /\ rdisk = [r \in Reqs |-> 0]
    /\ rstate = [r \in Reqs |-> "new"]
    /\ touched = [r \in Reqs |-> 0]
    /\ eventLost = FALSE

-----------------------------------------------------------------------------
(***************************************************************************)
(* The card slot                                                           *)
(***************************************************************************)
InsertCard ==
    /\ slot = 0
    /\ inserted < MaxCards
    /\ inserted' = inserted + 1
    /\ slot' = inserted + 1
    /\ sdInt' = TRUE
    /\ UNCHANGED <<eventLost, answering, cardPresent, intrVars, ejectVars, pmVars, dying,
                   queue, tpc, cur, cardVars, diskVars, reqVars>>

RemoveCard ==
    /\ slot # 0
    /\ slot' = 0
    /\ answering' = 0
    /\ sdInt' = TRUE
    /\ UNCHANGED <<eventLost, inserted, cardPresent, intrVars, ejectVars, pmVars, dying,
                   queue, tpc, cur, cardVars, diskVars, reqVars>>

-----------------------------------------------------------------------------
(***************************************************************************)
(* sdmmc_add_task and sdmmc_needs_discover                                 *)
(***************************************************************************)
Wakeup == tpc' = IF tpc = "asleep" THEN "while" ELSE tpc

AddTask(t) == queue' = Append(queue, t) /\ Wakeup

\* Mutant of NeedsDiscover: a discovery that is under way is taken for one that
\* is queued (sdmmc_del_task after the function).
NeedsDiscoverNotWhileRunning ==
    IF QueuePositions(Discover) # {} \/ cur = Discover
    THEN UNCHANGED <<queue, tpc>>
    ELSE AddTask(Discover)

NeedsDiscover ==
    IF QueuePositions(Discover) # {}
    THEN UNCHANGED <<queue, tpc>>
    ELSE AddTask(Discover)

(***************************************************************************)
(* rtsx_intr: RTSX_BIPR is read, then acknowledged by writing it back; the *)
(* slot may change between the two, and the event is lost then.            *)
(***************************************************************************)
IntrRead ==
    /\ ipc = "idle"
    /\ sdInt
    /\ exist' = (slot # 0)
    /\ ipc' = "ack"
    /\ UNCHANGED <<slotVars, answering, cardPresent, ejectVars, pmVars, dying,
                   queue, tpc, cur, cardVars, diskVars, reqVars>>

\* Mutant of IntrAck: a removal is acknowledged and nothing else
IntrAckNoEject ==
    /\ ipc = "ack"
    /\ sdInt' = FALSE
    /\ eventLost' = (eventLost \/ exist # (slot # 0))
    /\ ipc' = IF exist /\ ~cardPresent THEN "insert" ELSE "idle"
    /\ exist' = FALSE
    /\ UNCHANGED <<slot, inserted, answering, cardPresent, ejectVars, pmVars,
                   dying, queue, tpc, cur, cardVars, diskVars, reqVars>>

IntrAck ==
    /\ ipc = "ack"
    /\ sdInt' = FALSE
    /\ eventLost' = (eventLost \/ exist # (slot # 0))
    /\ ipc' = IF ~exist THEN "eject" ELSE IF cardPresent THEN "idle" ELSE "insert"
    /\ exist' = FALSE
    /\ UNCHANGED <<slot, inserted, answering, cardPresent, ejectVars, pmVars,
                   dying, queue, tpc, cur, cardVars, diskVars, reqVars>>

\* rtsx_card_insert or rtsx_card_eject: the flag, then the discovery
IntrFlag ==
    /\ ipc \in {"insert", "eject"}
    /\ cardPresent' = (ipc = "insert")
    /\ ipc' = "needs"
    /\ UNCHANGED <<slotVars, answering, exist, ejectVars, pmVars, dying,
                   queue, tpc, cur, cardVars, diskVars, reqVars>>

IntrNeeds ==
    /\ ipc = "needs"
    /\ NeedsDiscover
    /\ ipc' = "idle"
    /\ UNCHANGED <<slotVars, answering, cardPresent, exist, ejectVars, pmVars,
                   dying, cur, cardVars, diskVars, reqVars>>

\* doEjectMedia of a disk whose provider_ is set: rtsx_card_eject
EjectFlag ==
    /\ epc = "idle"
    /\ ejects < MaxEjects
    /\ \E d \in 1 .. Len(disks) : disks[d].state \in {"live", "terminated"}
    /\ ejects' = ejects + 1
    /\ cardPresent' = FALSE
    /\ epc' = "needs"
    /\ UNCHANGED <<slotVars, answering, intrVars, pmVars, dying,
                   queue, tpc, cur, cardVars, diskVars, reqVars>>

EjectNeeds ==
    /\ epc = "needs"
    /\ NeedsDiscover
    /\ epc' = "idle"
    /\ UNCHANGED <<slotVars, answering, cardPresent, intrVars, ejects, pmVars,
                   dying, cur, cardVars, diskVars, reqVars>>

-----------------------------------------------------------------------------
(***************************************************************************)
(* setPowerState: sleep, and wake.  Each reading of the slot (RTSX_BIPR)   *)
(* is one step and the flag set from it another: rtsx_intr may handle a    *)
(* whole card event in between.                                            *)
(***************************************************************************)
Suspend ==
    /\ ppc = "on"
    /\ suspends < MaxSuspends
    /\ suspends' = suspends + 1
    /\ dying' = IF present THEN -1 ELSE dying
    /\ ppc' = "off"
    /\ UNCHANGED <<slotVars, answering, cardPresent, intrVars, ejectVars,
                   queue, tpc, cur, cardVars, diskVars, reqVars>>

\* rtsx_init(sc, 1), whose result is ignored: the card has lost its power; what is
\* pending is cleared, and the slot looked at, unless a register fails before that.
\* A handler that is between its read and its flag will set an old value later.
ResumeInit ==
    /\ ppc = "off"
    /\ answering' = 0
    /\ \/ /\ sdInt' = FALSE
          /\ eventLost' = (eventLost \/ ipc # "idle")
          /\ ppc' = IF slot # 0 THEN "found" ELSE "read"
       \/ UNCHANGED <<sdInt, eventLost>> /\ ppc' = "read"
    /\ UNCHANGED <<slot, inserted, cardPresent, intrVars, ejectVars, suspends, dying,
                   queue, tpc, cur, cardVars, diskVars, reqVars>>

\* ... the flag of a card that it has found
ResumeFound ==
    /\ ppc = "found"
    /\ cardPresent' = TRUE
    /\ ppc' = "read"
    /\ UNCHANGED <<slotVars, answering, intrVars, ejectVars, suspends, dying,
                   queue, tpc, cur, cardVars, diskVars, reqVars>>

\* rtsx_activate(DVACT_RESUME): is there a card?
ResumeRead ==
    /\ ppc = "read"
    /\ ppc' = IF slot # 0 THEN "insert" ELSE "eject"
    /\ UNCHANGED <<slotVars, answering, cardPresent, intrVars, ejectVars, suspends, dying,
                   queue, tpc, cur, cardVars, diskVars, reqVars>>

\* rtsx_card_insert or rtsx_card_eject: an old reading is set for good if the
\* handler has set its own, newer one, before.
ResumeFlag ==
    /\ ppc \in {"insert", "eject"}
    /\ cardPresent' = (ppc = "insert")
    /\ LET old == (ppc = "insert") # (slot # 0)
       IN  eventLost' = (eventLost \/ (old /\ ~sdInt /\ ipc \in {"idle", "needs"}))
    /\ ppc' = "needs"
    /\ UNCHANGED <<slot, inserted, sdInt, answering, intrVars, ejectVars, suspends, dying,
                   queue, tpc, cur, cardVars, diskVars, reqVars>>

ResumeNeeds ==
    /\ ppc = "needs"
    /\ NeedsDiscover
    /\ ppc' = "wake"
    /\ UNCHANGED <<slotVars, answering, cardPresent, intrVars, ejectVars, suspends,
                   dying, cur, cardVars, diskVars, reqVars>>

ResumeWakeup ==
    /\ ppc = "wake"
    /\ Wakeup
    /\ ppc' = "on"
    /\ UNCHANGED <<slotVars, answering, cardPresent, intrVars, ejectVars, suspends,
                   dying, queue, cur, cardVars, diskVars, reqVars>>

-----------------------------------------------------------------------------
(***************************************************************************)
(* Storage clients: doAsyncReadWrite refuses a terminated disk, and queues *)
(* the request in a later step.  IOKit finalises a terminated disk         *)
(* (SDDisk::detach sets provider_ to NULL) at some later time.             *)
(***************************************************************************)
SubmitCheck(r, d) ==
    /\ rstate[r] = "new"
    /\ disks[d].state = "live"
    /\ rdisk' = [rdisk EXCEPT ![r] = d]
    /\ rstate' = [rstate EXCEPT ![r] = "accepted"]
    /\ UNCHANGED <<slotVars, answering, cardPresent, intrVars, ejectVars, pmVars,
                   dying, queue, tpc, cur, cardVars, diskVars, touched>>

SubmitAdd(r) ==
    /\ rstate[r] = "accepted"
    /\ AddTask(r)
    /\ rstate' = [rstate EXCEPT ![r] = "queued"]
    /\ UNCHANGED <<slotVars, answering, cardPresent, intrVars, ejectVars, pmVars,
                   dying, cur, cardVars, diskVars, rdisk, touched>>

DiskDetach(d) ==
    /\ disks[d].state = "terminated"
    /\ disks' = [disks EXCEPT ![d].state = "detached"]
    /\ UNCHANGED <<slotVars, answering, cardPresent, intrVars, ejectVars, pmVars,
                   dying, queue, tpc, cur, cardVars, sddisk, reqVars>>

-----------------------------------------------------------------------------
(***************************************************************************)
(* sdmmc_task_thread                                                       *)
(***************************************************************************)
threads == <<cardPresent, intrVars, ejectVars, pmVars>>
others  == <<slotVars, threads>>

TaskNeeds ==
    /\ tpc = "needs"
    /\ queue' = IF QueuePositions(Discover) # {} THEN queue ELSE Append(queue, Discover)
    /\ tpc' = "while"
    /\ UNCHANGED <<others, answering, dying, cur, cardVars, diskVars, reqVars>>

TaskWhile ==
    /\ tpc = "while"
    /\ tpc' = IF dying = 0 THEN "for" ELSE "exit"
    /\ UNCHANGED <<others, answering, dying, queue, cur, cardVars, diskVars, reqVars>>

\* the head of the queue, or the sleep
TaskFor ==
    /\ tpc = "for"
    /\ IF queue = <<>>
       THEN tpc' = "asleep" /\ cur' = "none" /\ UNCHANGED queue
       ELSE /\ cur' = Head(queue)
            /\ queue' = Tail(queue)
            /\ tpc' = IF Head(queue) = Discover THEN "discover" ELSE "check"
    /\ UNCHANGED <<others, answering, dying, cardVars, diskVars, reqVars>>

\* Mutant of TaskExit: the card is left attached over a suspend
TaskExitKeepsCard ==
    /\ tpc = "exit"
    /\ cur' = "none"
    /\ tpc' = "restart"
    /\ UNCHANGED <<others, answering, dying, queue, cardVars, diskVars, reqVars>>

\* the end of the while loop: the card is detached if one was noticed
TaskExit ==
    /\ tpc = "exit"
    /\ cur' = "none"
    /\ tpc' = IF present THEN "detach" ELSE "restart"
    /\ UNCHANGED <<others, answering, dying, queue, cardVars, diskVars, reqVars>>

TaskRestart ==
    /\ tpc = "restart"
    /\ present' = FALSE
    /\ dying' = 0
    /\ tpc' = "needs"
    /\ UNCHANGED <<others, answering, queue, cur, attached, fn0, fnError,
                   diskVars, reqVars>>

(***************************************************************************)
(* sdmmc_discover_task                                                     *)
(***************************************************************************)
DiscoverCard ==
    /\ tpc = "discover"
    /\ present' = cardPresent
    /\ tpc' = IF cardPresent = present THEN "for"
              ELSE IF cardPresent THEN "enable" ELSE "detach"
    /\ attached' = (attached /\ ~(cardPresent /\ ~present))
    /\ UNCHANGED <<others, answering, dying, queue, cur, fn0, fnError,
                   diskVars, reqVars>>

\* A card answers if it is in the slot and rtsx_wait_intr, which looks at
\* RTSX_F_CARD_PRESENT, does not give up; even then a command may fail.
Responds == slot # 0 /\ cardPresent

\* rtsx_bus_power(0) ends in rtsx_host_reset, unless the power cannot be cut:
\* rtsx_init clears what is pending in RTSX_BIPR, whatever it is.
PowerOffClears ==
    /\ sdInt' \in {sdInt, FALSE}
    /\ eventLost' = (eventLost \/ sdInt' # sdInt)
    /\ UNCHANGED <<slot, inserted>>

\* sdmmc_enable: bus power and clock, sdmmc_mem_enable; off again on an error
CardEnable ==
    /\ tpc = "enable"
    /\ \/ /\ Responds
          /\ answering' = slot
          /\ tpc' = "scan"
          /\ UNCHANGED slotVars
       \/ /\ PowerOffClears
          /\ answering' = 0
          /\ tpc' = "detach"
    /\ UNCHANGED <<threads, dying, queue, cur, cardVars, diskVars, reqVars>>

\* sdmmc_scan: no function, a function whose CSD could not be read, or a good
\* one; sc_fn0 is set only if it is NULL
CardScan ==
    /\ tpc = "scan"
    /\ \/ /\ answering # 0 /\ Responds
          /\ fn0' = IF fn0 = 0 THEN answering ELSE fn0
          /\ fnError' \in BOOLEAN
          /\ tpc' = "init"
       \/ /\ tpc' = "detach"
          /\ UNCHANGED <<fn0, fnError>>
    /\ UNCHANGED <<others, answering, dying, queue, cur, present, attached,
                   diskVars, reqVars>>

\* sdmmc_init fails only if its function is marked SFF_ERROR, by the scan or
\* for an EXT_CSD that cannot be read; any other failure is printed, not kept.
CardInit ==
    /\ tpc = "init"
    /\ fnError' \in {fnError, TRUE}
    /\ tpc' = IF fnError' THEN "detach" ELSE "blkattach"
    /\ UNCHANGED <<others, answering, dying, queue, cur, present, attached, fn0,
                   diskVars, reqVars>>

\* sdmmc_scsi_attach: blk_attach makes a new SDDisk, which copies the capacity
\* of sc_fn0 and is registered with the system.  No memory: sddisk_ stays NULL.
\* The result of SDDisk::attach is ignored: if it fails, the release frees the
\* object that sddisk_ points to.  SMF_CARD_ATTACHED is set in any case.
BlkAttach ==
    /\ tpc = "blkattach"
    /\ \/ \E st \in {"live", "freed"} :
             /\ disks' = Append(disks, [card |-> fn0, state |-> st])
             /\ sddisk' = Len(disks) + 1
       \/ sddisk' = 0 /\ UNCHANGED disks
    /\ attached' = TRUE
    /\ tpc' = "for"
    /\ UNCHANGED <<others, answering, dying, queue, cur, present, fn0, fnError,
                   reqVars>>

\* Mutant of CardDetach: the disk is forgotten and not terminated
CardDetachForgetsDisk ==
    /\ tpc = "detach"
    /\ sddisk' = 0
    /\ attached' = FALSE
    /\ tpc' = "disable"
    /\ UNCHANGED <<others, answering, dying, queue, cur, present, fn0, fnError,
                   disks, reqVars>>

\* sdmmc_card_detach: blk_detach of what is attached, which does nothing if
\* sddisk_ is NULL.  An object that was freed is forgotten (terminate() is called
\* on freed memory: what that may damage is not modelled) ...
CardDetach ==
    /\ tpc = "detach"
    /\ IF attached /\ sddisk # 0
       THEN /\ disks' = [disks EXCEPT ![sddisk].state =
                            IF @ = "live" THEN "terminated" ELSE "detached"]
            /\ sddisk' = 0
       ELSE UNCHANGED diskVars
    /\ attached' = FALSE
    /\ tpc' = "disable"
    /\ UNCHANGED <<others, answering, dying, queue, cur, present, fn0, fnError,
                   reqVars>>

\* Mutant of CardDisable: sc_fn0 is not cleared
CardDisableKeepsFn0 ==
    /\ tpc = "disable"
    /\ PowerOffClears
    /\ answering' = 0
    /\ fnError' = FALSE
    /\ tpc' = IF cur = Discover THEN "for" ELSE "restart"
    /\ UNCHANGED <<threads, dying, queue, cur, present, attached, fn0, diskVars, reqVars>>

\* ... power off, and the functions are freed
CardDisable ==
    /\ tpc = "disable"
    /\ PowerOffClears
    /\ answering' = 0
    /\ fn0' = 0
    /\ fnError' = FALSE
    /\ tpc' = IF cur = Discover THEN "for" ELSE "restart"
    /\ UNCHANGED <<threads, dying, queue, cur, present, attached, diskVars, reqVars>>

(***************************************************************************)
(* read_task_impl_: the early returns call no completion.                  *)
(***************************************************************************)
ReadCheck ==
    /\ tpc = "check"
    /\ IF disks[rdisk[cur]].state = "detached" \/ fn0 = 0
       THEN /\ rstate' = [rstate EXCEPT ![cur] = "dropped"]
            /\ tpc' = "for"
       ELSE tpc' = "io" /\ UNCHANGED rstate
    /\ UNCHANGED <<others, answering, dying, queue, cur, cardVars, diskVars, rdisk, touched>>

\* Mutant of ReadIO: the completion is called only on success
ReadIOForgetsErrors ==
    /\ tpc = "io"
    /\ \/ /\ answering # 0 /\ Responds
          /\ touched' = [touched EXCEPT ![cur] = answering]
          /\ rstate' = [rstate EXCEPT ![cur] = "done"]
       \/ rstate' = [rstate EXCEPT ![cur] = "dropped"] /\ UNCHANGED touched
    /\ tpc' = "for"
    /\ UNCHANGED <<others, answering, dying, queue, cur, cardVars, diskVars, rdisk>>

\* the transfers, on whatever card answers to sc_fn0, and the completion
ReadIO ==
    /\ tpc = "io"
    /\ \/ /\ answering # 0 /\ Responds
          /\ touched' = [touched EXCEPT ![cur] = answering]
          /\ rstate' = [rstate EXCEPT ![cur] = "done"]
       \/ rstate' = [rstate EXCEPT ![cur] = "error"] /\ UNCHANGED touched
    /\ tpc' = "for"
    /\ UNCHANGED <<others, answering, dying, queue, cur, cardVars, diskVars, rdisk>>

-----------------------------------------------------------------------------
SlotStep == InsertCard \/ RemoveCard
IntrStep == IntrRead \/ IntrAck \/ IntrFlag \/ IntrNeeds
ResumeStep == ResumeFound \/ ResumeRead \/ ResumeFlag \/ ResumeNeeds \/ ResumeWakeup
TaskStep == \/ TaskNeeds \/ TaskWhile \/ TaskFor \/ TaskExit \/ TaskRestart
            \/ DiscoverCard \/ CardEnable \/ CardScan \/ CardInit \/ BlkAttach
            \/ CardDetach \/ CardDisable \/ ReadCheck \/ ReadIO

Next ==
    \/ SlotStep
    \/ IntrStep
    \/ EjectFlag \/ EjectNeeds
    \/ Suspend \/ ResumeInit \/ ResumeStep
    \/ \E r \in Reqs : \/ \E d \in 1 .. Len(disks) : SubmitCheck(r, d)
                       \/ SubmitAdd(r)
    \/ \E d \in 1 .. Len(disks) : DiskDetach(d)
    \/ TaskStep

Spec == Init /\ [][Next]_vars

(***************************************************************************)
(* The scheduler runs the driver's threads; nothing makes a user insert,   *)
(* remove or eject a card, submit I/O, suspend the machine or wake it.     *)
(***************************************************************************)
FairSpec ==
    /\ Spec
    /\ WF_vars(IntrStep)
    /\ WF_vars(EjectNeeds)
    /\ WF_vars(ResumeStep)
    /\ \A r \in Reqs : WF_vars(SubmitAdd(r))
    /\ WF_vars(TaskStep)

-----------------------------------------------------------------------------
(***************************************************************************)
(* Properties                                                              *)
(***************************************************************************)

\* the disk that a request was accepted for has not been terminated
Live(r) == rdisk[r] # 0 /\ disks[rdisk[r]].state = "live"

\* No two disks of the driver are live at once: blk_attach finds sddisk_ NULL
\* (Sinetek_rtsx.cpp:454 "sddisk should be null"), also after failed attaches,
\* ejects, swaps and suspends in any order.
SingleDisk ==
    /\ \A d \in 1 .. Len(disks) : disks[d].state = "live" => d = sddisk
    /\ tpc = "blkattach" => sddisk = 0

\* The flags, sc_fn0 and the disk agree: a disk is there only for the function it
\* was attached for (blk_attach may have failed, so a card can be attached without
\* one), and whenever the thread is not in the middle of sdmmc_card_attach or
\* sdmmc_card_detach, a function that stays is one that the detach on suspend will
\* find (SMF_CARD_ATTACHED, SMF_CARD_PRESENT).
DiskMatchesCard ==
    /\ TypeOK
    /\ sddisk # 0 => /\ attached
                     /\ disks[sddisk].card = fn0
                     /\ disks[sddisk].state \in {"live", "freed"}
    /\ attached => fn0 # 0
    /\ tpc \notin AttachLabels =>
          /\ attached <=> fn0 # 0
          /\ tpc # "restart" => (attached => present)

\* A request transfers data only with the card that its disk was attached
\* for, as long as that disk is live: neither a swap of cards, nor the order
\* of discoveries and requests in the queue, nor a resume breaks this.
TransfersOwnCard ==
    \A r \in Reqs : touched[r] # 0 /\ Live(r) => touched[r] = disks[rdisk[r]].card

\* Once card events cease, the bus agrees with RTSX_F_CARD_PRESENT for good:
\* every change of the flag is followed by a discovery that sees it.
DiscoverySettles == <>[](present = cardPresent)

\* Once card events cease, RTSX_F_CARD_PRESENT tells whether a card is there,
\* but for an eject, for an event that rtsx_intr, rtsx_host_reset or the resume
\* has cleared without looking at the slot again, and for an old reading that the
\* resume has set after the handler had set its own.
SlotNoticed == <>[](cardPresent = (slot # 0) \/ eventLost \/ ejects > 0)

\* The completion of an accepted request is called, unless its disk goes.
LiveRequestsComplete ==
    \A r \in Reqs : rstate[r] = "accepted"
        ~> (rstate[r] \in {"done", "error"} \/ ~Live(r))
=============================================================================
