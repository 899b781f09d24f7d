----------------------------- MODULE SdmmcTasks -----------------------------
(***************************************************************************)
(* The task queue of the SD/MMC bus driver (3rdParty/openbsd/sdmmc.c) on   *)
(* top of the compatibility layer's spl lock, tsleep and wakeup            *)
(* (compat/openbsd/spl.cpp, tsleep.cpp).                                   *)
(*                                                                         *)
(* Threads:                                                                *)
(*   TaskThread  sdmmc_task_thread, the only consumer of the queue;        *)
(*   Callers     threads that call sdmmc_needs_discover: the interrupt     *)
(*               thread and the storage thread that ejects the medium;     *)
(*   PMThread    setPowerState: suspend, then resume, which also calls     *)
(*               sdmmc_needs_discover;                                     *)
(*   StopThread  stop(), which runs sdmmc_detach.                          *)
(* Any storage thread may queue a read task (SDDisk::doAsyncReadWrite).    *)
(*                                                                         *)
(* splsdmmc() takes the global recursive lock and splx() releases it.  A   *)
(* critical section of one step is one action guarded by lock = NoThread;  *)
(* the lock is visible only where the task thread keeps it over several    *)
(* steps, from the test of sc_dying up to the sleep.  sc_dying, the        *)
(* onqueue test of sdmmc_needs_discover and the wakeups of suspend, resume *)
(* and detach do not take the lock, so they interleave with those steps.   *)
(***************************************************************************)
EXTENDS Integers, FiniteSets, Sequences

CONSTANTS
    ReadTasks,    \* sdmmc_task structs that doAsyncReadWrite allocates, one per request
    DiscoverTask, \* &sc->sc_discover_task, the one discover task of the bus
    Callers, TaskThread, PMThread, StopThread,
    NoTask, NoThread, QueueHead,
    MaxCalls,     \* bound: calls of sdmmc_needs_discover by each caller
    MaxSuspends,  \* bound: suspend/resume cycles
    MayStop       \* whether stop() may be called

Tasks   == ReadTasks \cup {DiscoverTask}
Threads == Callers \cup {TaskThread, PMThread, StopThread}

ASSUME TasksAssumption ==
    /\ IsFiniteSet(ReadTasks)
    /\ DiscoverTask \notin ReadTasks
    /\ NoTask \notin Tasks
    /\ QueueHead \notin Tasks

ASSUME ThreadsAssumption ==
    /\ TaskThread \notin Callers /\ PMThread \notin Callers /\ StopThread \notin Callers
    /\ TaskThread # PMThread /\ TaskThread # StopThread /\ PMThread # StopThread
    /\ NoThread \notin Threads

ASSUME BoundsAssumption ==
    /\ MaxCalls \in Nat
    /\ MaxSuspends \in Nat
    /\ MayStop \in BOOLEAN

VARIABLES
    tskq,      \* sc->sc_tskq
    onqueue,   \* task->onqueue
    hasSc,     \* task->sc # NULL
    queued,    \* the read tasks ever allocated and passed to sdmmc_add_task
    dying,     \* sc->sc_dying
    present,   \* SMF_CARD_PRESENT in sc->sc_flags
    lock,      \* holder of the global lock between two steps
    pc,        \* where each thread is
    cur,       \* the local variable task of sdmmc_task_thread
    calls,     \* calls of sdmmc_needs_discover made by each caller
    suspends,  \* suspend/resume cycles begun
    (* history *)
    ran,       \* read tasks whose function has been called
    wanted,    \* a discovery was asked for and none has started since
    overlap    \* two sdmmc_needs_discover calls have both found the task idle

vars == <<tskq, onqueue, hasSc, queued, dying, present, lock, pc, cur,
          calls, suspends, ran, wanted, overlap>>

Q == INSTANCE Tailq WITH Elem <- Tasks, Null <- NoTask, HeadCell <- QueueHead

TaskLabels == {"needs", "add", "lock", "scan", "sleep", "asleep", "woken",
               "del", "run", "relock", "exit", "restart", "dead"}
CallerLabels == {"idle", "add"}
PMLabels   == {"on", "setdying", "off", "add", "wake"}
StopLabels == {"up", "loop", "freed"}

DataOK ==
    /\ tskq \in Q!TailqType
    /\ onqueue \in [Tasks -> BOOLEAN]
    /\ hasSc \in [Tasks -> BOOLEAN]
    /\ queued \in SUBSET ReadTasks
    /\ dying \in {-1, 0, 1}
    /\ present \in BOOLEAN
    /\ lock \in {NoThread, TaskThread}
    /\ cur \in Tasks \cup {NoTask}
    /\ calls \in [Callers -> 0 .. MaxCalls]
    /\ suspends \in 0 .. MaxSuspends
    /\ ran \in SUBSET ReadTasks
    /\ wanted \in BOOLEAN
    /\ overlap \in BOOLEAN

PCOK ==
    /\ pc \in [Threads -> TaskLabels \cup CallerLabels \cup PMLabels \cup StopLabels]
    /\ pc[TaskThread] \in TaskLabels
    /\ pc[PMThread] \in PMLabels
    /\ pc[StopThread] \in StopLabels
    /\ \A c \in Callers : pc[c] \in CallerLabels

TypeOK == DataOK /\ PCOK

(***************************************************************************)
(* sdmmc_attach: the queue is empty, the thread has just been created.     *)
(***************************************************************************)
Init ==
    /\ tskq = Q!EmptyTailq
    /\ onqueue = [t \in Tasks |-> FALSE]
    /\ hasSc = [t \in Tasks |-> FALSE]
    /\ queued = {}
    /\ dying = 0
    /\ present = FALSE
    /\ lock = NoThread
    /\ pc = [t \in Threads |-> IF t = TaskThread THEN "needs"
                               ELSE IF t = PMThread THEN "on"
                               ELSE IF t = StopThread THEN "up" ELSE "idle"]
    /\ cur = NoTask
    /\ calls = [c \in Callers |-> 0]
    /\ suspends = 0
    /\ ran = {}
    /\ wanted = FALSE
    /\ overlap = FALSE

\* The softc lives until sdmmc_detach returns and config_detach frees it.
Allocated == pc[StopThread] # "freed"

(***************************************************************************)
(* wakeup(&sc->sc_tskq): the task thread is the only one that sleeps there.*)
(* A wakeup that finds nobody asleep leaves no trace.                      *)
(***************************************************************************)
Wakeup(f) == [f EXCEPT ![TaskThread] = IF @ = "asleep" THEN "woken" ELSE @]

Goto(t, label) == pc' = [pc EXCEPT ![t] = label]

\* Mutant of AddTask: sdmmc_add_task without splsdmmc()
AddTaskUnlocked(t) ==
    /\ tskq' = Q!InsertTail(tskq, t)
    /\ onqueue' = [onqueue EXCEPT ![t] = TRUE]
    /\ hasSc' = [hasSc EXCEPT ![t] = TRUE]

\* sdmmc_add_task up to the wakeup, in one critical section
AddTask(t) ==
    /\ lock = NoThread
    /\ tskq' = Q!InsertTail(tskq, t)
    /\ onqueue' = [onqueue EXCEPT ![t] = TRUE]
    /\ hasSc' = [hasSc EXCEPT ![t] = TRUE]

\* Mutant of DelTask: onqueue is not cleared
DelTaskKeepsOnqueue(t) ==
    /\ lock = NoThread
    /\ IF hasSc[t]
       THEN /\ tskq' = Q!Remove(tskq, t)
            /\ hasSc' = [hasSc EXCEPT ![t] = FALSE]
            /\ UNCHANGED onqueue
       ELSE UNCHANGED <<tskq, onqueue, hasSc>>

\* sdmmc_del_task: returns early when the task has no bus
DelTask(t) ==
    /\ lock = NoThread
    /\ IF hasSc[t]
       THEN /\ tskq' = Q!Remove(tskq, t)
            /\ onqueue' = [onqueue EXCEPT ![t] = FALSE]
            /\ hasSc' = [hasSc EXCEPT ![t] = FALSE]
       ELSE UNCHANGED <<tskq, onqueue, hasSc>>

\* Mutant of NeedsCheck: any pending task is taken for the discover task
NeedsCheckAnyPending(t, done) ==
    /\ wanted' = TRUE
    /\ IF tskq.first # NoTask
       THEN /\ Goto(t, done)
            /\ UNCHANGED overlap
       ELSE /\ Goto(t, "add")
            /\ overlap' = (overlap \/ \E u \in Threads \ {t} : pc[u] = "add")
    /\ UNCHANGED <<tskq, onqueue, hasSc, queued, dying, present, lock, cur, ran>>

(***************************************************************************)
(* sdmmc_needs_discover tests onqueue without the lock, and adds the task  *)
(* in a step of its own.                                                   *)
(***************************************************************************)
NeedsCheck(t, done) ==
    /\ wanted' = TRUE
    /\ IF onqueue[DiscoverTask]
       THEN /\ Goto(t, done)
            /\ UNCHANGED overlap
       ELSE /\ Goto(t, "add")
            /\ overlap' = (overlap \/ \E u \in Threads \ {t} : pc[u] = "add")
    /\ UNCHANGED <<tskq, onqueue, hasSc, queued, dying, present, lock, cur, ran>>

NeedsAdd(t, done) ==
    /\ pc[t] = "add"
    /\ AddTask(DiscoverTask)
    /\ pc' = Wakeup([pc EXCEPT ![t] = done])
    /\ UNCHANGED <<queued, dying, present, lock, cur, calls, suspends, ran,
                   wanted, overlap>>

-----------------------------------------------------------------------------
(***************************************************************************)
(* Threads that ask for a discovery, and threads that queue I/O.           *)
(***************************************************************************)
CallerCheck(c) ==
    /\ Allocated
    /\ pc[c] = "idle"
    /\ calls[c] < MaxCalls
    /\ calls' = [calls EXCEPT ![c] = @ + 1]
    /\ NeedsCheck(c, "idle")
    /\ UNCHANGED suspends

CallerAdd(c) == Allocated /\ NeedsAdd(c, "idle")

\* Mutant of SubmitRead: the task is inserted and nobody is woken
SubmitReadSilent(r) ==
    /\ Allocated
    /\ r \notin queued
    /\ queued' = queued \cup {r}
    /\ AddTask(r)
    /\ UNCHANGED <<pc, dying, present, lock, cur, calls, suspends, ran, wanted, overlap>>

\* SDDisk::doAsyncReadWrite allocates and initialises a task, then adds it.
SubmitRead(r) ==
    /\ Allocated
    /\ r \notin queued
    /\ queued' = queued \cup {r}
    /\ AddTask(r)
    /\ pc' = Wakeup(pc)
    /\ UNCHANGED <<dying, present, lock, cur, calls, suspends, ran, wanted, overlap>>

-----------------------------------------------------------------------------
(***************************************************************************)
(* sdmmc_task_thread                                                       *)
(***************************************************************************)
TaskNeeds ==
    /\ pc[TaskThread] = "needs"
    /\ NeedsCheck(TaskThread, "lock")
    /\ UNCHANGED <<calls, suspends>>

TaskAdd == NeedsAdd(TaskThread, "lock")

\* splsdmmc(), or the return of tsleep, and the test of the while loop
TaskWhile ==
    /\ pc[TaskThread] \in {"lock", "woken"}
    /\ lock = NoThread
    /\ IF dying = 0
       THEN lock' = TaskThread /\ Goto(TaskThread, "scan")
       ELSE UNCHANGED lock /\ Goto(TaskThread, "exit")
    /\ UNCHANGED <<tskq, onqueue, hasSc, queued, dying, present, cur, calls,
                   suspends, ran, wanted, overlap>>

\* Mutant of TaskScan: the youngest task is taken
TaskScanLast ==
    /\ pc[TaskThread] = "scan"
    /\ cur' = IF tskq.last = QueueHead THEN NoTask ELSE tskq.last
    /\ IF tskq.last # QueueHead
       THEN lock' = NoThread /\ Goto(TaskThread, "del")
       ELSE UNCHANGED lock /\ Goto(TaskThread, "sleep")
    /\ UNCHANGED <<tskq, onqueue, hasSc, queued, dying, present, calls, suspends,
                   ran, wanted, overlap>>

\* the test of the for loop, with the lock held
TaskScan ==
    /\ pc[TaskThread] = "scan"
    /\ cur' = tskq.first
    /\ IF tskq.first # NoTask
       THEN lock' = NoThread /\ Goto(TaskThread, "del")
       ELSE UNCHANGED lock /\ Goto(TaskThread, "sleep")
    /\ UNCHANGED <<tskq, onqueue, hasSc, queued, dying, present, calls, suspends,
                   ran, wanted, overlap>>

TaskDel ==
    /\ pc[TaskThread] = "del"
    /\ DelTask(cur)
    /\ Goto(TaskThread, "run")
    /\ UNCHANGED <<queued, dying, present, lock, cur, calls, suspends, ran,
                   wanted, overlap>>

\* sdmmc_discover_task sets SMF_CARD_PRESENT to what the card detection says.
RunDiscover ==
    /\ cur = DiscoverTask
    /\ wanted' = FALSE
    /\ \E detected \in BOOLEAN : present' = detected
    /\ UNCHANGED ran

RunRead ==
    /\ cur \in ReadTasks
    /\ ran' = ran \cup {cur}
    /\ UNCHANGED <<present, wanted>>

TaskRun ==
    /\ pc[TaskThread] = "run"
    /\ RunDiscover \/ RunRead
    /\ Goto(TaskThread, "relock")
    /\ UNCHANGED <<tskq, onqueue, hasSc, queued, dying, lock, cur, calls,
                   suspends, overlap>>

TaskRelock ==
    /\ pc[TaskThread] = "relock"
    /\ lock = NoThread
    /\ lock' = TaskThread
    /\ Goto(TaskThread, "scan")
    /\ UNCHANGED <<tskq, onqueue, hasSc, queued, dying, present, cur, calls,
                   suspends, ran, wanted, overlap>>

\* tsleep_nsec(&sc->sc_tskq, INFSLP): the lock is released as the thread sleeps
TaskSleep ==
    /\ pc[TaskThread] = "sleep"
    /\ lock' = NoThread
    /\ Goto(TaskThread, "asleep")
    /\ UNCHANGED <<tskq, onqueue, hasSc, queued, dying, present, cur, calls,
                   suspends, ran, wanted, overlap>>

\* Mutant of TaskExit: the thread ends whatever the reason of sc_dying
TaskExitAlways ==
    /\ pc[TaskThread] = "exit"
    /\ Goto(TaskThread, "dead")
    /\ UNCHANGED <<tskq, onqueue, hasSc, queued, dying, present, lock, cur,
                   calls, suspends, ran, wanted, overlap>>

\* the card is detached; then the thread restarts after a suspend or ends
TaskExit ==
    /\ pc[TaskThread] = "exit"
    /\ Goto(TaskThread, IF dying = -1 THEN "restart" ELSE "dead")
    /\ UNCHANGED <<tskq, onqueue, hasSc, queued, dying, present, lock, cur,
                   calls, suspends, ran, wanted, overlap>>

TaskRestart ==
    /\ pc[TaskThread] = "restart"
    /\ present' = FALSE
    /\ dying' = 0
    /\ Goto(TaskThread, "needs")
    /\ UNCHANGED <<tskq, onqueue, hasSc, queued, lock, cur, calls, suspends,
                   ran, wanted, overlap>>

TaskStep == \/ TaskNeeds \/ TaskAdd \/ TaskWhile \/ TaskScan \/ TaskDel \/ TaskRun
            \/ TaskRelock \/ TaskSleep \/ TaskExit \/ TaskRestart

-----------------------------------------------------------------------------
(***************************************************************************)
(* setPowerState: sdmmc_activate(DVACT_SUSPEND), then rtsx_activate        *)
(* (DVACT_RESUME), which asks for a discovery, and sdmmc_activate          *)
(* (DVACT_RESUME), which wakes the task thread.                            *)
(***************************************************************************)
Suspend ==
    /\ Allocated
    /\ pc[PMThread] = "on"
    /\ suspends < MaxSuspends
    /\ suspends' = suspends + 1
    /\ Goto(PMThread, IF present THEN "setdying" ELSE "off")
    /\ UNCHANGED <<tskq, onqueue, hasSc, queued, dying, present, lock, cur,
                   calls, ran, wanted, overlap>>

SuspendSetDying ==
    /\ Allocated
    /\ pc[PMThread] = "setdying"
    /\ dying' = -1
    /\ Goto(PMThread, "off")
    /\ UNCHANGED <<tskq, onqueue, hasSc, queued, present, lock, cur, calls,
                   suspends, ran, wanted, overlap>>

ResumeNeeds ==
    /\ Allocated
    /\ pc[PMThread] = "off"
    /\ NeedsCheck(PMThread, "wake")
    /\ UNCHANGED <<calls, suspends>>

ResumeAdd == Allocated /\ NeedsAdd(PMThread, "wake")

ResumeWakeup ==
    /\ Allocated
    /\ pc[PMThread] = "wake"
    /\ pc' = Wakeup([pc EXCEPT ![PMThread] = "on"])
    /\ UNCHANGED <<tskq, onqueue, hasSc, queued, dying, present, lock, cur,
                   calls, suspends, ran, wanted, overlap>>

PMStep == Suspend \/ SuspendSetDying \/ ResumeNeeds \/ ResumeAdd \/ ResumeWakeup

(***************************************************************************)
(* sdmmc_detach.  tsleep_nsec is called without the lock, so it returns    *)
(* after a millisecond and the loop polls sc_task_thread.                  *)
(***************************************************************************)
DetachBegin ==
    /\ MayStop
    /\ pc[StopThread] = "up"
    /\ dying' = 1
    /\ Goto(StopThread, "loop")
    /\ UNCHANGED <<tskq, onqueue, hasSc, queued, present, lock, cur, calls,
                   suspends, ran, wanted, overlap>>

\* Mutant of DetachPoll: the loop polls without a wakeup
DetachPollSilent ==
    /\ pc[StopThread] = "loop"
    /\ pc' = IF pc[TaskThread] = "dead" THEN [pc EXCEPT ![StopThread] = "freed"] ELSE pc
    /\ UNCHANGED <<tskq, onqueue, hasSc, queued, dying, present, lock, cur,
                   calls, suspends, ran, wanted, overlap>>

DetachPoll ==
    /\ pc[StopThread] = "loop"
    /\ pc' = IF pc[TaskThread] = "dead"
             THEN [pc EXCEPT ![StopThread] = "freed"]
             ELSE Wakeup(pc)
    /\ UNCHANGED <<tskq, onqueue, hasSc, queued, dying, present, lock, cur,
                   calls, suspends, ran, wanted, overlap>>

-----------------------------------------------------------------------------
Next ==
    \/ \E c \in Callers : CallerCheck(c) \/ CallerAdd(c)
    \/ \E r \in ReadTasks : SubmitRead(r)
    \/ TaskStep
    \/ PMStep
    \/ DetachBegin
    \/ DetachPoll

Spec == Init /\ [][Next]_vars

(***************************************************************************)
(* The scheduler runs every thread that can run.  The lock is only held    *)
(* while the task thread is between two of its own steps, so weak fairness *)
(* is enough to get it.  Nothing makes a user insert a card, submit I/O,   *)
(* suspend the machine or wake it, or unload the driver.                   *)
(***************************************************************************)
Fairness ==
    /\ WF_vars(TaskStep)
    /\ \A c \in Callers : WF_vars(CallerAdd(c))
    /\ WF_vars(SuspendSetDying)
    /\ WF_vars(ResumeAdd)
    /\ WF_vars(ResumeWakeup)
    /\ WF_vars(DetachPoll)

FairSpec == Spec /\ Fairness

-----------------------------------------------------------------------------
(***************************************************************************)
(* Properties                                                              *)
(***************************************************************************)

\* Only the task thread keeps the lock over several steps, and it keeps it
\* exactly while it decides whether to sleep (sdmmc.c:226-236).
LockHeld == lock = TaskThread <=> pc[TaskThread] \in {"scan", "sleep"}

\* No lost task wakeup: the task thread never sleeps on sc_tskq, nor is about
\* to, while a task is queued: sdmmc_add_task inserts and wakes under the lock
\* that tsleep gives up only as it sleeps.
NoTaskLeftAsleep == pc[TaskThread] \in {"sleep", "asleep"} => tskq.first = NoTask

\* A discovery that was asked for is queued, about to be queued, or about to
\* run: sdmmc_needs_discover may skip the insertion because sdmmc_del_task
\* clears onqueue before the task's function looks at the card.
DiscoverNotForgotten ==
    wanted => \/ onqueue[DiscoverTask]
              \/ \E t \in Threads : pc[t] = "add"
              \/ cur = DiscoverTask /\ pc[TaskThread] \in {"del", "run"}

\* While no two sdmmc_needs_discover calls have overlapped, sc_tskq is a sound
\* list that holds each pending task once and nothing else, task->sc is set
\* exactly on those, and a request that is found there has not run before.
QueueSound ==
    ~overlap => /\ Q!IsListOf(tskq, {t \in Tasks : onqueue[t]})
                /\ hasSc = onqueue
                /\ pc[TaskThread] \in {"del", "run"} => cur \notin ran

\* A suspend never ends the task thread, however it interleaves: only
\* sdmmc_detach does.
SuspendKeepsThread == pc[TaskThread] = "dead" => pc[StopThread] # "up"

\* sdmmc_detach has begun: it empties nothing, and the task thread may end
\* with tasks still queued.
Stopping == pc[StopThread] # "up"

\* Every queued request is eventually run, and every discovery that was asked
\* for eventually starts, if no discovery calls overlap and the driver is not
\* unloaded; a suspend only delays them.
EveryTaskRuns ==
    /\ \A r \in ReadTasks : r \in queued ~> (r \in ran \/ overlap \/ Stopping)
    /\ wanted ~> (~wanted \/ overlap \/ Stopping)

\* stop() returns unless a suspend meets it: the polling loop of sdmmc_detach
\* sees the thread end.
StopCompletesAwake ==
    (pc[StopThread] = "loop" /\ suspends = 0)
        ~> (pc[StopThread] = "freed" \/ overlap \/ suspends > 0)

(***************************************************************************)
(* A claim of the repository that the code does not keep.                  *)
(***************************************************************************)

\* README.md: "Since there may be more than one task pending, a new task
\* struct must be allocated/freed for each new task."; SDDisk.cpp:493 "will be
\* deleted after processed": every request that was queued is processed.
EveryReadProcessed == \A r \in ReadTasks : r \in queued ~> r \in ran

(***************************************************************************)
(* The queue is a FIFO until an overlap breaks it or sdmmc_detach begins.  *)
(***************************************************************************)
Fifo == INSTANCE TaskFifo WITH
            Task   <- Tasks,
            queue  <- IF overlap \/ Stopping THEN <<>> ELSE Q!ElementsOf(tskq),
            broken <- overlap \/ Stopping
FifoSpec == Fifo!Spec
=============================================================================
