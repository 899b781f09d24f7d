-------------------------- MODULE SdmmcTasks_proofs --------------------------
(***************************************************************************)
(* Theorems about SdmmcTasks, for any number of requests and of threads.   *)
(***************************************************************************)
EXTENDS SdmmcTasks, FiniteSetTheorems, SequenceTheorems, WellFoundedInduction, TLAPS

(***************************************************************************)
(* The two list operations keep the pointers inside the queue.             *)
(***************************************************************************)

\* TAILQ_INSERT_TAIL leaves pointers to tasks or null, and addresses in tasks
\* or in the queue head.
LEMMA InsertTailType ==
    ASSUME NEW q \in Q!TailqType, NEW t \in Tasks
    PROVE  Q!InsertTail(q, t) \in Q!TailqType
BY DEF Q!TailqType, Q!InsertTail, Q!StoreFirst, Q!StoreNext, Q!Ptr, Q!Cell

\* TAILQ_REMOVE does, too.
LEMMA RemoveType ==
    ASSUME NEW q \in Q!TailqType, NEW t \in Tasks
    PROVE  Q!Remove(q, t) \in Q!TailqType
BY DEF Q!TailqType, Q!Remove, Q!StoreFirst, Q!StoreNext, Q!Ptr, Q!Cell

\* sdmmc_add_task and sdmmc_del_task keep the types of what they change.
LEMMA AddTaskType ==
    ASSUME TypeOK, NEW t \in Tasks, AddTask(t)
    PROVE  /\ tskq' \in Q!TailqType
           /\ onqueue' \in [Tasks -> BOOLEAN]
           /\ hasSc' \in [Tasks -> BOOLEAN]
BY InsertTailType DEF TypeOK, DataOK, AddTask

LEMMA DelTaskType ==
    ASSUME TypeOK, NEW t \in Tasks, DelTask(t)
    PROVE  /\ tskq' \in Q!TailqType
           /\ onqueue' \in [Tasks -> BOOLEAN]
           /\ hasSc' \in [Tasks -> BOOLEAN]
BY RemoveType DEF TypeOK, DataOK, DelTask

(***************************************************************************)
(* The inductive invariant: the types, the lock, and what each property    *)
(* needs to know of the step before.                                       *)
(***************************************************************************)

\* While the task thread is past the scan it holds a task.
CurHeld == pc[TaskThread] \in {"del", "run"} => cur \in Tasks

\* sc_dying = 1 comes only from sdmmc_detach, and the thread leaves its loop
\* only because of sc_dying.
DyingCause ==
    /\ dying = 1 => pc[StopThread] # "up"
    /\ pc[TaskThread] = "exit" => dying # 0

IInv == TypeOK /\ LockHeld /\ CurHeld /\ NoTaskLeftAsleep /\ DiscoverNotForgotten
        /\ DyingCause /\ SuspendKeepsThread

\* Initially everything is idle.
LEMMA InitIInv == Init => IInv
<1> SUFFICES ASSUME Init PROVE IInv
  OBVIOUS
<1>1. DataOK
  <2>1. Q!EmptyTailq \in Q!TailqType
    BY DEF Q!EmptyTailq, Q!TailqType, Q!Ptr, Q!Cell
  <2>2. 0 \in 0 .. MaxCalls /\ 0 \in 0 .. MaxSuspends
    BY BoundsAssumption
  <2> QED
    BY <2>1, <2>2 DEF Init, DataOK
<1>3. PCOK
  BY ThreadsAssumption
  DEF Init, PCOK, Threads, TaskLabels, CallerLabels, PMLabels, StopLabels
<1>2. pc[TaskThread] = "needs" /\ pc[StopThread] = "up"
  BY ThreadsAssumption DEF Init, Threads
<1> QED
  BY <1>1, <1>2, <1>3, ThreadsAssumption
  DEF Threads, Init, IInv, TypeOK, LockHeld, CurHeld, NoTaskLeftAsleep, DiscoverNotForgotten,
      DyingCause, SuspendKeepsThread

\* Every step leaves each thread at a label of its own.
LEMMA PCStep == PCOK /\ [Next]_vars => PCOK'
<1> SUFFICES ASSUME PCOK, [Next]_vars PROVE PCOK'
  OBVIOUS
<1> USE DEF PCOK, Threads, TaskLabels, CallerLabels, PMLabels,
    StopLabels
<1>1. ASSUME NEW c \in Callers, CallerCheck(c) PROVE PCOK'
  BY <1>1, ThreadsAssumption
  DEF CallerCheck, NeedsCheck, Goto
<1>2. ASSUME NEW c \in Callers, CallerAdd(c) PROVE PCOK'
  BY <1>2, ThreadsAssumption
  DEF CallerAdd, NeedsAdd, Wakeup
<1>3. ASSUME NEW r \in ReadTasks, SubmitRead(r) PROVE PCOK'
  BY <1>3, ThreadsAssumption
  DEF SubmitRead, Wakeup
<1>4. CASE TaskNeeds
  BY <1>4, ThreadsAssumption
  DEF TaskNeeds, NeedsCheck, Goto
<1>5. CASE TaskAdd
  BY <1>5, ThreadsAssumption
  DEF TaskAdd, NeedsAdd, Wakeup
<1>6. CASE TaskWhile
  BY <1>6, ThreadsAssumption
  DEF TaskWhile, Goto
<1>7. CASE TaskScan
  BY <1>7, ThreadsAssumption
  DEF TaskScan, Goto
<1>8. CASE TaskDel
  BY <1>8, ThreadsAssumption
  DEF TaskDel, Goto
<1>9. CASE TaskRun
  BY <1>9, ThreadsAssumption
  DEF TaskRun, RunDiscover, RunRead, Goto
<1>10. CASE TaskRelock
  BY <1>10, ThreadsAssumption
  DEF TaskRelock, Goto
<1>11. CASE TaskSleep
  BY <1>11, ThreadsAssumption
  DEF TaskSleep, Goto
<1>12. CASE TaskExit
  BY <1>12, ThreadsAssumption
  DEF TaskExit, Goto
<1>13. CASE TaskRestart
  BY <1>13, ThreadsAssumption
  DEF TaskRestart, Goto
<1>14. CASE Suspend
  BY <1>14, ThreadsAssumption
  DEF Suspend, Goto
<1>15. CASE SuspendSetDying
  BY <1>15, ThreadsAssumption
  DEF SuspendSetDying, Goto
<1>16. CASE ResumeNeeds
  BY <1>16, ThreadsAssumption
  DEF ResumeNeeds, NeedsCheck, Goto
<1>17. CASE ResumeAdd
  BY <1>17, ThreadsAssumption
  DEF ResumeAdd, NeedsAdd, Wakeup
<1>18. CASE ResumeWakeup
  BY <1>18, ThreadsAssumption
  DEF ResumeWakeup, Wakeup
<1>19. CASE DetachBegin
  BY <1>19, ThreadsAssumption
  DEF DetachBegin, Goto
<1>20. CASE DetachPoll
  BY <1>20, ThreadsAssumption
  DEF DetachPoll, Wakeup
<1>21. CASE UNCHANGED vars
  BY <1>21 DEF vars
<1> QED
  BY <1>1, <1>2, <1>3, <1>4, <1>5, <1>6, <1>7, <1>8, <1>9, <1>10, <1>11,
     <1>12, <1>13, <1>14, <1>15, <1>16, <1>17, <1>18, <1>19, <1>20,
     <1>21
  DEF Next, TaskStep, PMStep

\* Every step keeps the types of the data.
LEMMA DataStep == (TypeOK /\ CurHeld) /\ [Next]_vars => DataOK'
<1> SUFFICES ASSUME (TypeOK /\ CurHeld), [Next]_vars PROVE DataOK'
  OBVIOUS
<1> USE DEF TypeOK, DataOK
<1>0. DiscoverTask \in Tasks /\ ReadTasks \subseteq Tasks
  BY DEF Tasks
<1>1. ASSUME NEW c \in Callers, CallerCheck(c) PROVE DataOK'
  <2>1. calls[c] \in 0 .. MaxCalls /\ calls[c] < MaxCalls
    BY <1>1 DEF CallerCheck
  <2>2. calls[c] + 1 \in 0 .. MaxCalls
    BY <2>1, BoundsAssumption
  <2>3. calls' \in [Callers -> 0 .. MaxCalls]
    BY <1>1, <2>2 DEF CallerCheck
  <2>4. overlap' \in BOOLEAN
    BY <1>1 DEF CallerCheck, NeedsCheck
  <2> QED
    BY <1>1, <2>3, <2>4 DEF CallerCheck, NeedsCheck
<1>2. ASSUME NEW c \in Callers, CallerAdd(c) PROVE DataOK'
  BY <1>2, AddTaskType, <1>0
  DEF CallerAdd, NeedsAdd, Wakeup
<1>3. ASSUME NEW r \in ReadTasks, SubmitRead(r) PROVE DataOK'
  BY <1>3, AddTaskType, <1>0
  DEF SubmitRead, Wakeup
<1>4. CASE TaskNeeds
  BY <1>4
  DEF TaskNeeds, NeedsCheck, Goto
<1>5. CASE TaskAdd
  BY <1>5, AddTaskType, <1>0
  DEF TaskAdd, NeedsAdd, Wakeup
<1>6. CASE TaskWhile
  BY <1>6
  DEF TaskWhile, Goto
<1>7. CASE TaskScan
  BY <1>7
  DEF TaskScan, Goto, Q!TailqType, Q!Ptr
<1>8. CASE TaskDel
  BY <1>8, DelTaskType
  DEF TaskDel, Goto, CurHeld
<1>9. CASE TaskRun
  BY <1>9
  DEF TaskRun, RunDiscover, RunRead, Goto
<1>10. CASE TaskRelock
  BY <1>10
  DEF TaskRelock, Goto
<1>11. CASE TaskSleep
  BY <1>11
  DEF TaskSleep, Goto
<1>12. CASE TaskExit
  BY <1>12
  DEF TaskExit, Goto
<1>13. CASE TaskRestart
  BY <1>13
  DEF TaskRestart, Goto
<1>14. CASE Suspend
  BY <1>14, BoundsAssumption
  DEF Suspend, Goto
<1>15. CASE SuspendSetDying
  BY <1>15
  DEF SuspendSetDying, Goto
<1>16. CASE ResumeNeeds
  BY <1>16
  DEF ResumeNeeds, NeedsCheck, Goto
<1>17. CASE ResumeAdd
  BY <1>17, AddTaskType, <1>0
  DEF ResumeAdd, NeedsAdd, Wakeup
<1>18. CASE ResumeWakeup
  BY <1>18
  DEF ResumeWakeup, Wakeup
<1>19. CASE DetachBegin
  BY <1>19
  DEF DetachBegin, Goto
<1>20. CASE DetachPoll
  BY <1>20
  DEF DetachPoll, Wakeup
<1>21. CASE UNCHANGED vars
  BY <1>21 DEF vars
<1> QED
  BY <1>1, <1>2, <1>3, <1>4, <1>5, <1>6, <1>7, <1>8, <1>9, <1>10, <1>11,
     <1>12, <1>13, <1>14, <1>15, <1>16, <1>17, <1>18, <1>19, <1>20,
     <1>21
  DEF Next, TaskStep, PMStep

\* The lock, the task in hand and the sleep follow the thread's steps: only a
\* holder of the lock inserts, and it wakes the thread if it sleeps.
LEMMA SyncStep ==
    (TypeOK /\ LockHeld /\ CurHeld /\ NoTaskLeftAsleep) /\ [Next]_vars
        => (LockHeld /\ CurHeld /\ NoTaskLeftAsleep)'
<1> SUFFICES ASSUME (TypeOK /\ LockHeld /\ CurHeld /\ NoTaskLeftAsleep), [Next]_vars
             PROVE  (LockHeld /\ CurHeld /\ NoTaskLeftAsleep)'
  OBVIOUS
<1> USE DEF TypeOK, PCOK, Threads, CallerLabels, PMLabels, StopLabels,
    LockHeld, CurHeld, NoTaskLeftAsleep
<1>1. ASSUME NEW c \in Callers, CallerCheck(c) PROVE (LockHeld /\ CurHeld /\ NoTaskLeftAsleep)'
  BY <1>1, ThreadsAssumption
  DEF CallerCheck, NeedsCheck, Goto
<1>2. ASSUME NEW c \in Callers, CallerAdd(c) PROVE (LockHeld /\ CurHeld /\ NoTaskLeftAsleep)'
  BY <1>2, ThreadsAssumption
  DEF CallerAdd, NeedsAdd, Wakeup, AddTask
<1>3. ASSUME NEW r \in ReadTasks, SubmitRead(r) PROVE (LockHeld /\ CurHeld /\ NoTaskLeftAsleep)'
  BY <1>3, ThreadsAssumption
  DEF SubmitRead, Wakeup, AddTask
<1>4. CASE TaskNeeds
  BY <1>4, ThreadsAssumption
  DEF TaskNeeds, NeedsCheck, Goto
<1>5. CASE TaskAdd
  BY <1>5, ThreadsAssumption
  DEF TaskAdd, NeedsAdd, Wakeup, AddTask
<1>6. CASE TaskWhile
  BY <1>6, ThreadsAssumption
  DEF TaskWhile, Goto, DataOK
<1>7. CASE TaskScan
  BY <1>7, ThreadsAssumption
  DEF TaskScan, Goto, DataOK, Q!TailqType, Q!Ptr
<1>8. CASE TaskDel
  BY <1>8, ThreadsAssumption
  DEF TaskDel, Goto, DelTask
<1>9. CASE TaskRun
  BY <1>9, ThreadsAssumption
  DEF TaskRun, RunDiscover, RunRead, Goto
<1>10. CASE TaskRelock
  BY <1>10, ThreadsAssumption
  DEF TaskRelock, Goto
<1>11. CASE TaskSleep
  BY <1>11, ThreadsAssumption
  DEF TaskSleep, Goto, DataOK
<1>12. CASE TaskExit
  BY <1>12, ThreadsAssumption
  DEF TaskExit, Goto
<1>13. CASE TaskRestart
  BY <1>13, ThreadsAssumption
  DEF TaskRestart, Goto
<1>14. CASE Suspend
  BY <1>14, ThreadsAssumption
  DEF Suspend, Goto
<1>15. CASE SuspendSetDying
  BY <1>15, ThreadsAssumption
  DEF SuspendSetDying, Goto
<1>16. CASE ResumeNeeds
  BY <1>16, ThreadsAssumption
  DEF ResumeNeeds, NeedsCheck, Goto
<1>17. CASE ResumeAdd
  BY <1>17, ThreadsAssumption
  DEF ResumeAdd, NeedsAdd, Wakeup, AddTask
<1>18. CASE ResumeWakeup
  BY <1>18, ThreadsAssumption
  DEF ResumeWakeup, Wakeup
<1>19. CASE DetachBegin
  BY <1>19, ThreadsAssumption
  DEF DetachBegin, Goto
<1>20. CASE DetachPoll
  BY <1>20, ThreadsAssumption
  DEF DetachPoll, Wakeup
<1>21. CASE UNCHANGED vars
  BY <1>21 DEF vars
<1> QED
  BY <1>1, <1>2, <1>3, <1>4, <1>5, <1>6, <1>7, <1>8, <1>9, <1>10, <1>11,
     <1>12, <1>13, <1>14, <1>15, <1>16, <1>17, <1>18, <1>19, <1>20,
     <1>21
  DEF Next, TaskStep, PMStep

\* A request for a discovery is handed on from the caller to the queue, from
\* the queue to the task thread, and dropped as the task's function starts.
LEMMA DiscoverStep == (TypeOK /\ CurHeld /\ DiscoverNotForgotten) /\ [Next]_vars => DiscoverNotForgotten'
<1> SUFFICES ASSUME (TypeOK /\ CurHeld /\ DiscoverNotForgotten), [Next]_vars PROVE DiscoverNotForgotten'
  OBVIOUS
<1> USE DEF TypeOK, PCOK, DataOK, Threads, Tasks, CurHeld,
    DiscoverNotForgotten
<1>1. ASSUME NEW c \in Callers, CallerCheck(c) PROVE DiscoverNotForgotten'
  BY <1>1, ThreadsAssumption, TasksAssumption
  DEF CallerCheck, NeedsCheck, Goto
<1>2. ASSUME NEW c \in Callers, CallerAdd(c) PROVE DiscoverNotForgotten'
  BY <1>2, ThreadsAssumption, TasksAssumption
  DEF CallerAdd, NeedsAdd, Wakeup, AddTask
<1>3. ASSUME NEW r \in ReadTasks, SubmitRead(r) PROVE DiscoverNotForgotten'
  BY <1>3, ThreadsAssumption, TasksAssumption
  DEF SubmitRead, Wakeup, AddTask
<1>4. CASE TaskNeeds
  BY <1>4, ThreadsAssumption, TasksAssumption
  DEF TaskNeeds, NeedsCheck, Goto
<1>5. CASE TaskAdd
  BY <1>5, ThreadsAssumption, TasksAssumption
  DEF TaskAdd, NeedsAdd, Wakeup, AddTask
<1>6. CASE TaskWhile
  BY <1>6, ThreadsAssumption, TasksAssumption
  DEF TaskWhile, Goto
<1>7. CASE TaskScan
  BY <1>7, ThreadsAssumption, TasksAssumption
  DEF TaskScan, Goto
<1>8. CASE TaskDel
  BY <1>8, ThreadsAssumption, TasksAssumption
  DEF TaskDel, Goto, DelTask
<1>9. CASE TaskRun
  BY <1>9, ThreadsAssumption, TasksAssumption
  DEF TaskRun, RunDiscover, RunRead, Goto
<1>10. CASE TaskRelock
  BY <1>10, ThreadsAssumption, TasksAssumption
  DEF TaskRelock, Goto
<1>11. CASE TaskSleep
  BY <1>11, ThreadsAssumption, TasksAssumption
  DEF TaskSleep, Goto
<1>12. CASE TaskExit
  BY <1>12, ThreadsAssumption, TasksAssumption
  DEF TaskExit, Goto
<1>13. CASE TaskRestart
  BY <1>13, ThreadsAssumption, TasksAssumption
  DEF TaskRestart, Goto
<1>14. CASE Suspend
  BY <1>14, ThreadsAssumption, TasksAssumption
  DEF Suspend, Goto
<1>15. CASE SuspendSetDying
  BY <1>15, ThreadsAssumption, TasksAssumption
  DEF SuspendSetDying, Goto
<1>16. CASE ResumeNeeds
  BY <1>16, ThreadsAssumption, TasksAssumption
  DEF ResumeNeeds, NeedsCheck, Goto
<1>17. CASE ResumeAdd
  BY <1>17, ThreadsAssumption, TasksAssumption
  DEF ResumeAdd, NeedsAdd, Wakeup, AddTask
<1>18. CASE ResumeWakeup
  BY <1>18, ThreadsAssumption, TasksAssumption
  DEF ResumeWakeup, Wakeup
<1>19. CASE DetachBegin
  BY <1>19, ThreadsAssumption, TasksAssumption
  DEF DetachBegin, Goto
<1>20. CASE DetachPoll
  BY <1>20, ThreadsAssumption, TasksAssumption
  DEF DetachPoll, Wakeup
<1>21. CASE UNCHANGED vars
  BY <1>21 DEF vars
<1> QED
  BY <1>1, <1>2, <1>3, <1>4, <1>5, <1>6, <1>7, <1>8, <1>9, <1>10, <1>11,
     <1>12, <1>13, <1>14, <1>15, <1>16, <1>17, <1>18, <1>19, <1>20,
     <1>21
  DEF Next, TaskStep, PMStep

\* sc_dying is 1 only after stop() has set it, and -1 never ends the thread.
LEMMA DyingStep ==
    (TypeOK /\ DyingCause /\ SuspendKeepsThread) /\ [Next]_vars
        => (DyingCause /\ SuspendKeepsThread)'
<1> SUFFICES ASSUME (TypeOK /\ DyingCause /\ SuspendKeepsThread), [Next]_vars
             PROVE  (DyingCause /\ SuspendKeepsThread)'
  OBVIOUS
<1> USE DEF TypeOK, PCOK, DataOK, Threads, CallerLabels, PMLabels,
    DyingCause, SuspendKeepsThread
<1>1. ASSUME NEW c \in Callers, CallerCheck(c) PROVE (DyingCause /\ SuspendKeepsThread)'
  BY <1>1, ThreadsAssumption
  DEF CallerCheck, NeedsCheck, Goto
<1>2. ASSUME NEW c \in Callers, CallerAdd(c) PROVE (DyingCause /\ SuspendKeepsThread)'
  BY <1>2, ThreadsAssumption
  DEF CallerAdd, NeedsAdd, Wakeup
<1>3. ASSUME NEW r \in ReadTasks, SubmitRead(r) PROVE (DyingCause /\ SuspendKeepsThread)'
  BY <1>3, ThreadsAssumption
  DEF SubmitRead, Wakeup
<1>4. CASE TaskNeeds
  BY <1>4, ThreadsAssumption
  DEF TaskNeeds, NeedsCheck, Goto
<1>5. CASE TaskAdd
  BY <1>5, ThreadsAssumption
  DEF TaskAdd, NeedsAdd, Wakeup
<1>6. CASE TaskWhile
  BY <1>6, ThreadsAssumption
  DEF TaskWhile, Goto
<1>7. CASE TaskScan
  BY <1>7, ThreadsAssumption
  DEF TaskScan, Goto
<1>8. CASE TaskDel
  BY <1>8, ThreadsAssumption
  DEF TaskDel, Goto
<1>9. CASE TaskRun
  BY <1>9, ThreadsAssumption
  DEF TaskRun, RunDiscover, RunRead, Goto
<1>10. CASE TaskRelock
  BY <1>10, ThreadsAssumption
  DEF TaskRelock, Goto
<1>11. CASE TaskSleep
  BY <1>11, ThreadsAssumption
  DEF TaskSleep, Goto
<1>12. CASE TaskExit
  BY <1>12, ThreadsAssumption
  DEF TaskExit, Goto
<1>13. CASE TaskRestart
  BY <1>13, ThreadsAssumption
  DEF TaskRestart, Goto
<1>14. CASE Suspend
  BY <1>14, ThreadsAssumption
  DEF Suspend, Goto
<1>15. CASE SuspendSetDying
  BY <1>15, ThreadsAssumption
  DEF SuspendSetDying, Goto
<1>16. CASE ResumeNeeds
  BY <1>16, ThreadsAssumption
  DEF ResumeNeeds, NeedsCheck, Goto
<1>17. CASE ResumeAdd
  BY <1>17, ThreadsAssumption
  DEF ResumeAdd, NeedsAdd, Wakeup
<1>18. CASE ResumeWakeup
  BY <1>18, ThreadsAssumption
  DEF ResumeWakeup, Wakeup
<1>19. CASE DetachBegin
  BY <1>19, ThreadsAssumption
  DEF DetachBegin, Goto
<1>20. CASE DetachPoll
  BY <1>20, ThreadsAssumption
  DEF DetachPoll, Wakeup
<1>21. CASE UNCHANGED vars
  BY <1>21 DEF vars
<1> QED
  BY <1>1, <1>2, <1>3, <1>4, <1>5, <1>6, <1>7, <1>8, <1>9, <1>10, <1>11,
     <1>12, <1>13, <1>14, <1>15, <1>16, <1>17, <1>18, <1>19, <1>20,
     <1>21
  DEF Next, TaskStep, PMStep

\* The invariant is inductive.
LEMMA InductiveStep == IInv /\ [Next]_vars => IInv'
BY PCStep, DataStep, SyncStep, DiscoverStep, DyingStep DEF IInv, TypeOK

\* The strengthening holds in every reachable state.
LEMMA Inductive == Spec => []IInv
BY InitIInv, InductiveStep, PTL DEF Spec

(***************************************************************************)
(* The theorems.                                                           *)
(***************************************************************************)

\* sdmmc.c keeps every variable of the task queue within its type.
THEOREM TypeCorrect == Spec => []TypeOK
<1>1. IInv => TypeOK
  BY DEF IInv
<1> QED
  BY <1>1, Inductive, PTL

\* However many threads add tasks, sdmmc_task_thread never sleeps while a task
\* is queued: there is no lost wakeup between sdmmc_add_task and tsleep.
THEOREM NoLostTask == Spec => []NoTaskLeftAsleep
<1>1. IInv => NoTaskLeftAsleep
  BY DEF IInv
<1> QED
  BY <1>1, Inductive, PTL

\* However many threads call sdmmc_needs_discover, even at the same time, a
\* discovery that was asked for is under way until it starts.
THEOREM NoLostDiscovery == Spec => []DiscoverNotForgotten
<1>1. IInv => DiscoverNotForgotten
  BY DEF IInv
<1> QED
  BY <1>1, Inductive, PTL

\* No interleaving of suspends with the thread's exit path ends the thread.
THEOREM ThreadSurvivesSuspend == Spec => []SuspendKeepsThread
<1>1. IInv => SuspendKeepsThread
  BY DEF IInv
<1> QED
  BY <1>1, Inductive, PTL

-----------------------------------------------------------------------------
(***************************************************************************)
(* The list of tasks.  A sequence s of tasks is a chain of the queue when  *)
(* the pointers hold its elements in order; insertion and removal at the   *)
(* head turn a chain into a chain, and the walk that ElementsOf defines by *)
(* recursion gives that sequence back.                                     *)
(***************************************************************************)

\* A set of natural numbers that is not empty has a least element; the library's
\* induction theorems take a predicate, which a leaf cannot give them, so this
\* is taken from the well-foundedness of < on Nat.
LEMMA LeastNat ==
   ASSUME NEW T \in SUBSET Nat, T # {} PROVE \E m \in T : \A k \in T : m <= k
<1> DEFINE R == {ss \in Nat \X Nat : ss[1] < ss[2]}
<1>0. IsWellFoundedOn(R, Nat)
  BY NatLessThanWellFounded DEF OpToRel
<1>1. PICK x \in T : \A y \in T : ~(<<y, x>> \in R)
  <2> HIDE DEF R
  <2> QED BY WFMin, <1>0
<1>2. ASSUME NEW y \in T PROVE x <= y
  <2>1. <<y, x>> \in Nat \X Nat
    OBVIOUS
  <2>2. ~ (y < x)
    BY <2>1, <1>1
  <2> QED BY <2>2
<1> QED
  BY <1>1, <1>2

\* Induction on the natural numbers, for a set instead of a predicate.
LEMMA NatSetInduction ==
   ASSUME NEW S, 0 \in S, \A n \in Nat : n \in S => n + 1 \in S PROVE Nat \subseteq S
<1> SUFFICES ASSUME Nat \ S # {} PROVE FALSE
  OBVIOUS
<1>1. PICK m \in Nat \ S : \A k \in Nat \ S : m <= k
  BY LeastNat
<1>2. m # 0
  OBVIOUS
<1>3. m - 1 \in Nat /\ m - 1 \in S
  BY <1>1, <1>2
<1> QED
  BY <1>3

\* No element twice
Distinct(s) == \A i, j \in 1 .. Len(s) : s[i] = s[j] => i = j

\* The pointers of q hold the elements of s, in this order.
Chain(q, s) ==
    /\ q.first = IF Len(s) = 0 THEN NoTask ELSE s[1]
    /\ q.last = IF Len(s) = 0 THEN QueueHead ELSE s[Len(s)]
    /\ \A i \in 1 .. Len(s) : q.next[s[i]] = IF i = Len(s) THEN NoTask ELSE s[i + 1]
    /\ \A i \in 1 .. Len(s) : q.prev[s[i]] = IF i = 1 THEN QueueHead ELSE s[i - 1]
    /\ Distinct(s)

\* There are finitely many tasks, and one at least.
LEMMA TasksFinite == IsFiniteSet(Tasks) /\ Cardinality(Tasks) \in Nat \ {0}
<1>1. IsFiniteSet(Tasks)
  BY TasksAssumption, FS_AddElement DEF Tasks
<1>2. Cardinality(Tasks) \in Nat /\ (Cardinality(Tasks) = 0 <=> Tasks = {})
  BY <1>1, FS_CardinalityType, FS_EmptySet
<1> QED
  BY <1>1, <1>2 DEF Tasks

\* A sequence that repeats no task has as many elements as members, and no more
\* than there are tasks.
LEMMA DistinctLen ==
    ASSUME NEW s \in Seq(Tasks), Distinct(s)
    PROVE  /\ Len(s) <= Cardinality(Tasks)
           /\ Cardinality({s[i] : i \in 1 .. Len(s)}) = Len(s)
<1> DEFINE T == {s[i] : i \in 1 .. Len(s)}
<1>1. Len(s) \in Nat /\ s \in [1 .. Len(s) -> Tasks]
  OBVIOUS
<1>2. Cardinality(1 .. Len(s)) = Len(s) /\ IsFiniteSet(1 .. Len(s))
  BY <1>1, FS_Interval
<1>3. s \in Injection(1 .. Len(s), Tasks)
  BY <1>1 DEF Distinct, Injection, IsInjective
<1>4. Len(s) <= Cardinality(Tasks)
  BY <1>2, <1>3, TasksFinite, FS_Injection
<1>5. s \in Bijection(1 .. Len(s), T)
  BY <1>1 DEF Distinct, Bijection, Injection, IsInjective, Surjection
<1>6. ExistsBijection(1 .. Len(s), T)
  BY <1>5 DEF ExistsBijection
<1>7. Cardinality(T) = Len(s)
  BY <1>1, <1>6, FS_CountingElements
<1> QED
  BY <1>4, <1>7

\* Cardinality as Tailq sees it is Cardinality.
LEMMA SameCardinality == \A S : Q!Cardinality(S) = Cardinality(S)
BY DEF Q!Cardinality, Cardinality

\* The first n + 1 elements of s
Upto(s, n) == IF n < Len(s) THEN SubSeq(s, 1, n + 1) ELSE s

\* The walk of ElementsOf over a chain: what it is at first, and at each step.
LEMMA UptoSteps ==
    ASSUME NEW q \in Q!TailqType, NEW s \in Seq(Tasks), Chain(q, s), NEW n \in Nat
    PROVE  /\ Upto(s, 0) = IF q.first = NoTask THEN <<>> ELSE <<q.first>>
           /\ Upto(s, n + 1) =
                 IF Upto(s, n) = <<>> \/ q.next[Upto(s, n)[Len(Upto(s, n))]] = NoTask
                 THEN Upto(s, n)
                 ELSE Append(Upto(s, n), q.next[Upto(s, n)[Len(Upto(s, n))]])
<1>0. Len(s) \in Nat /\ \A i \in 1 .. Len(s) : s[i] \in Tasks /\ s[i] # NoTask
  BY TasksAssumption
<1>1. Upto(s, 0) = IF q.first = NoTask THEN <<>> ELSE <<q.first>>
  <2>1. CASE Len(s) = 0
    <3>1. s = <<>>
      BY <2>1
    <3> QED
      BY <3>1 DEF Chain, Upto
  <2>2. CASE Len(s) > 0
    <3>1. q.first = s[1] /\ q.first # NoTask
      BY <2>2, <1>0 DEF Chain
    <3>2. Upto(s, 0) = SubSeq(s, 1, 1)
      BY <2>2 DEF Upto
    <3>3. Len(SubSeq(s, 1, 1)) = 1 /\ SubSeq(s, 1, 1)[1] = s[1]
      BY <2>2, <1>0
    <3>4. SubSeq(s, 1, 1) \in Seq(Tasks)
      BY <2>2, <1>0
    <3>5. SubSeq(s, 1, 1) = <<s[1]>>
      <4>1. <<s[1]>> \in Seq(Tasks) /\ Len(<<s[1]>>) = 1 /\ <<s[1]>>[1] = s[1]
        BY <2>2, <1>0
      <4>2. \A i \in 1 .. Len(SubSeq(s, 1, 1)) : SubSeq(s, 1, 1)[i] = <<s[1]>>[i]
        BY <3>3, <4>1
      <4> HIDE DEF Chain
      <4> QED
        BY <3>3, <3>4, <4>1, <4>2, SeqEqual, Zenon
    <3> QED
      BY <3>1, <3>2, <3>5
  <2> QED
    BY <2>1, <2>2, <1>0
<1>2. CASE n + 1 < Len(s)
  <2> DEFINE u == SubSeq(s, 1, n + 1)
             v == SubSeq(s, 1, n + 2)
  <2>1. Upto(s, n) = u /\ Upto(s, n + 1) = v
    BY <1>2, <1>0 DEF Upto
  <2>2. u \in Seq(Tasks) /\ Len(u) = n + 1 /\ u[n + 1] = s[n + 1]
    BY <1>2, <1>0
  <2>3. v \in Seq(Tasks) /\ Len(v) = n + 2 /\ \A i \in 1 .. n + 2 : v[i] = s[i]
    BY <1>2, <1>0
  <2>4. q.next[s[n + 1]] = s[n + 2] /\ s[n + 2] \in Tasks /\ s[n + 2] # NoTask
    BY <1>2, <1>0 DEF Chain
  <2>5. \A i \in 1 .. n + 1 : u[i] = s[i]
    BY <1>2, <1>0
  <2>6. v = Append(u, s[n + 2])
    <3> HIDE DEF u, v
    <3> QED
      BY <2>2, <2>3, <2>4, <2>5
  <2>7. u # <<>>
    <3> HIDE DEF u
    <3> QED
      BY <2>2
  <2> HIDE DEF u, v
  <2> QED
    BY <1>1, <2>1, <2>2, <2>4, <2>6, <2>7
<1>3. CASE ~ (n + 1 < Len(s))
  <2>1. Upto(s, n + 1) = s
    BY <1>3, <1>0 DEF Upto
  <2>2. Upto(s, n) = s
    <3>1. CASE n < Len(s)
      <4>1. Len(s) = n + 1
        BY <3>1, <1>3, <1>0
      <4>2. SubSeq(s, 1, Len(s)) = s
        BY <1>0
      <4> QED
        BY <4>1, <4>2, <3>1 DEF Upto
    <3>2. CASE ~ (n < Len(s))
      BY <3>2 DEF Upto
    <3> QED
      BY <3>1, <3>2
  <2>3. s = <<>> \/ q.next[s[Len(s)]] = NoTask
    <3>1. CASE Len(s) = 0
      BY <3>1
    <3>2. CASE Len(s) > 0
      BY <3>2, <1>0 DEF Chain
    <3> QED
      BY <3>1, <3>2, <1>0
  <2> QED
    BY <1>1, <2>1, <2>2, <2>3
<1> QED
  BY <1>2, <1>3

\* Following the pointers of a chain gives its elements: the recursive walk of
\* ElementsOf exists, by its values on a chain, and has no others, by induction.
LEMMA ChainElements ==
    ASSUME NEW q \in Q!TailqType, NEW s \in Seq(Tasks), Chain(q, s)
    PROVE  Q!ElementsOf(q) = s
<1> DEFINE C == Cardinality(Tasks)
           Walk(w, n) ==
             IF n = 0
             THEN IF q.first = NoTask THEN <<>> ELSE <<q.first>>
             ELSE LET p == w[n - 1]
                  IN  IF p = <<>> \/ q.next[p[Len(p)]] = NoTask
                      THEN p ELSE Append(p, q.next[p[Len(p)]])
           IsWalk(w) == w = [n \in 0 .. C |-> Walk(w, n)]
           walk == CHOOSE w : IsWalk(w)
           known == [n \in 0 .. C |-> Upto(s, n)]
<1>1. Q!ElementsOf(q) = walk[C]
  BY SameCardinality, Zenon DEF Q!ElementsOf
<1>2. C \in Nat /\ Len(s) \in Nat /\ Len(s) <= C
  <2>1. Distinct(s)
    BY DEF Chain
  <2> QED
    BY <2>1, TasksFinite, DistinctLen, LenProperties
<1>5. IsWalk(known)
  <2>1. ASSUME NEW n \in 0 .. C PROVE known[n] = Walk(known, n)
    <3>1. CASE n = 0
      BY <3>1, <1>2, UptoSteps
    <3>2. CASE n # 0
      <4>1. n - 1 \in Nat /\ (n - 1) + 1 = n /\ n - 1 \in 0 .. C
        BY <3>2, <1>2
      <4>2. known[n - 1] = Upto(s, n - 1) /\ known[n] = Upto(s, n)
        BY <4>1
      <4>3. Upto(s, (n - 1) + 1) =
                 IF Upto(s, n - 1) = <<>> \/ q.next[Upto(s, n - 1)[Len(Upto(s, n - 1))]] = NoTask
                 THEN Upto(s, n - 1)
                 ELSE Append(Upto(s, n - 1), q.next[Upto(s, n - 1)[Len(Upto(s, n - 1))]])
        BY <4>1, UptoSteps
      <4> HIDE DEF known
      <4> QED
        BY <4>1, <4>2, <4>3, <3>2, Zenon
    <3> QED
      BY <3>1, <3>2
  <2> HIDE DEF Walk
  <2> QED
    BY <2>1
<1>6. IsWalk(walk)
  <2> HIDE DEF IsWalk, known
  <2> QED
    BY <1>5
<1>7. \A n \in 0 .. C : walk[n] = Walk(walk, n)
  <2> HIDE DEF walk
  <2> QED
    BY <1>6
<1>8. \A n \in Nat : n <= C => walk[n] = Upto(s, n)
  <2> DEFINE S == {n \in Nat : n <= C => walk[n] = Upto(s, n)}
  <2>1. 0 \in S
    <3>1. 0 \in 0 .. C
      BY <1>2
    <3>2. walk[0] = Walk(walk, 0)
      BY <3>1, <1>7
    <3> HIDE DEF walk
    <3>3. walk[0] = Upto(s, 0)
      BY <3>2, UptoSteps
    <3> QED
      BY <3>3
  <2>2. ASSUME NEW n \in Nat, n \in S PROVE n + 1 \in S
    <3> SUFFICES ASSUME n + 1 <= C PROVE walk[n + 1] = Upto(s, n + 1)
      OBVIOUS
    <3>1. walk[n] = Upto(s, n) /\ n + 1 \in 0 .. C /\ n + 1 # 0 /\ (n + 1) - 1 = n
      BY <1>2, <2>2
    <3>2. walk[n + 1] = Walk(walk, n + 1)
      BY <3>1, <1>7
    <3>3. Upto(s, n + 1) =
                 IF Upto(s, n) = <<>> \/ q.next[Upto(s, n)[Len(Upto(s, n))]] = NoTask
                 THEN Upto(s, n)
                 ELSE Append(Upto(s, n), q.next[Upto(s, n)[Len(Upto(s, n))]])
      BY UptoSteps
    <3> HIDE DEF walk
    <3> QED
      BY <3>1, <3>2, <3>3, Zenon
  <2> HIDE DEF S
  <2>3. Nat \subseteq S
    BY <2>1, <2>2, NatSetInduction
  <2> QED
    BY <2>3 DEF S
<1>9. Upto(s, C) = s
  BY <1>2 DEF Upto
<1> HIDE DEF walk
<1> QED
  BY <1>1, <1>2, <1>8, <1>9

\* TAILQ_INSERT_TAIL of an element that is not in the list appends it.
LEMMA InsertChain ==
    ASSUME NEW q \in Q!TailqType, NEW s \in Seq(Tasks), Chain(q, s), NEW t \in Tasks,
           \A i \in 1 .. Len(s) : s[i] # t
    PROVE  Chain(Q!InsertTail(q, t), Append(s, t))
<1> DEFINE r == Q!InsertTail(q, t)
           u == Append(s, t)
<1> SUFFICES Chain(r, u)
  OBVIOUS
<1>0. Len(s) \in Nat /\ \A i \in 1 .. Len(s) : s[i] \in Tasks /\ s[i] # QueueHead
  BY TasksAssumption
<1>1. Len(u) = Len(s) + 1 /\ u[Len(s) + 1] = t /\ \A i \in 1 .. Len(s) : u[i] = s[i]
  BY <1>0
<1>2. /\ q.next \in [Tasks -> Tasks \cup {NoTask}] /\ q.prev \in [Tasks -> Tasks \cup {QueueHead}]
      /\ q.last = IF Len(s) = 0 THEN QueueHead ELSE s[Len(s)]
      /\ q.first = IF Len(s) = 0 THEN NoTask ELSE s[1]
      /\ \A i \in 1 .. Len(s) : q.next[s[i]] = IF i = Len(s) THEN NoTask ELSE s[i + 1]
      /\ \A i \in 1 .. Len(s) : q.prev[s[i]] = IF i = 1 THEN QueueHead ELSE s[i - 1]
      /\ \A i, j \in 1 .. Len(s) : s[i] = s[j] => i = j
  BY <1>0 DEF Chain, Distinct, Q!TailqType, Q!Ptr, Q!Cell
<1>3. r.last = t /\ r.prev = [q.prev EXCEPT ![t] = q.last]
  BY DEF Q!InsertTail
<1>4. CASE Len(s) = 0
  <2>1. r.first = t /\ r.next = [q.next EXCEPT ![t] = NoTask]
    BY <1>4, <1>2 DEF Q!InsertTail, Q!StoreFirst, Q!StoreNext
  <2>2. Len(u) = 1 /\ u[1] = t
    BY <1>4, <1>1
  <2>3. r.next[t] = NoTask /\ r.prev[t] = QueueHead
    BY <2>1, <1>3, <1>2, <1>4
  <2> HIDE DEF u, r
  <2> QED
    BY <2>1, <2>2, <2>3, <1>3 DEF Chain, Distinct
<1>5. CASE Len(s) > 0
  <2> DEFINE l == s[Len(s)]
  <2>1. q.last = l /\ l \in Tasks /\ l # QueueHead /\ l # t
    BY <1>5, <1>0, <1>2
  <2>2. r.first = s[1] /\ r.next = [[q.next EXCEPT ![t] = NoTask] EXCEPT ![l] = t]
    BY <1>5, <1>2, <2>1 DEF Q!InsertTail, Q!StoreFirst, Q!StoreNext
  <2>3. r.next[t] = NoTask /\ r.prev[t] = l
    BY <2>1, <2>2, <1>3, <1>2
  <2>4. ASSUME NEW i \in 1 .. Len(s)
        PROVE  /\ r.next[s[i]] = IF i = Len(s) THEN t ELSE s[i + 1]
               /\ r.prev[s[i]] = IF i = 1 THEN QueueHead ELSE s[i - 1]
    <3>1. s[i] \in Tasks /\ s[i] # t /\ (s[i] = l <=> i = Len(s))
      BY <1>0, <1>2, <1>5
    <3> HIDE DEF l, r
    <3> QED
      BY <3>1, <2>2, <1>3, <1>2
  <2>5. Len(u) # 0 /\ u[1] = s[1] /\ u[Len(u)] = t
    BY <1>1, <1>5, <1>0
  <2>6. \A i \in 1 .. Len(u) : r.next[u[i]] = IF i = Len(u) THEN NoTask ELSE u[i + 1]
    <3> HIDE DEF u, r, l
    <3>1. \A i \in 1 .. Len(u) : i = Len(s) + 1 \/ i \in 1 .. Len(s)
      BY <1>0, <1>1
    <3> QED
      BY <3>1, <2>3, <2>4, <1>1, <1>0
  <2>7. \A i \in 1 .. Len(u) : r.prev[u[i]] = IF i = 1 THEN QueueHead ELSE u[i - 1]
    <3>0. l = s[Len(s)]
      OBVIOUS
    <3> HIDE DEF u, r, l
    <3>1. \A i \in 1 .. Len(u) : i = Len(s) + 1 \/ i \in 1 .. Len(s)
      BY <1>0, <1>1
    <3>2. Len(s) + 1 # 1 /\ u[(Len(s) + 1) - 1] = s[Len(s)]
      BY <1>0, <1>1, <1>5
    <3>3. \A i \in 1 .. Len(s) : i # 1 => u[i - 1] = s[i - 1]
      <4>1. \A i \in 1 .. Len(s) : i # 1 => i - 1 \in 1 .. Len(s)
        BY <1>0
      <4> QED
        BY <4>1, <1>1
    <3> QED
      BY <3>0, <3>1, <3>2, <3>3, <2>3, <2>4, <1>1
  <2>8. Distinct(u)
    <3> HIDE DEF u, r, l
    <3>1. \A i \in 1 .. Len(u) : i = Len(s) + 1 \/ i \in 1 .. Len(s)
      BY <1>0, <1>1
    <3> QED
      BY <3>1, <1>0, <1>1, <1>2 DEF Distinct
  <2> HIDE DEF u, r, l
  <2> QED
    BY <2>2, <2>5, <2>6, <2>7, <2>8, <1>3 DEF Chain
<1> QED
  BY <1>0, <1>4, <1>5

\* TAILQ_REMOVE of the first element leaves the rest.
LEMMA RemoveChain ==
    ASSUME NEW q \in Q!TailqType, NEW s \in Seq(Tasks), Chain(q, s), s # <<>>
    PROVE  Chain(Q!Remove(q, s[1]), Tail(s))
<1> DEFINE r == Q!Remove(q, s[1])
           u == Tail(s)
<1> SUFFICES Chain(r, u)
  OBVIOUS
<1>0. /\ Len(s) \in Nat /\ Len(s) > 0
      /\ \A i \in 1 .. Len(s) : s[i] \in Tasks /\ s[i] # QueueHead /\ s[i] # NoTask
  BY TasksAssumption
<1>1. Len(u) = Len(s) - 1 /\ \A i \in 1 .. Len(u) : u[i] = s[i + 1]
  BY <1>0
<1>2. /\ q.next \in [Tasks -> Tasks \cup {NoTask}] /\ q.prev \in [Tasks -> Tasks \cup {QueueHead}]
      /\ q.last = s[Len(s)] /\ q.first = s[1]
      /\ \A i \in 1 .. Len(s) : q.next[s[i]] = IF i = Len(s) THEN NoTask ELSE s[i + 1]
      /\ \A i \in 1 .. Len(s) : q.prev[s[i]] = IF i = 1 THEN QueueHead ELSE s[i - 1]
      /\ \A i, j \in 1 .. Len(s) : s[i] = s[j] => i = j
  BY <1>0 DEF Chain, Distinct, Q!TailqType, Q!Ptr, Q!Cell
<1>3. q.prev[s[1]] = QueueHead /\ q.next[s[1]] = IF Len(s) = 1 THEN NoTask ELSE s[2]
  <2>1. 1 \in 1 .. Len(s) /\ 1 + 1 = 2
    BY <1>0
  <2> HIDE DEF u, r
  <2> QED
    BY <2>1, <1>2
<1>4. r.next = q.next /\ r.first = q.next[s[1]]
  BY <1>3 DEF Q!Remove, Q!StoreFirst, Q!StoreNext
<1>5. CASE Len(s) = 1
  <2>1. r.first = NoTask /\ r.last = QueueHead
    BY <1>3, <1>4, <1>5 DEF Q!Remove
  <2>2. Len(u) = 0
    <3> HIDE DEF u
    <3> QED
      BY <1>0, <1>1, <1>5
  <2> HIDE DEF u, r
  <2> QED
    BY <2>1, <2>2 DEF Chain, Distinct
<1>6. CASE Len(s) > 1
  <2>1. s[2] \in Tasks /\ s[2] # NoTask /\ q.next[s[1]] = s[2]
    BY <1>6, <1>0, <1>3
  <2>2. r.first = s[2] /\ r.last = s[Len(s)] /\ r.prev = [q.prev EXCEPT ![s[2]] = QueueHead]
    BY <2>1, <1>2, <1>3, <1>4 DEF Q!Remove
  <2>3. Len(u) # 0 /\ u[1] = s[2] /\ u[Len(u)] = s[Len(s)]
    <3> HIDE DEF u
    <3> QED
      BY <1>0, <1>1, <1>6
  <2>4. ASSUME NEW i \in 1 .. Len(u)
        PROVE  /\ r.next[u[i]] = IF i = Len(u) THEN NoTask ELSE u[i + 1]
               /\ r.prev[u[i]] = IF i = 1 THEN QueueHead ELSE u[i - 1]
    <3>1. i + 1 \in 1 .. Len(s) /\ u[i] = s[i + 1] /\ i + 1 # 1
      BY <1>0, <1>1
    <3>2. q.next[s[i + 1]] = IF i + 1 = Len(s) THEN NoTask ELSE s[(i + 1) + 1]
      BY <3>1, <1>2
    <3>3. q.prev[s[i + 1]] = s[(i + 1) - 1]
      BY <3>1, <1>2
    <3>4. (s[i + 1] = s[2] <=> i = 1) /\ s[i + 1] \in Tasks
      BY <3>1, <1>2, <1>0, <1>6
    <3>5. i # Len(u) => u[i + 1] = s[(i + 1) + 1]
      <4>0. Len(u) \in Nat
        BY <1>0, <1>1
      <4>1. i # Len(u) => i + 1 \in 1 .. Len(u)
        BY <4>0
      <4> HIDE DEF u
      <4> QED
        BY <4>1, <1>1
    <3>6. i # 1 => u[i - 1] = s[(i + 1) - 1]
      <4>1. i # 1 => i - 1 \in 1 .. Len(u) /\ (i - 1) + 1 = (i + 1) - 1
        OBVIOUS
      <4> HIDE DEF u
      <4> QED
        BY <4>1, <1>1
    <3> HIDE DEF u, r
    <3> QED
      BY <3>1, <3>2, <3>3, <3>4, <3>5, <3>6, <2>2, <1>4, <1>1, <1>2, <1>0
  <2>5. Distinct(u)
    <3>1. ASSUME NEW i \in 1 .. Len(u), NEW j \in 1 .. Len(u), u[i] = u[j] PROVE i = j
      <4> HIDE DEF u
      <4>1. i + 1 \in 1 .. Len(s) /\ j + 1 \in 1 .. Len(s)
        <5>1. Len(u) = Len(s) - 1 /\ Len(s) \in Nat
          BY <1>0, <1>1
        <5> QED
          BY <5>1
      <4>2. s[i + 1] = s[j + 1]
        BY <3>1, <1>1
      <4> QED
        BY <4>1, <4>2, <1>2
    <3> HIDE DEF u
    <3> QED
      BY <3>1 DEF Distinct
  <2> HIDE DEF u, r
  <2> QED
    BY <2>2, <2>3, <2>4, <2>5 DEF Chain
<1>7. Len(s) = 1 \/ Len(s) > 1
  <2> DEFINE n == Len(s)
  <2>1. n \in Nat /\ n > 0
    BY <1>0
  <2> HIDE DEF n
  <2>2. n = 1 \/ n > 1
    BY <2>1
  <2> QED
    BY <2>2 DEF n
<1> QED
  BY <1>5, <1>6, <1>7

(***************************************************************************)
(* The invariant of the queue, while no two calls of sdmmc_needs_discover  *)
(* have overlapped.  QueueSound alone is not inductive: an insertion keeps *)
(* the list sound only because the task is idle (AddsIdle, RequestsOnce), a *)
(* removal only because the task in hand is still the head (InHand).       *)
(***************************************************************************)

\* At most one thread is between the test and the insertion of
\* sdmmc_needs_discover, and the discover task is idle then.
Alone == \A t, u \in Threads : pc[t] = "add" /\ pc[u] = "add" => t = u
AddsIdle == (\E t \in Threads : pc[t] = "add") => ~onqueue[DiscoverTask]

\* A request is on the list only once it was queued and before it has run.
RequestsOnce ==
    \A r \in ReadTasks : /\ onqueue[r] => r \in queued /\ r \notin ran
                         /\ r \in ran => r \in queued

\* The task that the thread has chosen is still the head, and the one it is about
\* to run is off the list.
InHand ==
    /\ pc[TaskThread] = "del" => cur = tskq.first
    /\ pc[TaskThread] = "run" /\ cur \in ReadTasks =>
          ~onqueue[cur] /\ cur \in queued /\ cur \notin ran

Members(s) == {s[i] : i \in 1 .. Len(s)}
Listed == \E s \in Seq(Tasks) : Chain(tskq, s) /\ Members(s) = {t \in Tasks : onqueue[t]}

QueueInv == hasSc = onqueue /\ Alone /\ AddsIdle /\ RequestsOnce /\ InHand /\ Listed
QInv == ~overlap => QueueInv

\* sdmmc_add_task of an idle task keeps the list sound, and the head if it has one.
LEMMA AddKeepsList ==
    ASSUME TypeOK, Listed, NEW t \in Tasks, ~onqueue[t], AddTask(t)
    PROVE  Listed' /\ (tskq.first \in Tasks => tskq'.first = tskq.first)
<1>1. PICK s \in Seq(Tasks) : Chain(tskq, s) /\ Members(s) = {x \in Tasks : onqueue[x]}
  BY DEF Listed
<1>2. tskq \in Q!TailqType /\ onqueue \in [Tasks -> BOOLEAN]
  BY DEF TypeOK, DataOK
<1>3. \A i \in 1 .. Len(s) : s[i] # t
  BY <1>1 DEF Members
<1> DEFINE u == Append(s, t)
<1>4. Chain(tskq', u) /\ u \in Seq(Tasks)
  BY <1>1, <1>2, <1>3, InsertChain DEF AddTask
<1>5. Len(s) \in Nat /\ Len(u) = Len(s) + 1 /\ u[Len(s) + 1] = t
      /\ \A i \in 1 .. Len(s) : u[i] = s[i]
  OBVIOUS
<1>6. Members(u) = Members(s) \cup {t}
  <2> HIDE DEF u
  <2>1. \A i \in 1 .. Len(u) : i \in 1 .. Len(s) \/ i = Len(s) + 1
    BY <1>5
  <2>2. \A i \in 1 .. Len(s) : i \in 1 .. Len(u)
    BY <1>5
  <2>3. Len(s) + 1 \in 1 .. Len(u)
    BY <1>5
  <2> QED
    BY <2>1, <2>2, <2>3, <1>5 DEF Members
<1>7. Members(u) = {x \in Tasks : onqueue'[x]}
  BY <1>1, <1>2, <1>6 DEF AddTask
<1>8. Listed'
  BY <1>4, <1>7 DEF Listed
<1>9. tskq.first \in Tasks => tskq'.first = tskq.first
  <2> SUFFICES ASSUME tskq.first \in Tasks PROVE tskq'.first = tskq.first
    OBVIOUS
  <2>1. Len(s) # 0 /\ tskq.first = s[1]
    BY <1>1, TasksAssumption DEF Chain
  <2>2. tskq'.first = u[1] /\ u[1] = s[1]
    BY <1>4, <1>5, <2>1 DEF Chain
  <2> QED
    BY <2>1, <2>2
<1> QED
  BY <1>8, <1>9

\* sdmmc_del_task of the head keeps the list sound, and the head was pending.
LEMMA DelKeepsList ==
    ASSUME TypeOK, Listed, cur \in Tasks, cur = tskq.first, hasSc = onqueue, DelTask(cur)
    PROVE  /\ onqueue[cur] /\ Listed'
           /\ onqueue' = [onqueue EXCEPT ![cur] = FALSE] /\ hasSc' = onqueue'
<1>1. PICK s \in Seq(Tasks) : Chain(tskq, s) /\ Members(s) = {x \in Tasks : onqueue[x]}
  BY DEF Listed
<1>2. tskq \in Q!TailqType /\ onqueue \in [Tasks -> BOOLEAN]
  BY DEF TypeOK, DataOK
<1>3. Len(s) # 0 /\ tskq.first = s[1]
  BY <1>1, TasksAssumption DEF Chain
<1>4. Len(s) \in Nat /\ 1 \in 1 .. Len(s) /\ s # <<>>
  BY <1>3
<1>5. onqueue[cur] /\ s[1] = cur
  BY <1>1, <1>3, <1>4 DEF Members
<1>6. tskq' = Q!Remove(tskq, cur) /\ onqueue' = [onqueue EXCEPT ![cur] = FALSE]
      /\ hasSc' = [hasSc EXCEPT ![cur] = FALSE]
  BY <1>5 DEF DelTask
<1> DEFINE u == Tail(s)
<1>7. Chain(tskq', u) /\ u \in Seq(Tasks)
  BY <1>1, <1>2, <1>4, <1>5, <1>6, RemoveChain
<1>8. Len(u) = Len(s) - 1 /\ \A i \in 1 .. Len(u) : u[i] = s[i + 1]
  BY <1>4
<1>9. Members(u) = Members(s) \ {cur}
  <2>0. \A i, j \in 1 .. Len(s) : s[i] = s[j] => i = j
    BY <1>1 DEF Chain, Distinct
  <2> HIDE DEF u
  <2>1. \A i \in 1 .. Len(u) : i + 1 \in 1 .. Len(s) /\ i + 1 # 1
    BY <1>4, <1>8
  <2>2. \A i \in 1 .. Len(s) : i # 1 => i - 1 \in 1 .. Len(u) /\ (i - 1) + 1 = i
    BY <1>4, <1>8
  <2>3. \A i \in 1 .. Len(s) : i # 1 => s[i] = u[i - 1]
    BY <2>2, <1>8
  <2>4. \A x \in Members(u) : x \in Members(s) /\ x # cur
    BY <2>0, <2>1, <1>4, <1>5, <1>8 DEF Members
  <2>5. \A x \in Members(s) : x # cur => x \in Members(u)
    BY <2>2, <2>3, <1>5 DEF Members
  <2> QED
    BY <2>4, <2>5
<1>10. Members(u) = {x \in Tasks : onqueue'[x]}
  BY <1>1, <1>2, <1>6, <1>9
<1>11. Listed'
  BY <1>7, <1>10 DEF Listed
<1> QED
  BY <1>5, <1>6, <1>11

\* The list of the invariant is the one IsListOf finds by following the pointers.
LEMMA ListedSound ==
    ASSUME TypeOK, Listed
    PROVE  Q!IsListOf(tskq, {t \in Tasks : onqueue[t]})
<1>1. PICK s \in Seq(Tasks) : Chain(tskq, s) /\ Members(s) = {x \in Tasks : onqueue[x]}
  BY DEF Listed
<1>2. tskq \in Q!TailqType
  BY DEF TypeOK, DataOK
<1>3. Q!ElementsOf(tskq) = s
  BY <1>1, <1>2, ChainElements
<1>4. Distinct(s)
  BY <1>1 DEF Chain
<1>5. Len(s) = Cardinality({x \in Tasks : onqueue[x]})
  BY <1>1, <1>4, DistinctLen DEF Members
<1>6. Len(s) = 0 <=> s = <<>>
  OBVIOUS
<1>7. Len(s) = Q!Cardinality({x \in Tasks : onqueue[x]})
  BY <1>5, SameCardinality
<1>8. \A i \in 1 .. Len(s) : tskq.prev[s[i]] = IF i = 1 THEN QueueHead ELSE s[i - 1]
  BY <1>1 DEF Chain
<1>9. tskq.last = IF s = <<>> THEN QueueHead ELSE s[Len(s)]
  BY <1>1, <1>6 DEF Chain
<1>10. {s[i] : i \in 1 .. Len(s)} = {x \in Tasks : onqueue[x]}
  BY <1>1 DEF Members
<1> DEFINE S == {x \in Tasks : onqueue[x]}
<1>11. Len(s) = Q!Cardinality(S) /\ {s[i] : i \in 1 .. Len(s)} = S
  BY <1>7, <1>10
<1> HIDE DEF S
<1>12. Q!IsListOf(tskq, S)
  BY <1>3, <1>11, <1>8, <1>9 DEF Q!IsListOf
<1> QED
  BY <1>12 DEF S

\* A step that leaves the queue alone
Quiet == UNCHANGED <<tskq, onqueue, hasSc>>

\* The test of sdmmc_needs_discover keeps the queue's invariant until it meets
\* another thread that is between its test and its insertion.
LEMMA CheckKeeps ==
    ASSUME TypeOK, IInv, QueueInv, NEW t \in Threads, NEW done, NeedsCheck(t, done), ~overlap',
           done # "add", pc[t] # "add", t = TaskThread => pc[t] = "needs" /\ done = "lock",
           UNCHANGED queued
    PROVE  QueueInv'
<1>1. Quiet /\ UNCHANGED <<cur, ran, queued>>
  BY DEF NeedsCheck, Quiet
<1>2. CASE onqueue[DiscoverTask]
  <2>1. pc' = [pc EXCEPT ![t] = done]
    BY <1>2 DEF NeedsCheck, Goto
  <2> QED
    BY <1>1, <2>1 DEF Quiet, QueueInv, Alone, AddsIdle, RequestsOnce, InHand, Listed, TypeOK, PCOK
<1>3. CASE ~onqueue[DiscoverTask]
  <2>1. pc' = [pc EXCEPT ![t] = "add"] /\ \A u \in Threads \ {t} : pc[u] # "add"
    BY <1>3 DEF NeedsCheck, Goto, TypeOK, DataOK
  <2>2. \A u \in Threads : pc'[u] = "add" => u = t
    BY <2>1 DEF TypeOK, PCOK
  <2>3. Alone' /\ AddsIdle'
    BY <2>2, <1>1, <1>3 DEF Quiet, Alone, AddsIdle
  <2>4. t # TaskThread => pc'[TaskThread] = pc[TaskThread]
    BY <2>1 DEF TypeOK, PCOK, Threads
  <2>5. t = TaskThread => pc'[TaskThread] = "add"
    BY <2>1 DEF TypeOK, PCOK, Threads
  <2>6. InHand'
    BY <2>4, <2>5, <1>1 DEF Quiet, InHand, QueueInv
  <2>7. RequestsOnce' /\ Listed' /\ hasSc' = onqueue'
    BY <1>1 DEF Quiet, QueueInv, RequestsOnce, Listed
  <2> QED
    BY <2>3, <2>6, <2>7 DEF QueueInv
<1> QED
  BY <1>2, <1>3

\* So does its insertion.
LEMMA NeedsAddKeeps ==
    ASSUME TypeOK, IInv, QueueInv, NEW t \in Threads, NEW done, NeedsAdd(t, done),
           done \notin {"add", "del", "run"}
    PROVE  QueueInv'
<1>1. pc[t] = "add" /\ ~onqueue[DiscoverTask] /\ DiscoverTask \in Tasks /\ AddTask(DiscoverTask)
  BY DEF NeedsAdd, QueueInv, AddsIdle, Tasks
<1>2. Listed' /\ (tskq.first \in Tasks => tskq'.first = tskq.first)
  BY <1>1, AddKeepsList DEF QueueInv
<1>3. onqueue' = [onqueue EXCEPT ![DiscoverTask] = TRUE] /\ hasSc' = onqueue'
      /\ UNCHANGED <<cur, ran, queued>>
  BY <1>1 DEF AddTask, NeedsAdd, QueueInv
<1>4. \A u \in Threads : pc'[u] # "add"
  <2>1. \A u \in Threads \ {t} : pc[u] # "add"
    BY <1>1 DEF QueueInv, Alone
  <2> QED
    BY <2>1 DEF NeedsAdd, Wakeup, TypeOK, PCOK
<1>5. pc'[TaskThread] \in {"del", "run"} => pc'[TaskThread] = pc[TaskThread]
  BY DEF NeedsAdd, Wakeup, TypeOK, PCOK, Threads
<1>6. \A r \in ReadTasks : onqueue'[r] = onqueue[r]
  BY <1>3, TasksAssumption DEF TypeOK, DataOK, Tasks
<1>7. Alone' /\ AddsIdle'
  BY <1>4 DEF Alone, AddsIdle
<1>8. RequestsOnce'
  BY <1>3, <1>6 DEF QueueInv, RequestsOnce
<1>9. InHand'
  BY <1>2, <1>3, <1>5, <1>6 DEF QueueInv, InHand, IInv, CurHeld
<1> QED
  BY <1>2, <1>3, <1>7, <1>8, <1>9 DEF QueueInv

\* So does a new request.
LEMMA SubmitKeeps ==
    ASSUME TypeOK, IInv, QueueInv, NEW r \in ReadTasks, SubmitRead(r)
    PROVE  QueueInv'
<1>1. r \in Tasks /\ ~onqueue[r] /\ AddTask(r) /\ r \notin ran /\ r # DiscoverTask
  BY TasksAssumption DEF SubmitRead, Tasks, QueueInv, RequestsOnce
<1>2. Listed' /\ (tskq.first \in Tasks => tskq'.first = tskq.first)
  BY <1>1, AddKeepsList DEF QueueInv
<1>3. onqueue' = [onqueue EXCEPT ![r] = TRUE] /\ hasSc' = onqueue'
      /\ queued' = queued \cup {r} /\ UNCHANGED <<cur, ran>>
  BY <1>1 DEF AddTask, SubmitRead, QueueInv
<1>4. \A u \in Threads : pc'[u] = "add" <=> pc[u] = "add"
  BY DEF SubmitRead, Wakeup, TypeOK, PCOK
<1>5. pc'[TaskThread] \in {"del", "run"} => pc'[TaskThread] = pc[TaskThread]
  BY DEF SubmitRead, Wakeup, TypeOK, PCOK, Threads
<1>6. onqueue'[r] /\ \A t \in Tasks \ {r} : onqueue'[t] = onqueue[t]
  BY <1>1, <1>3 DEF TypeOK, DataOK
<1>7. Alone' /\ AddsIdle'
  BY <1>1, <1>4, <1>6 DEF QueueInv, Alone, AddsIdle, Tasks
<1>8. RequestsOnce'
  BY <1>1, <1>3, <1>6 DEF QueueInv, RequestsOnce, Tasks
<1>9. InHand'
  <2>1. pc[TaskThread] = "run" /\ cur \in ReadTasks => cur # r
    BY DEF QueueInv, InHand, SubmitRead
  <2> QED
    BY <2>1, <1>2, <1>3, <1>5, <1>6 DEF QueueInv, InHand, IInv, CurHeld, Tasks
<1> QED
  BY <1>2, <1>3, <1>7, <1>8, <1>9 DEF QueueInv

\* So does the task thread's sdmmc_del_task, which leaves the task in hand idle.
LEMMA DelKeeps ==
    ASSUME TypeOK, IInv, QueueInv, TaskDel
    PROVE  QueueInv'
<1>1. cur \in Tasks /\ cur = tskq.first /\ DelTask(cur) /\ hasSc = onqueue
  BY DEF TaskDel, IInv, CurHeld, QueueInv, InHand
<1>2. onqueue[cur] /\ Listed' /\ onqueue' = [onqueue EXCEPT ![cur] = FALSE] /\ hasSc' = onqueue'
  BY <1>1, DelKeepsList DEF QueueInv
<1>3. pc' = [pc EXCEPT ![TaskThread] = "run"] /\ UNCHANGED <<cur, queued, ran>>
  BY DEF TaskDel, Goto
<1>4. ~onqueue'[cur] /\ \A t \in Tasks : onqueue'[t] => onqueue[t]
  BY <1>1, <1>2 DEF TypeOK, DataOK
<1>5. \A u \in Threads : pc'[u] = "add" => pc[u] = "add"
  BY <1>3 DEF TypeOK, PCOK
<1>6. Alone' /\ AddsIdle'
  BY <1>4, <1>5 DEF QueueInv, Alone, AddsIdle, Tasks
<1>7. RequestsOnce'
  BY <1>3, <1>4 DEF QueueInv, RequestsOnce, Tasks
<1>8. pc'[TaskThread] = "run"
  BY <1>3 DEF TypeOK, PCOK, Threads
<1>9. InHand'
  BY <1>2, <1>3, <1>4, <1>8 DEF QueueInv, InHand, RequestsOnce
<1> QED
  BY <1>2, <1>6, <1>7, <1>9 DEF QueueInv

\* So does the call of the task's function.
LEMMA RunKeeps ==
    ASSUME TypeOK, IInv, QueueInv, TaskRun
    PROVE  QueueInv'
<1>1. Quiet /\ UNCHANGED <<cur, queued>> /\ pc' = [pc EXCEPT ![TaskThread] = "relock"]
  BY DEF TaskRun, Goto, Quiet
<1>2. \A u \in Threads : pc'[u] = "add" => pc[u] = "add"
  BY <1>1 DEF TypeOK, PCOK
<1>3. pc'[TaskThread] = "relock"
  BY <1>1 DEF TypeOK, PCOK, Threads
<1>4. ran' = ran \/ (cur \in ReadTasks /\ ran' = ran \cup {cur})
  BY DEF TaskRun, RunDiscover, RunRead
<1>5. RequestsOnce'
  <2>1. pc[TaskThread] = "run"
    BY DEF TaskRun
  <2> QED
    BY <1>1, <1>4, <2>1 DEF Quiet, QueueInv, RequestsOnce, InHand
<1> QED
  BY <1>1, <1>2, <1>3, <1>5 DEF Quiet, QueueInv, Alone, AddsIdle, InHand, Listed

\* So does a step that leaves the queue, and the task in hand, alone.
LEMMA OtherKeeps ==
    ASSUME TypeOK, QueueInv, Quiet, UNCHANGED <<queued, ran>>,
           \A u \in Threads : pc'[u] = "add" => pc[u] = "add",
           pc'[TaskThread] \notin {"del", "run"} \/ UNCHANGED <<pc[TaskThread], cur>>
             \/ (pc'[TaskThread] = "del" /\ cur' = tskq.first)
    PROVE  QueueInv'
BY DEF Quiet, QueueInv, Alone, AddsIdle, RequestsOnce, InHand, Listed

\* Every step keeps the queue's invariant as long as no two calls overlap.
LEMMA QueueStep ==
    ASSUME IInv, QInv, [Next]_vars
    PROVE  QInv'
<1> SUFFICES ASSUME ~overlap' PROVE QueueInv'
  BY DEF QInv
<1>t. TypeOK /\ PCOK
  BY DEF IInv, TypeOK
<1>a. /\ \A c \in Callers : c \in Threads /\ c # TaskThread
      /\ TaskThread \in Threads /\ PMThread \in Threads /\ StopThread \in Threads
      /\ PMThread # TaskThread /\ StopThread # TaskThread
  BY ThreadsAssumption DEF Threads
<1>b. overlap => overlap'
  BY DEF Next, TaskStep, PMStep, CallerCheck, CallerAdd, SubmitRead, TaskNeeds, TaskAdd, TaskWhile,
         TaskScan, TaskDel, TaskRun, TaskRelock, TaskSleep, TaskExit, TaskRestart, Suspend,
         SuspendSetDying, ResumeNeeds, ResumeAdd, ResumeWakeup, DetachBegin, DetachPoll,
         NeedsCheck, NeedsAdd, vars
<1>q. QueueInv
  BY <1>b DEF QInv
<1>1. ASSUME NEW c \in Callers, CallerCheck(c) PROVE QueueInv'
  BY <1>1, <1>t, <1>a, <1>q, CheckKeeps DEF CallerCheck, NeedsCheck
<1>2. ASSUME NEW c \in Callers, CallerAdd(c) PROVE QueueInv'
  BY <1>2, <1>t, <1>a, <1>q, NeedsAddKeeps DEF CallerAdd
<1>3. ASSUME NEW r \in ReadTasks, SubmitRead(r) PROVE QueueInv'
  BY <1>3, <1>t, <1>q, SubmitKeeps
<1>4. CASE TaskNeeds
  BY <1>4, <1>t, <1>a, <1>q, CheckKeeps DEF TaskNeeds, NeedsCheck
<1>5. CASE TaskAdd
  BY <1>5, <1>t, <1>a, <1>q, NeedsAddKeeps DEF TaskAdd
<1>6. CASE TaskWhile
  BY <1>6, <1>t, <1>a, <1>q, OtherKeeps DEF TaskWhile, Goto, Quiet, PCOK
<1>7. CASE TaskScan
  BY <1>7, <1>t, <1>a, <1>q, OtherKeeps DEF TaskScan, Goto, Quiet, PCOK
<1>8. CASE TaskDel
  BY <1>8, <1>t, <1>q, DelKeeps
<1>9. CASE TaskRun
  BY <1>9, <1>t, <1>q, RunKeeps
<1>10. CASE TaskRelock
  BY <1>10, <1>t, <1>a, <1>q, OtherKeeps DEF TaskRelock, Goto, Quiet, PCOK
<1>11. CASE TaskSleep
  BY <1>11, <1>t, <1>a, <1>q, OtherKeeps DEF TaskSleep, Goto, Quiet, PCOK
<1>12. CASE TaskExit
  BY <1>12, <1>t, <1>a, <1>q, OtherKeeps DEF TaskExit, Goto, Quiet, PCOK
<1>13. CASE TaskRestart
  BY <1>13, <1>t, <1>a, <1>q, OtherKeeps DEF TaskRestart, Goto, Quiet, PCOK
<1>14. CASE Suspend
  BY <1>14, <1>t, <1>a, <1>q, OtherKeeps DEF Suspend, Goto, Quiet, PCOK
<1>15. CASE SuspendSetDying
  BY <1>15, <1>t, <1>a, <1>q, OtherKeeps DEF SuspendSetDying, Goto, Quiet, PCOK
<1>16. CASE ResumeNeeds
  BY <1>16, <1>t, <1>a, <1>q, CheckKeeps DEF ResumeNeeds, NeedsCheck
<1>17. CASE ResumeAdd
  BY <1>17, <1>t, <1>a, <1>q, NeedsAddKeeps DEF ResumeAdd
<1>18. CASE ResumeWakeup
  BY <1>18, <1>t, <1>a, <1>q, OtherKeeps DEF ResumeWakeup, Wakeup, Quiet, PCOK
<1>19. CASE DetachBegin
  BY <1>19, <1>t, <1>a, <1>q, OtherKeeps DEF DetachBegin, Goto, Quiet, PCOK
<1>20. CASE DetachPoll
  BY <1>20, <1>t, <1>a, <1>q, OtherKeeps DEF DetachPoll, Wakeup, Quiet, PCOK
<1>21. CASE UNCHANGED vars
  BY <1>21, <1>t, <1>a, <1>q, OtherKeeps DEF vars, Quiet, PCOK
<1> QED
  BY <1>1, <1>2, <1>3, <1>4, <1>5, <1>6, <1>7, <1>8, <1>9, <1>10, <1>11,
     <1>12, <1>13, <1>14, <1>15, <1>16, <1>17, <1>18, <1>19, <1>20,
     <1>21
  DEF Next, TaskStep, PMStep

\* The queue is empty at first.
LEMMA InitQueue == Init => QInv
<1> SUFFICES ASSUME Init PROVE QueueInv
  BY DEF QInv
<1>1. hasSc = onqueue /\ RequestsOnce
  BY DEF Init, RequestsOnce, Tasks
<1>2. \A t \in Threads : pc[t] \notin {"add", "del", "run"}
  BY DEF Init
<1>3. TaskThread \in Threads
  BY DEF Threads
<1>4. Listed
  <2>1. <<>> \in Seq(Tasks) /\ Chain(tskq, <<>>)
    BY DEF Init, Chain, Distinct, Q!EmptyTailq
  <2>2. Members(<<>>) = {t \in Tasks : onqueue[t]}
    BY DEF Init, Members
  <2> QED
    BY <2>1, <2>2 DEF Listed
<1> QED
  BY <1>1, <1>2, <1>3, <1>4 DEF QueueInv, Alone, AddsIdle, InHand

\* Both invariants hold in every reachable state.
LEMMA QueueInductive == Spec => [](IInv /\ QInv)
<1>1. Init => IInv /\ QInv
  BY InitIInv, InitQueue
<1>2. (IInv /\ QInv) /\ [Next]_vars => (IInv /\ QInv)'
  BY InductiveStep, QueueStep
<1> QED
  BY <1>1, <1>2, PTL DEF Spec

\* However many threads add tasks, sc_tskq is a sound list of exactly the pending
\* tasks, each once, and no request is run twice, until two calls of
\* sdmmc_needs_discover overlap.
THEOREM ListStaysSound == Spec => []QueueSound
<1>1. IInv /\ QInv => QueueSound
  <2> SUFFICES ASSUME IInv, QInv, ~overlap
               PROVE  /\ Q!IsListOf(tskq, {t \in Tasks : onqueue[t]})
                      /\ hasSc = onqueue
                      /\ pc[TaskThread] \in {"del", "run"} => cur \notin ran
    BY DEF QueueSound
  <2>1. QueueInv /\ TypeOK
    BY DEF QInv, IInv
  <2>2. Q!IsListOf(tskq, {t \in Tasks : onqueue[t]})
    BY <2>1, ListedSound DEF QueueInv
  <2>3. pc[TaskThread] \in {"del", "run"} => cur \notin ran
    <3>1. CASE pc[TaskThread] = "run"
      BY <2>1, <3>1 DEF QueueInv, InHand, TypeOK, DataOK
    <3>2. CASE pc[TaskThread] = "del"
      <4>1. cur \in Tasks /\ cur = tskq.first
        BY <2>1, <3>2 DEF QueueInv, InHand, IInv, CurHeld
      <4>2. onqueue[cur]
        <5>1. PICK s \in Seq(Tasks) : Chain(tskq, s) /\ Members(s) = {x \in Tasks : onqueue[x]}
          BY <2>1 DEF QueueInv, Listed
        <5>2. Len(s) # 0 /\ tskq.first = s[1]
          BY <4>1, <5>1, TasksAssumption DEF Chain
        <5>3. s[1] \in Members(s)
          BY <5>2 DEF Members
        <5> QED
          BY <4>1, <5>1, <5>2, <5>3
      <4> QED
        BY <4>1, <4>2, <2>1 DEF QueueInv, RequestsOnce, TypeOK, DataOK
    <3> QED
      BY <3>1, <3>2
  <2> QED
    BY <2>1, <2>2, <2>3 DEF QueueInv
<1> QED
  BY <1>1, QueueInductive, PTL

(***************************************************************************)
(* The driver implements the FIFO.                                         *)
(***************************************************************************)

\* The safety part of Fifo!Spec
FifoSafety == Fifo!Init /\ [][Fifo!Next]_(Fifo!fifoVars)

\* What sdmmc_add_task does to the elements met on the pointers
LEMMA AddAppends ==
    ASSUME TypeOK, Listed, NEW t \in Tasks, ~onqueue[t], AddTask(t)
    PROVE  /\ \A i \in 1 .. Len(Q!ElementsOf(tskq)) : Q!ElementsOf(tskq)[i] # t
           /\ Q!ElementsOf(tskq)' = Append(Q!ElementsOf(tskq), t)
<1>1. PICK s \in Seq(Tasks) : Chain(tskq, s) /\ Members(s) = {x \in Tasks : onqueue[x]}
  BY DEF Listed
<1>2. tskq \in Q!TailqType
  BY DEF TypeOK, DataOK
<1>3. Q!ElementsOf(tskq) = s
  BY <1>1, <1>2, ChainElements
<1>4. \A i \in 1 .. Len(s) : s[i] # t
  BY <1>1 DEF Members
<1>5. Chain(tskq', Append(s, t)) /\ Append(s, t) \in Seq(Tasks) /\ tskq' \in Q!TailqType
  BY <1>1, <1>2, <1>4, InsertChain, InsertTailType DEF AddTask
<1>6. Q!ElementsOf(tskq') = Append(s, t)
  BY <1>5, ChainElements
<1> QED
  BY <1>3, <1>4, <1>6

\* What sdmmc_del_task of the head does to them
LEMMA DelTakes ==
    ASSUME TypeOK, Listed, cur \in Tasks, cur = tskq.first, hasSc = onqueue, DelTask(cur)
    PROVE  /\ Q!ElementsOf(tskq) # <<>>
           /\ Q!ElementsOf(tskq)' = Tail(Q!ElementsOf(tskq))
<1>1. PICK s \in Seq(Tasks) : Chain(tskq, s) /\ Members(s) = {x \in Tasks : onqueue[x]}
  BY DEF Listed
<1>2. tskq \in Q!TailqType
  BY DEF TypeOK, DataOK
<1>3. Q!ElementsOf(tskq) = s
  BY <1>1, <1>2, ChainElements
<1>4. Len(s) # 0 /\ tskq.first = s[1]
  BY <1>1, TasksAssumption DEF Chain
<1>5. s # <<>>
  BY <1>4
<1>6. tskq' = Q!Remove(tskq, cur)
  BY DelKeepsList DEF DelTask
<1>7. Chain(tskq', Tail(s)) /\ Tail(s) \in Seq(Tasks) /\ tskq' \in Q!TailqType
  BY <1>1, <1>2, <1>4, <1>5, <1>6, RemoveChain, RemoveType
<1>8. Q!ElementsOf(tskq') = Tail(s)
  BY <1>7, ChainElements
<1> QED
  BY <1>3, <1>5, <1>8

\* A step leaves the queue alone, inserts an idle task, or removes the head.
LEMMA QueueMoves ==
    ASSUME IInv, QueueInv, [Next]_vars
    PROVE  \/ UNCHANGED tskq
           \/ \E t \in Tasks : ~onqueue[t] /\ AddTask(t)
           \/ cur \in Tasks /\ cur = tskq.first /\ DelTask(cur)
<1> USE DEF Tasks
<1>1. \A t \in Threads : \A done : NeedsAdd(t, done) =>
         DiscoverTask \in Tasks /\ ~onqueue[DiscoverTask] /\ AddTask(DiscoverTask)
  BY DEF NeedsAdd, QueueInv, AddsIdle
<1>2. \A r \in ReadTasks : SubmitRead(r) => ~onqueue[r] /\ AddTask(r)
  BY DEF SubmitRead, QueueInv, RequestsOnce
<1>3. TaskDel => cur \in Tasks /\ cur = tskq.first /\ DelTask(cur)
  BY DEF TaskDel, IInv, CurHeld, QueueInv, InHand
<1>4. \A c \in Callers : c \in Threads
  BY DEF Threads
<1>5. TaskThread \in Threads /\ PMThread \in Threads
  BY DEF Threads
<1>6. ASSUME NEW c \in Callers, CallerCheck(c) PROVE UNCHANGED tskq
  BY <1>6 DEF CallerCheck, NeedsCheck
<1>7. CASE TaskNeeds \/ TaskWhile \/ TaskScan \/ TaskRun \/ TaskRelock \/ TaskSleep \/ TaskExit
           \/ TaskRestart \/ Suspend \/ SuspendSetDying \/ ResumeNeeds \/ ResumeWakeup
           \/ DetachBegin \/ DetachPoll \/ UNCHANGED vars
  BY <1>7 DEF TaskNeeds, TaskWhile, TaskScan, TaskRun, TaskRelock, TaskSleep, TaskExit, TaskRestart,
         Suspend, SuspendSetDying, ResumeNeeds, ResumeWakeup, DetachBegin, DetachPoll, NeedsCheck, vars
<1>8. ASSUME NEW c \in Callers, CallerAdd(c)
      PROVE  \E t \in Tasks : ~onqueue[t] /\ AddTask(t)
  BY <1>8, <1>1, <1>4 DEF CallerAdd
<1>9. CASE TaskAdd \/ ResumeAdd
  BY <1>9, <1>1, <1>5 DEF TaskAdd, ResumeAdd
<1> QED
  BY <1>2, <1>3, <1>6, <1>7, <1>8, <1>9 DEF Next, TaskStep, PMStep

\* Neither an overlap nor stop() is undone.
LEMMA BreakIsFinal ==
    ASSUME IInv, [Next]_vars
    PROVE  (overlap => overlap') /\ (Stopping => Stopping')
<1>1. overlap => overlap'
  BY DEF Next, TaskStep, PMStep, CallerCheck, CallerAdd, SubmitRead, TaskNeeds, TaskAdd, TaskWhile,
         TaskScan, TaskDel, TaskRun, TaskRelock, TaskSleep, TaskExit, TaskRestart, Suspend,
         SuspendSetDying, ResumeNeeds, ResumeAdd, ResumeWakeup, DetachBegin, DetachPoll,
         NeedsCheck, NeedsAdd, vars
<1>2. Stopping => Stopping'
  <2> USE ThreadsAssumption DEF Stopping, Threads
  <2>0. PCOK
    BY DEF IInv, TypeOK
  <2>1. CASE \E c \in Callers : CallerCheck(c) \/ CallerAdd(c)
    BY <2>0, <2>1 DEF CallerCheck, CallerAdd, NeedsCheck, NeedsAdd, Wakeup, Goto, PCOK
  <2>2. CASE \E r \in ReadTasks : SubmitRead(r)
    BY <2>0, <2>2 DEF SubmitRead, Wakeup, PCOK
  <2>3. CASE TaskStep
    BY <2>0, <2>3 DEF TaskStep, TaskNeeds, TaskAdd, TaskWhile, TaskScan, TaskDel, TaskRun, TaskRelock,
       TaskSleep, TaskExit, TaskRestart, NeedsCheck, NeedsAdd, Wakeup, Goto, PCOK
  <2>4. CASE PMStep
    BY <2>0, <2>4 DEF PMStep, Suspend, SuspendSetDying, ResumeNeeds, ResumeAdd, ResumeWakeup,
       NeedsCheck, NeedsAdd, Wakeup, Goto, PCOK
  <2>5. CASE DetachBegin \/ DetachPoll
    BY <2>0, <2>5 DEF DetachBegin, DetachPoll, Wakeup, Goto, PCOK
  <2>6. CASE UNCHANGED vars
    BY <2>6 DEF vars
  <2> QED
    BY <2>1, <2>2, <2>3, <2>4, <2>5, <2>6 DEF Next
<1> QED
  BY <1>1, <1>2

\* Every step of the driver is a step of the FIFO, or a stutter.
LEMMA FifoStep ==
    ASSUME IInv, QInv, [Next]_vars
    PROVE  [Fifo!Next]_(Fifo!fifoVars)
<1> DEFINE elements == Q!ElementsOf(tskq)
           broken == overlap \/ Stopping
           queue == IF broken THEN <<>> ELSE elements
<1>0. broken => broken'
  BY BreakIsFinal
<1>1. CASE broken
  BY <1>0, <1>1 DEF Fifo!fifoVars
<1>2. CASE ~broken /\ broken'
  BY <1>2 DEF Fifo!Next, Fifo!Break, Fifo!fifoVars
<1>3. CASE ~broken /\ ~broken'
  <2>0. QueueInv /\ TypeOK /\ Listed /\ hasSc = onqueue
    BY <1>3 DEF QInv, QueueInv, IInv
  <2>1. CASE UNCHANGED tskq
    BY <1>3, <2>1 DEF Fifo!fifoVars
  <2>2. ASSUME NEW t \in Tasks, ~onqueue[t], AddTask(t) PROVE Fifo!Put(t)
    <3>1. /\ \A i \in 1 .. Len(elements) : elements[i] # t
          /\ elements' = Append(elements, t)
      BY <2>0, <2>2, AddAppends
    <3> HIDE DEF elements
    <3> QED
      BY <3>1, <1>3 DEF Fifo!Put, elements
  <2>3. CASE cur \in Tasks /\ cur = tskq.first /\ DelTask(cur)
    <3>1. elements # <<>> /\ elements' = Tail(elements)
      BY <2>0, <2>3, DelTakes
    <3> QED
      BY <3>1, <1>3 DEF Fifo!Next, Fifo!Take
  <2>4. (\E t \in Tasks : ~onqueue[t] /\ AddTask(t)) => Fifo!Next
    BY <2>2 DEF Fifo!Next
  <2> QED
    BY <2>0, <2>1, <2>3, <2>4, QueueMoves
<1> QED
  BY <1>1, <1>2, <1>3

\* sdmmc.c implements the FIFO of TaskFifo, but for its liveness, which TLC checks:
\* the tasks met on the pointers are taken in the order they were added, until an
\* overlap or stop() breaks the promise.
THEOREM FifoImplemented == Spec => FifoSafety
<1>1. Init => Fifo!Init
  <2> SUFFICES ASSUME Init PROVE Fifo!Init
    OBVIOUS
  <2>1. Chain(tskq, <<>>) /\ <<>> \in Seq(Tasks) /\ tskq \in Q!TailqType
    BY InitIInv DEF Init, Chain, Distinct, Q!EmptyTailq, IInv, TypeOK, DataOK
  <2>2. Q!ElementsOf(tskq) = <<>>
    BY <2>1, ChainElements
  <2>3. ~overlap /\ pc[StopThread] = "up"
    BY ThreadsAssumption DEF Init, Threads
  <2> QED
    BY <2>2, <2>3 DEF Fifo!Init, Stopping
<1>2. (IInv /\ QInv) /\ [Next]_vars => [Fifo!Next]_(Fifo!fifoVars)
  BY FifoStep
<1> QED
  BY <1>1, <1>2, QueueInductive, PTL DEF Spec, FifoSafety
=============================================================================
