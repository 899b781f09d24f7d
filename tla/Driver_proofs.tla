---------------------------- MODULE Driver_proofs ----------------------------
(***************************************************************************)
(* Proofs about Driver: who can meet what, what an attachment that failed  *)
(* leaves, and what stop() leaves, for any number of card events, sleeps   *)
(* and ejects.                                                             *)
(*                                                                         *)
(* Life relates the place of start() and stop() to what is held; nothing   *)
(* else changes these variables.  The other parts say, of each thread,     *)
(* where start() and stop() can be while that thread holds a pointer.      *)
(***************************************************************************)
EXTENDS Driver, TLAPS

-----------------------------------------------------------------------------
(***************************************************************************)
(* The inductive invariant                                                 *)
(***************************************************************************)
Late == {"joinpm", "up", "detach", "poll", "remove", "unmap", "rest", "pmstop", "stopped"}

LifeTypes ==
    /\ spc \in StartLabels \cup StopLabels \cup {"up", "refused"}
    /\ failed \in BOOLEAN /\ handle \in BOOLEAN /\ stored \in BOOLEAN
    /\ bus \in {"none", "new", "broken", "ready", "freed"}
    /\ held \subseteq Resources

\* which of its flags rtsx_attach has set at which place
Flags ==
    /\ spc \in {"new", "compat", "pci", "attach", "refused"} => ~handle
    /\ spc \in {"chip", "dma", "found", "sdmmc", "store", "card"} => handle
    /\ stored => handle /\ ~failed /\ spc \in Late \cup {"card"}
    /\ failed => spc \in Late
    /\ spc \in Late => stored \/ failed
    /\ spc \in {"card", "detach", "poll"} => stored

BusOf ==
    /\ spc \in {"new", "compat", "pci", "attach", "chip", "dma", "found", "refused"} \/ failed
          => bus = "none"
    /\ spc = "sdmmc" => bus = "new"
    /\ spc \in {"store", "card"} => bus \in {"broken", "ready"}
    /\ stored /\ spc \in {"joinpm", "up", "detach", "poll"} => bus \in {"broken", "ready"}
    /\ stored /\ spc \in {"remove", "unmap", "rest", "pmstop", "stopped"} => bus = "freed"

NoDma  == "cmd" \notin held /\ "data" \notin held /\ "adma" \notin held
          /\ "admamem" \notin held /\ "admabuf" \notin held
AllDma == "cmd" \in held /\ "data" \in held /\ "adma" \in held
          /\ "admamem" \in held /\ "admabuf" \in held
Prefix == /\ "data" \in held => "cmd" \in held
          /\ "adma" \in held => "data" \in held
          /\ "admamem" \in held => "adma" \in held
          /\ "admabuf" \notin held

DmaOf ==
    /\ spc \in {"new", "compat", "pci", "attach", "chip", "refused"} \/ failed => NoDma
    /\ spc = "dma" => Prefix
    /\ spc \in {"found", "sdmmc", "store"} \/ stored => AllDma

\* the other resources
HeldOf ==
    /\ spc = "new" => held = {}
    /\ spc = "pci" => "compat" \in held
    /\ handle /\ spc \notin {"unmap", "rest", "pmstop", "stopped"}
          => "map" \in held /\ "intr" \in held /\ "compat" \in held
    /\ spc = "attach" => "map" \in held /\ "intr" \in held /\ "compat" \in held
    /\ "intr" \in held => /\ "map" \in held
                          /\ handle \/ spc = "attach"
                          /\ spc \notin {"unmap", "rest", "pmstop", "stopped"}
    /\ spc = "unmap" => handle /\ "locks" \notin held /\ "map" \in held
    /\ handle /\ spc \in {"rest", "pmstop", "stopped"} => "locks" \notin held /\ "map" \notin held
    /\ spc \in {"pmstop", "stopped"} => "compat" \notin held /\ "taskloop" \notin held
    /\ "pm" \in held => spc \in Late \ {"joinpm", "stopped"}
    /\ "busmap" \in held => spc = "store" \/ (stored /\ spc \in {"card", "joinpm", "up", "detach", "poll"})

Life == LifeTypes /\ Flags /\ BusOf /\ DmaOf /\ HeldOf

\* The task thread runs only between sdmmc_attach and the end of sdmmc_detach.
Thread ==
    /\ tpc \in {"none", "needs", "while", "for", "asleep", "discover", "attach", "cleanup",
                "exit", "end", "restart", "gone"}
    /\ tpc # "none" => spc = "store" \/ stored
    /\ tpc \notin {"none", "gone"} =>
          /\ bus = "ready"
          /\ spc \in {"store", "card", "joinpm", "up", "detach", "poll"}

\* A disk that the thread has made stays in the reach of its next detach.
DiskOf ==
    /\ disk \in {"none", "live", "terminated"} /\ bare \in BOOLEAN /\ present \in BOOLEAN
    /\ cardPresent \in BOOLEAN /\ slot \in BOOLEAN
    /\ disk = "live" => tpc \notin {"none", "end", "restart", "gone"}
    /\ disk = "live" => present \/ tpc = "cleanup"
    /\ tpc = "attach" => present

Powers ==
    /\ ppc \in {"on", "asleep", "read", "insert", "eject", "needs", "wake"}
    /\ ppc # "on" => "pm" \in held
    /\ dying \in {-1, 0, 1}

Interrupts ==
    /\ ipc \in {"idle", "insert", "eject", "needs"}
    /\ ipc # "idle" => "intr" \in held /\ handle

Clients ==
    /\ cpc \in {"idle", "needs"} /\ req \in {"none", "accepted", "queued"}
    /\ disk # "none" \/ cpc # "idle" \/ req # "none"
          => bus \in {"ready", "freed"} /\ (stored \/ spc = "store")
    /\ disk # "none" \/ cpc # "idle" => stored \/ bare
    /\ req # "none" => stored /\ ~bare

Meetings ==
    /\ bad[1] \in {"nobody", "start", "intr", "pm", "client", "task"}
    /\ bad[2] \in {"ok", "null", "unset", "freed", "unmapped"}
    /\ TaskThreadSafe /\ InterruptSafe /\ PowerSafe /\ ClientSafe

IInv == Life /\ Thread /\ DiskOf /\ Powers /\ Interrupts /\ Clients /\ Meetings

-----------------------------------------------------------------------------
(***************************************************************************)
(* The maps and buffers of rtsx_attach                                     *)
(***************************************************************************)
LEMMA DmaNames ==
    /\ DmaSteps[1] = "cmd" /\ DmaSteps[2] = "data" /\ DmaSteps[3] = "adma"
    /\ DmaSteps[4] = "admamem" /\ DmaSteps[5] = "admabuf"
BY DEF DmaSteps

LEMMA DmaSet == Dma = {"cmd", "data", "adma", "admamem", "admabuf"}
<1>1. \A x \in Dma : x \in {"cmd", "data", "adma", "admamem", "admabuf"}
  <2> SUFFICES ASSUME NEW i \in 1 .. 5
               PROVE  DmaSteps[i] \in {"cmd", "data", "adma", "admamem", "admabuf"}
    BY DEF Dma
  <2>1. i = 1 \/ i = 2 \/ i = 3 \/ i = 4 \/ i = 5
    OBVIOUS
  <2> QED  BY <2>1, DmaNames
<1>2. \A i \in 1 .. 5 : DmaSteps[i] \in Dma
  BY DEF Dma
<1> QED  BY <1>1, <1>2, DmaNames

\* The label for step k undoes the steps before it, and none of the others.
LEMMA UndoNames ==
    ASSUME NEW k \in 1 .. 6
    PROVE  /\ UndoFrom(k) \subseteq Dma
           /\ \A i \in 1 .. 5 : DmaSteps[i] \in UndoFrom(k) <=> i < k
<1>1. UndoFrom(k) \subseteq Dma
  BY DEF UndoFrom, Dma
<1>2. \A i, j \in 1 .. 5 : DmaSteps[i] = DmaSteps[j] => i = j
  <2> SUFFICES ASSUME NEW i \in 1 .. 5, NEW j \in 1 .. 5, DmaSteps[i] = DmaSteps[j]
               PROVE  i = j
    OBVIOUS
  <2>1. i = 1 \/ i = 2 \/ i = 3 \/ i = 4 \/ i = 5
    OBVIOUS
  <2>2. j = 1 \/ j = 2 \/ j = 3 \/ j = 4 \/ j = 5
    OBVIOUS
  <2> QED  BY <2>1, <2>2, DmaNames
<1>3. ASSUME NEW i \in 1 .. 5 PROVE DmaSteps[i] \in UndoFrom(k) <=> i < k
  <2>1. DmaSteps[i] \in UndoFrom(k) <=> \E j \in 1 .. k - 1 : DmaSteps[i] = DmaSteps[j]
    BY DEF UndoFrom
  <2>2. \A j \in 1 .. k - 1 : j \in 1 .. 5
    OBVIOUS
  <2>3. i < k <=> i \in 1 .. k - 1
    OBVIOUS
  <2> QED  BY <2>1, <2>2, <2>3, <1>2
<1> QED  BY <1>1, <1>3

-----------------------------------------------------------------------------
(***************************************************************************)
(* Life: only start() and stop() change what it speaks of.                 *)
(***************************************************************************)
LEMMA FailLife ==
    ASSUME Life, NEW k \in 1 .. 6, FailFrom(k), bad = None,
           handle' = handle, stored' = stored, bus' = bus,
           k = 6 => spc = "found",
           k < 6 => spc = "dma" /\ DmaSteps[k] \notin held
    PROVE  Life'
<1>1. held' = held \ UndoFrom(k) /\ failed' = TRUE /\ spc' = "joinpm"
      /\ handle' = handle /\ stored' = stored /\ bus' = bus
  BY DEF FailFrom, Goto
<1>2. handle /\ ~stored /\ ~failed /\ bus = "none"
  BY DEF Life, LifeTypes, Flags, BusOf, Late
<1>3. NoDma'
  <2>1. k = 1 \/ k = 2 \/ k = 3 \/ k = 4 \/ k = 5 \/ k = 6
    OBVIOUS
  <2>2. k < 6 => Prefix /\ DmaSteps[k] \notin held
    BY DEF Life, DmaOf
  <2>3. \A i \in 1 .. 5 : DmaSteps[i] \in held' => DmaSteps[i] \in held /\ k <= i
    BY <1>1, UndoNames
  <2> QED  BY <2>1, <2>2, <2>3, DmaNames DEF NoDma, Prefix
<1>4. \A r \in {"locks", "taskloop", "compat", "map", "intr", "busmap", "pm"} :
         r \in held' <=> r \in held
  BY <1>1, UndoNames, DmaSet
<1>5. LifeTypes'
  BY <1>1 DEF Life, LifeTypes, StartLabels
<1>6. Flags' /\ BusOf'
  BY <1>1, <1>2 DEF Flags, BusOf, Late
<1>7. DmaOf'
  BY <1>1, <1>2, <1>3 DEF DmaOf
<1>8. HeldOf'
  BY <1>1, <1>2, <1>4 DEF Life, HeldOf, Late
<1> QED  BY <1>5, <1>6, <1>7, <1>8 DEF Life

LEMMA DmaLife ==
    ASSUME Life, NEW k \in 1 .. 5, DmaStep(k)
    PROVE  Life'
<1>0. \A i \in 1 .. k - 1 : DmaSteps[i] \in held
  BY DEF DmaStep
<1>1. spc = "dma" /\ bad = None /\ handle' = handle /\ stored' = stored /\ bus' = bus
  BY DEF DmaStep, At
<1>2. CASE FailFrom(k)
  <2>1. k \in 1 .. 6 /\ k # 6
    OBVIOUS
  <2>2. DmaSteps[k] \notin held
    BY DEF DmaStep
  <2>3. k < 6 /\ (k = 6 => spc = "found")
    OBVIOUS
  <2> QED  BY <1>1, <1>2, <2>1, <2>2, <2>3, FailLife
<1>3. CASE /\ held' = held \cup {DmaSteps[k]}
           /\ spc' = IF k = 5 THEN "found" ELSE "dma"
           /\ failed' = failed
  <2>1. k = 1 \/ k = 2 \/ k = 3 \/ k = 4 \/ k = 5
    OBVIOUS
  <2>2. Prefix /\ handle /\ ~stored /\ ~failed /\ bus = "none"
    BY <1>1 DEF Life, LifeTypes, DmaOf, Flags, BusOf, Late
  <2>3. \A r : r \in held' <=> r \in held \/ r = DmaSteps[k]
    BY <1>3
  <2>4. \A r \in {"locks", "taskloop", "compat", "map", "intr", "busmap", "pm"} :
           r \in held' <=> r \in held
    BY <2>1, <2>3, DmaNames
  <2>5. held' \subseteq Resources
    BY <2>1, <2>3, DmaNames, DmaSet DEF Life, LifeTypes, Resources
  <2>6. CASE k = 5
    <3>0. spc' = "found" /\ failed' = failed
      BY <1>3, <2>6
    <3>1. AllDma'
      <4>1. DmaSteps[1] \in held /\ DmaSteps[2] \in held /\ DmaSteps[3] \in held
            /\ DmaSteps[4] \in held
        BY <1>0, <2>6
      <4> QED  BY <2>3, <2>6, <4>1, DmaNames DEF AllDma
    <3>2. LifeTypes'
      BY <1>1, <2>5, <3>0 DEF Life, LifeTypes, StartLabels, AttachLabels
    <3>3. Flags' /\ BusOf'
      BY <1>1, <2>2, <3>0 DEF Flags, BusOf, Late
    <3>4. DmaOf'
      BY <1>1, <2>2, <3>0, <3>1 DEF DmaOf
    <3>5. HeldOf'
      BY <1>1, <2>2, <2>4, <3>0 DEF Life, HeldOf, Late
    <3> QED  BY <3>2, <3>3, <3>4, <3>5 DEF Life
  <2>7. CASE k # 5
    <3>1. spc' = "dma" /\ failed' = failed
      BY <1>3, <2>7
    <3>2. Prefix'
      <4>1. \A i \in 1 .. k - 1 : DmaSteps[i] \in held'
        BY <1>0, <1>3
      <4>2. "admabuf" \notin held'
        BY <2>1, <2>2, <2>3, <2>7, DmaNames DEF Prefix
      <4> QED  BY <2>1, <2>2, <2>3, <2>7, <4>1, <4>2, DmaNames DEF Prefix
    <3>3. LifeTypes'
      BY <1>1, <2>5, <3>1 DEF Life, LifeTypes, StartLabels, AttachLabels
    <3>4. Flags' /\ BusOf'
      BY <1>1, <2>2, <3>1 DEF Flags, BusOf, Late
    <3>5. DmaOf'
      BY <1>1, <2>2, <3>1, <3>2 DEF DmaOf
    <3>6. HeldOf'
      BY <1>1, <2>2, <2>4, <3>1 DEF Life, HeldOf, Late
    <3> QED  BY <3>3, <3>4, <3>5, <3>6 DEF Life
  <2> QED  BY <2>6, <2>7
<1> QED  BY <1>2, <1>3 DEF DmaStep, Goto

\* The other threads leave start() and stop() where they are.
LEMMA StartFrame ==
    ASSUME [Next]_vars, ~StartStep, ~StopStep
    PROVE  UNCHANGED startVars
BY DEF Next, vars, SlotChange, Intr, IntrFlag, IntrNeeds, Suspend, ResumeInit, ResumeRead,
   ResumeFlag,
   ResumeNeeds, ResumeWake, SubmitCheck, SubmitAdd, EjectFlag, EjectNeeds, DiskDetach, TaskStep,
   TaskNeeds, TaskWhile, TaskFor, Discover, CardAttach, CardDetach, TaskExit, TaskEnd, TaskRestart,
   Task, system

LEMMA LifeStep == Life /\ [Next]_vars => Life'
<1> SUFFICES ASSUME Life, [Next]_vars PROVE Life'
  OBVIOUS
<1>1. ASSUME Start PROVE Life'
  BY <1>1 DEF Start, At, Goto, Life, LifeTypes, Flags, BusOf, DmaOf, HeldOf, NoDma, AllDma,
     Prefix, Late, StartLabels, StopLabels, AttachLabels, Resources, Dma
<1>2. ASSUME CompatStart PROVE Life'
  BY <1>2 DEF CompatStart, At, Goto, Life, LifeTypes, Flags, BusOf, DmaOf, HeldOf, NoDma, AllDma,
     Prefix, Late, StartLabels, StopLabels, AttachLabels, Resources, Dma
<1>3. ASSUME PciAttach PROVE Life'
  <2> USE DEF At, Goto, LifeTypes, Flags, BusOf, DmaOf, NoDma, AllDma, Prefix, Late,
          StartLabels, AttachLabels, Resources
  <2>1. spc = "pci" /\ ~handle /\ ~stored /\ ~failed /\ bus = "none" /\ NoDma
        /\ handle' = handle /\ stored' = stored /\ bus' = bus
    BY <1>3 DEF PciAttach, Life
  <2>2. /\ "intr" \notin held /\ "pm" \notin held /\ "busmap" \notin held
        /\ "compat" \in held
    BY <2>1 DEF Life, HeldOf
  <2>3. CASE held' = held \cup {"map", "intr"} /\ spc' = "attach" /\ failed' = failed
    <3>1. LifeTypes' /\ Flags' /\ BusOf' /\ DmaOf'
      BY <2>1, <2>3 DEF Life
    <3>2. HeldOf'
      BY <2>1, <2>2, <2>3 DEF HeldOf
    <3> QED  BY <3>1, <3>2 DEF Life
  <2>4. CASE /\ held' = held \/ held' = held \cup {"map"}
             /\ spc' = "joinpm" /\ failed' = TRUE
    BY <2>1, <2>2, <2>4 DEF Life, HeldOf
  <2> QED  BY <1>3, <2>3, <2>4 DEF PciAttach
<1>4. ASSUME SetHandle PROVE Life'
  BY <1>4 DEF SetHandle, At, Goto, Life, LifeTypes, Flags, BusOf, DmaOf, HeldOf, NoDma, AllDma,
     Prefix, Late, StartLabels, StopLabels, AttachLabels, Resources, Dma
<1>5. ASSUME ChipInit PROVE Life'
  <2>1. spc = "chip" /\ held' = held /\ handle' = handle /\ stored' = stored /\ bus' = bus
    BY <1>5 DEF ChipInit, At
  <2>2. CASE spc' = "dma" /\ failed' = failed
    BY <2>1, <2>2 DEF Life, LifeTypes, Flags, BusOf, DmaOf, HeldOf, NoDma, Prefix, Late,
       StartLabels, AttachLabels
  <2>3. CASE spc' = "joinpm" /\ failed' = TRUE
    BY <2>1, <2>3 DEF Life, LifeTypes, Flags, BusOf, DmaOf, HeldOf, NoDma, Late, StartLabels
  <2> QED  BY <1>5, <2>2, <2>3 DEF ChipInit, Goto
<1>6. ASSUME ConfigFound PROVE Life'
  <2>1. CASE FailFrom(6) /\ bus' = bus
    BY <1>6, <2>1, FailLife DEF ConfigFound, At
  <2>2. CASE bus' = "new" /\ spc' = "sdmmc" /\ held' = held /\ failed' = failed
    BY <1>6, <2>2 DEF ConfigFound, At, Life, LifeTypes, Flags, BusOf, DmaOf, HeldOf, NoDma, AllDma,
       Prefix, Late, StartLabels, AttachLabels
  <2> QED  BY <1>6, <2>1, <2>2 DEF ConfigFound, Goto
<1>7. ASSUME SdmmcAttach PROVE Life'
  BY <1>7 DEF SdmmcAttach, At, Goto, Life, LifeTypes, Flags, BusOf, DmaOf, HeldOf, NoDma, AllDma,
     Prefix, Late, StartLabels, StopLabels, AttachLabels, Resources, Dma
<1>8. ASSUME StoreBus PROVE Life'
  BY <1>8 DEF StoreBus, At, Goto, Life, LifeTypes, Flags, BusOf, DmaOf, HeldOf, NoDma, AllDma,
     Prefix, Late, StartLabels, StopLabels, AttachLabels, Resources, Dma
<1>9. ASSUME AttachCard PROVE Life'
  BY <1>9 DEF AttachCard, At, Goto, Life, LifeTypes, Flags, BusOf, DmaOf, HeldOf, NoDma, AllDma,
     Prefix, Late, StartLabels, StopLabels, AttachLabels, Resources, Dma
<1>10. ASSUME JoinPm PROVE Life'
  BY <1>10 DEF JoinPm, At, Goto, Life, LifeTypes, Flags, BusOf, DmaOf, HeldOf, NoDma, AllDma,
     Prefix, Late, StartLabels, StopLabels, AttachLabels, Resources, Dma
<1>11. ASSUME Stop PROVE Life'
  BY <1>11 DEF Stop, At, Goto, Life, LifeTypes, Flags, BusOf, DmaOf, HeldOf, NoDma, AllDma,
     Prefix, Late, StartLabels, StopLabels, AttachLabels, Resources, Dma
<1>12. ASSUME SdmmcDetach PROVE Life'
  BY <1>12 DEF SdmmcDetach, At, Goto, Life, LifeTypes, Flags, BusOf, DmaOf, HeldOf, NoDma, AllDma,
     Prefix, Late, StartLabels, StopLabels, AttachLabels, Resources, Dma
<1>13. ASSUME DetachPoll PROVE Life'
  BY <1>13 DEF DetachPoll, At, Goto, Life, LifeTypes, Flags, BusOf, DmaOf, HeldOf, NoDma, AllDma,
     Prefix, Late, StartLabels, StopLabels, AttachLabels, Resources, Dma
<1>14. ASSUME RemoveIntr PROVE Life'
  BY <1>14 DEF RemoveIntr, At, Goto, Life, LifeTypes, Flags, BusOf, DmaOf, HeldOf, NoDma, AllDma,
     Prefix, Late, StartLabels, StopLabels, AttachLabels, Resources, Dma
<1>15. ASSUME Unmap PROVE Life'
  BY <1>15 DEF Unmap, At, Goto, Life, LifeTypes, Flags, BusOf, DmaOf, HeldOf, NoDma, AllDma,
     Prefix, Late, StartLabels, StopLabels, AttachLabels, Resources, Dma
<1>16. ASSUME StopRest PROVE Life'
  BY <1>16 DEF StopRest, At, Goto, Life, LifeTypes, Flags, BusOf, DmaOf, HeldOf, NoDma, AllDma,
     Prefix, Late, StartLabels, StopLabels, AttachLabels, Resources, Dma
<1>17. ASSUME PmStop PROVE Life'
  BY <1>17 DEF PmStop, At, Goto, Life, LifeTypes, Flags, BusOf, DmaOf, HeldOf, NoDma, AllDma,
     Prefix, Late, StartLabels, StopLabels, AttachLabels, Resources, Dma
<1>18. ASSUME NEW k \in 1 .. 5, DmaStep(k) PROVE Life'
  BY <1>18, DmaLife
<1>19. ASSUME UNCHANGED startVars PROVE Life'
  BY <1>19 DEF startVars, Life, LifeTypes, Flags, BusOf, DmaOf, HeldOf, NoDma, AllDma, Prefix
<1>20. ASSUME ~StartStep, ~StopStep PROVE UNCHANGED startVars
  BY <1>20, StartFrame
<1> QED
  BY <1>1, <1>2, <1>3, <1>4, <1>5, <1>6, <1>7, <1>8, <1>9, <1>10, <1>11, <1>12, <1>13, <1>14, <1>15, <1>16, <1>17, <1>18, <1>19, <1>20 DEF StartStep, StopStep

-----------------------------------------------------------------------------
(***************************************************************************)
(* The task thread and the disk                                            *)
(***************************************************************************)
\* Whoever adds a task or wakes the thread for another reason does no more.
LEMMA OnlyWakes ==
    ASSUME [Next]_vars, ~SdmmcAttach, ~TaskStep
    PROVE  tpc' = tpc \/ (tpc = "asleep" /\ tpc' = "while")
<1>1. ASSUME NEW w, NEW m, AddTask(w, m) PROVE tpc' = tpc \/ (tpc = "asleep" /\ tpc' = "while")
  BY <1>1 DEF AddTask, Wake
<1>2. ASSUME NEW w, NeedsDiscover(w) PROVE tpc' = tpc \/ (tpc = "asleep" /\ tpc' = "while")
  BY <1>1, <1>2 DEF NeedsDiscover
<1>3. CASE AttachCard \/ IntrNeeds \/ ResumeNeeds \/ EjectNeeds \/ SubmitAdd
  BY <1>1, <1>2, <1>3 DEF AttachCard, IntrNeeds, ResumeNeeds, EjectNeeds, SubmitAdd
<1>4. CASE ResumeWake
  BY <1>4 DEF ResumeWake, Wake
<1>5. CASE ~(AttachCard \/ IntrNeeds \/ ResumeNeeds \/ EjectNeeds \/ SubmitAdd \/ ResumeWake)
  BY <1>5 DEF Next, StartStep, StopStep, vars, others, taskVars, Start, CompatStart, PciAttach,
     SetHandle, ChipInit, DmaStep, ConfigFound, StoreBus, JoinPm, Stop, SdmmcDetach, DetachPoll,
     RemoveIntr, Unmap, StopRest, PmStop, SlotChange, Intr, IntrFlag, Suspend, ResumeInit,
     ResumeRead, ResumeFlag, SubmitCheck, EjectFlag, DiskDetach
<1> QED  BY <1>3, <1>4, <1>5

\* Nobody but the thread touches what it keeps of the card.
LEMMA OwnCard ==
    ASSUME [Next]_vars, ~TaskStep
    PROVE  /\ present' = present /\ bare' = bare
           /\ disk' = disk \/ disk' = "none"
BY DEF Next, StartStep, StopStep, vars, others, taskVars, diskVars, Start, CompatStart, PciAttach,
   SetHandle, ChipInit, DmaStep, ConfigFound, SdmmcAttach, StoreBus, AttachCard, JoinPm, Stop,
   SdmmcDetach, DetachPoll, RemoveIntr, Unmap, StopRest, PmStop, SlotChange, Intr, IntrFlag,
   IntrNeeds, Suspend, ResumeInit, ResumeRead, ResumeFlag, ResumeNeeds, ResumeWake,
   SubmitCheck, SubmitAdd,
   EjectFlag, EjectNeeds, DiskDetach

\* A step of the thread starts while it runs, and leaves start() and stop(), the
\* chip and the other threads where they are.
LEMMA TaskFrame ==
    ASSUME TaskStep
    PROVE  /\ UNCHANGED system /\ bad = None
           /\ tpc \notin {"none", "asleep", "gone"}
           /\ tpc' \in {"needs", "while", "for", "asleep", "discover", "attach", "cleanup",
                         "exit", "end", "restart", "gone"}
           /\ req' = req \/ req' = "none"
           /\ dying' = dying \/ dying' = 0
BY DEF TaskStep, Task, TaskNeeds, TaskWhile, TaskFor, Discover, CardAttach, CardDetach, TaskExit,
   TaskEnd, TaskRestart

LEMMA ThreadStep ==
    ASSUME Life, Life', Thread, [Next]_vars
    PROVE  Thread'
<1>1. CASE TaskStep
  <2>1. spc' = spc /\ bus' = bus /\ stored' = stored
    BY <1>1, TaskFrame DEF system, startVars
  <2> QED  BY <1>1, <2>1, TaskFrame DEF Thread
<1>2. CASE SdmmcAttach
  <2>1. tpc = "none" /\ spc' = "store"
    BY <1>2 DEF Thread, SdmmcAttach, At, Goto, Life, Flags, Late
  <2>2. (bus' = "broken" /\ tpc' = tpc) \/ (bus' = "ready" /\ tpc' \in {"none", "needs"})
    BY <1>2 DEF SdmmcAttach
  <2> QED  BY <2>1, <2>2 DEF Thread
<1>3. CASE ~TaskStep /\ ~SdmmcAttach
  <2>1. tpc' = tpc \/ (tpc = "asleep" /\ tpc' = "while")
    BY <1>3, OnlyWakes
  <2>2. CASE UNCHANGED startVars
    BY <2>1, <2>2 DEF Thread, startVars
  <2>3. CASE tpc = "none"
    BY <2>1, <2>3 DEF Thread
  <2>4. CASE StoreBus
    BY <2>1, <2>4 DEF Thread, StoreBus, At, Goto
  <2>5. CASE AttachCard
    BY <2>1, <2>5 DEF Thread, AttachCard, At, Goto
  <2>6. CASE JoinPm
    BY <2>1, <2>6 DEF Thread, JoinPm, At, Goto
  <2>7. CASE Stop
    <3>1. spc = "up" /\ spc' = (IF stored THEN "detach" ELSE "remove") /\ stored' = stored /\ bus' = bus
      BY <2>7 DEF Stop, At, Goto
    <3> QED  BY <2>1, <3>1 DEF Thread
  <2>8. CASE SdmmcDetach
    BY <2>1, <2>8 DEF Thread, SdmmcDetach, At, Goto
  <2>9. CASE DetachPoll
    BY <2>1, <2>9 DEF Thread, DetachPoll, At, Goto
  <2>10. CASE RemoveIntr \/ Unmap \/ StopRest \/ PmStop
    <3>1. spc \in {"remove", "unmap", "rest", "pmstop"} /\ stored' = stored
      BY <2>10 DEF RemoveIntr, Unmap, StopRest, PmStop, At
    <3>2. tpc \in {"none", "gone"}
      BY <3>1 DEF Thread
    <3> QED  BY <2>1, <3>1, <3>2 DEF Thread
  <2>11. CASE spc \notin {"store", "card", "joinpm", "up", "detach", "poll", "remove", "unmap",
                         "rest", "pmstop"} /\ stored' = stored /\ tpc # "none"
    BY <2>1, <2>11 DEF Thread, Life, Flags, Late
  <2>12. ASSUME ~StartStep, ~StopStep PROVE UNCHANGED startVars
    BY <2>12, StartFrame
  <2>13. ASSUME Start \/ CompatStart \/ PciAttach \/ SetHandle \/ ChipInit
                \/ (\E k \in 1 .. 5 : DmaStep(k)) \/ ConfigFound
         PROVE  spc \in {"new", "compat", "pci", "attach", "chip", "dma", "found"} /\ stored' = stored
    BY <2>13 DEF Start, CompatStart, PciAttach, SetHandle, ChipInit, DmaStep, ConfigFound, At
  <2> QED
    BY <1>3, <2>2, <2>3, <2>4, <2>5, <2>6, <2>7, <2>8, <2>9, <2>10, <2>11, <2>12, <2>13
       DEF StartStep, StopStep
<1> QED  BY <1>1, <1>2, <1>3

\* cardPresent is only ever a Boolean.
LEMMA CardSeen ==
    ASSUME cardPresent \in BOOLEAN, slot \in BOOLEAN, [Next]_vars
    PROVE  cardPresent' \in BOOLEAN /\ slot' \in BOOLEAN
<1>1. CASE StartStep
  BY <1>1 DEF StartStep, others, chipVars, Start, CompatStart, PciAttach, SetHandle, ChipInit,
     DmaStep, ConfigFound, SdmmcAttach, StoreBus, AttachCard, JoinPm
<1>2. CASE StopStep
  BY <1>2 DEF StopStep, others, chipVars, Stop, SdmmcDetach, DetachPoll, RemoveIntr, Unmap,
     StopRest, PmStop
<1>3. CASE TaskStep
  BY <1>3, TaskFrame DEF system, chipVars
<1>4. CASE UNCHANGED vars
  BY <1>4 DEF vars, chipVars
<1> QED
  BY <1>1, <1>2, <1>3, <1>4 DEF Next, chipVars, SlotChange, Intr, IntrFlag, IntrNeeds, Suspend,
     ResumeInit, ResumeRead, ResumeFlag, ResumeNeeds, ResumeWake, SubmitCheck, SubmitAdd, EjectFlag,
     EjectNeeds, DiskDetach

LEMMA DiskStep ==
    ASSUME Life, Thread, DiskOf, [Next]_vars
    PROVE  DiskOf'
<1>0. cardPresent' \in BOOLEAN /\ slot' \in BOOLEAN
  BY CardSeen DEF DiskOf
<1>1. CASE TaskStep
  <2> USE DEF Task, DiskOf, diskVars
  <2>1. CASE TaskNeeds \/ TaskWhile \/ TaskFor
    BY <1>0, <2>1 DEF TaskNeeds, TaskWhile, TaskFor
  <2>2. CASE Discover
    <3>1. tpc = "discover" /\ present' = cardPresent /\ disk' = disk /\ bare' = bare
          /\ tpc' = (IF cardPresent = present THEN "for" ELSE IF cardPresent THEN "attach" ELSE "cleanup")
      BY <2>2 DEF Discover
    <3> QED  BY <1>0, <3>1
  <2>3. CASE CardAttach
    <3>1. (stored \in BOOLEAN)
      BY DEF Life, LifeTypes
    <3> QED  BY <1>0, <2>3, <3>1 DEF CardAttach
  <2>4. CASE CardDetach \/ TaskExit
    BY <1>0, <2>4 DEF CardDetach, TaskExit, DetachDisk
  <2>5. CASE TaskEnd \/ TaskRestart
    BY <1>0, <2>5 DEF TaskEnd, TaskRestart
  <2> QED  BY <1>1, <2>1, <2>2, <2>3, <2>4, <2>5 DEF TaskStep
<1>2. CASE SdmmcAttach
  <2>1. tpc = "none" /\ tpc' \in {"none", "needs"}
    BY <1>2 DEF Thread, SdmmcAttach, At, Life, Flags, Late
  <2>2. disk' = disk /\ bare' = bare /\ present' = present
    BY <1>2 DEF SdmmcAttach, diskVars
  <2> QED  BY <1>0, <2>1, <2>2 DEF DiskOf
<1>3. CASE ~TaskStep /\ ~SdmmcAttach
  BY <1>0, <1>3, OnlyWakes, OwnCard DEF DiskOf
<1> QED  BY <1>1, <1>2, <1>3

-----------------------------------------------------------------------------
(***************************************************************************)
(* setPowerState, the interrupts and the clients                           *)
(***************************************************************************)
\* What is registered or enabled stays so until stop() removes it.
LEMMA HeldGrows ==
    ASSUME Life, StartStep, NEW r \in {"pm", "intr"}, r \in held
    PROVE  r \in held'
<1>1. ASSUME NEW k \in 1 .. 6, FailFrom(k) PROVE r \in held'
  BY <1>1, UndoNames, DmaSet DEF FailFrom
<1>2. CASE Start
  BY <1>2 DEF Start, At, Life, HeldOf
<1>3. CASE \E k \in 1 .. 5 : DmaStep(k)
  <2>1. PICK k \in 1 .. 5 : DmaStep(k)
    BY <1>3
  <2>2. k \in 1 .. 6
    OBVIOUS
  <2> QED  BY <1>1, <2>1, <2>2 DEF DmaStep
<1>4. CASE ConfigFound
  BY <1>1, <1>4 DEF ConfigFound
<1>5. CASE CompatStart \/ PciAttach
  BY <1>5 DEF CompatStart, PciAttach
<1>6. CASE SetHandle \/ ChipInit \/ SdmmcAttach \/ StoreBus \/ AttachCard \/ JoinPm
  BY <1>6 DEF SetHandle, ChipInit, SdmmcAttach, StoreBus, AttachCard, JoinPm
<1> QED  BY <1>2, <1>3, <1>4, <1>5, <1>6 DEF StartStep

LEMMA PowersStep ==
    ASSUME Life, Powers, [Next]_vars
    PROVE  Powers'
<1> USE DEF Powers
<1>1. CASE StartStep
  <2>1. ppc' = ppc /\ dying' = dying
    BY <1>1 DEF StartStep, others, pmVars, taskVars, Start, CompatStart, PciAttach, SetHandle,
       ChipInit, DmaStep, ConfigFound, SdmmcAttach, StoreBus, AttachCard, JoinPm
  <2>2. ppc # "on" => "pm" \in held'
    BY <1>1, HeldGrows
  <2> QED  BY <2>1, <2>2
<1>2. CASE StopStep
  BY <1>2 DEF StopStep, others, pmVars, taskVars, Stop, SdmmcDetach, DetachPoll, RemoveIntr,
     Unmap, StopRest, PmStop
<1>3. CASE TaskStep
  BY <1>3, TaskFrame DEF system, pmVars, startVars
<1>4. CASE Suspend \/ ResumeInit \/ ResumeRead \/ ResumeFlag \/ ResumeNeeds \/ ResumeWake
  BY <1>4 DEF Suspend, ResumeInit, ResumeRead, ResumeFlag, ResumeNeeds, ResumeWake, Pm,
     startVars, taskVars
<1>5. CASE UNCHANGED vars
  BY <1>5 DEF vars, startVars, pmVars, taskVars
<1> QED
  BY <1>1, <1>2, <1>3, <1>4, <1>5 DEF Next, startVars, pmVars, taskVars, SlotChange, Intr,
     IntrFlag, IntrNeeds, SubmitCheck, SubmitAdd, EjectFlag, EjectNeeds, DiskDetach

LEMMA InterruptsStep ==
    ASSUME Life, Interrupts, [Next]_vars
    PROVE  Interrupts'
<1> USE DEF Interrupts
<1>1. CASE StartStep
  <2>1. ipc' = ipc /\ (handle => handle')
    BY <1>1 DEF StartStep, others, Start, CompatStart, PciAttach, SetHandle,
       ChipInit, DmaStep, ConfigFound, SdmmcAttach, StoreBus, AttachCard, JoinPm
  <2>2. ipc # "idle" => "intr" \in held'
    BY <1>1, HeldGrows
  <2> QED  BY <2>1, <2>2
<1>2. CASE StopStep
  BY <1>2 DEF StopStep, others, Stop, SdmmcDetach, DetachPoll, RemoveIntr, Unmap, StopRest, PmStop
<1>3. CASE TaskStep
  BY <1>3, TaskFrame DEF system, startVars
<1>4. CASE Intr \/ IntrFlag \/ IntrNeeds
  BY <1>4 DEF Intr, IntrFlag, IntrNeeds, startVars
<1>5. CASE UNCHANGED vars
  BY <1>5 DEF vars, startVars
<1> QED
  BY <1>1, <1>2, <1>3, <1>4, <1>5 DEF Next, startVars, SlotChange, Suspend, ResumeInit,
     ResumeRead, ResumeFlag,
     ResumeNeeds, ResumeWake, SubmitCheck, SubmitAdd, EjectFlag, EjectNeeds, DiskDetach

\* From the time a disk exists, the device is in order, or freed after that.
LEMMA BusGrows ==
    ASSUME Life, Life', [Next]_vars, bus \in {"ready", "freed"}, stored \/ spc = "store"
    PROVE  bus' \in {"ready", "freed"} /\ (stored' \/ spc' = "store") /\ (stored => stored')
<1>1. CASE UNCHANGED startVars
  BY <1>1 DEF startVars
<1>2. spc \notin {"new", "compat", "pci", "attach", "chip", "dma", "found", "sdmmc"}
  BY DEF Life, Flags, Late, BusOf
<1>3. CASE StartStep
  BY <1>2, <1>3 DEF StartStep, Start, CompatStart, PciAttach, SetHandle, ChipInit, DmaStep,
     ConfigFound, SdmmcAttach, StoreBus, AttachCard, JoinPm, At, Goto
<1>4. CASE StopStep
  <2>1. stored' = stored /\ bus' \in {bus, "freed"}
    BY <1>4 DEF StopStep, Stop, SdmmcDetach, DetachPoll, RemoveIntr, Unmap, StopRest, PmStop
  <2>2. spc # "store"
    BY <1>4 DEF StopStep, Stop, SdmmcDetach, DetachPoll, RemoveIntr, Unmap, StopRest, PmStop, At
  <2> QED  BY <2>1, <2>2
<1> QED  BY <1>1, <1>3, <1>4, StartFrame

LEMMA ClientsStep ==
    ASSUME Life, Life', Thread, DiskOf, Clients, [Next]_vars
    PROVE  Clients'
<1> USE DEF Clients
<1>1. CASE TaskStep
  <2>1. spc' = spc /\ bus' = bus /\ stored' = stored /\ cpc' = cpc /\ (req' = req \/ req' = "none")
    BY <1>1, TaskFrame DEF system, startVars
  <2>2. bus = "ready" /\ (stored \/ spc = "store")
    BY <1>1, TaskFrame DEF Thread
  <2>3. CASE CardAttach
    <3>1. CASE disk' = "live" /\ bare' = ~stored
      BY <2>1, <2>2, <3>1 DEF Life, LifeTypes
    <3>2. CASE disk' = disk /\ bare' = bare
      BY <2>1, <2>2, <3>2
    <3> QED  BY <2>3, <3>1, <3>2 DEF CardAttach, diskVars
  <2>4. CASE ~CardAttach
    <3>1. bare' = bare /\ (disk = "none" => disk' = "none") /\ disk' \in {disk, "terminated"}
      BY <1>1, <2>4 DEF TaskStep, TaskNeeds, TaskWhile, TaskFor, Discover, CardDetach, TaskExit,
         TaskEnd, TaskRestart, DetachDisk, diskVars
    <3> QED  BY <2>1, <2>2, <3>1
  <2> QED  BY <2>3, <2>4
<1>2. CASE SubmitCheck
  BY <1>2 DEF SubmitCheck, startVars, diskVars, Life, LifeTypes, DiskOf
<1>3. CASE SubmitAdd
  BY <1>3 DEF SubmitAdd, startVars, diskVars
<1>4. CASE EjectFlag \/ EjectNeeds \/ DiskDetach
  BY <1>4 DEF EjectFlag, EjectNeeds, DiskDetach, startVars, diskVars, cliVars
<1>5. CASE ~TaskStep /\ UNCHANGED cliVars /\ ~DiskDetach
  <2>1. disk' = disk /\ bare' = bare
    BY <1>5 DEF Next, StartStep, StopStep, vars, others, diskVars, Start, CompatStart, PciAttach,
       SetHandle, ChipInit, DmaStep, ConfigFound, SdmmcAttach, StoreBus, AttachCard, JoinPm, Stop,
       SdmmcDetach, DetachPoll, RemoveIntr, Unmap, StopRest, PmStop, SlotChange, Intr, IntrFlag,
       IntrNeeds, Suspend, ResumeInit, ResumeRead, ResumeFlag, ResumeNeeds, ResumeWake,
       SubmitCheck, SubmitAdd,
       EjectFlag, EjectNeeds
  <2> QED  BY <1>5, <2>1, BusGrows DEF cliVars
<1>6. ASSUME ~(SubmitCheck \/ SubmitAdd \/ EjectFlag \/ EjectNeeds), ~TaskStep
      PROVE  UNCHANGED cliVars
  BY <1>6 DEF Next, StartStep, StopStep, vars, others, Start, CompatStart, PciAttach,
     SetHandle, ChipInit, DmaStep, ConfigFound, SdmmcAttach, StoreBus, AttachCard, JoinPm, Stop,
     SdmmcDetach, DetachPoll, RemoveIntr, Unmap, StopRest, PmStop, SlotChange, Intr, IntrFlag,
     IntrNeeds, Suspend, ResumeInit, ResumeRead, ResumeFlag, ResumeNeeds, ResumeWake, DiskDetach
<1> QED  BY <1>1, <1>2, <1>3, <1>4, <1>5, <1>6

-----------------------------------------------------------------------------
(***************************************************************************)
(* Who meets what                                                          *)
(***************************************************************************)
\* A thread that has followed a bad pointer is the end of the behaviour.
LEMMA BadIsFinal ==
    ASSUME [Next]_vars, bad # None
    PROVE  UNCHANGED vars
<1>1. ~TaskStep
  BY TaskFrame
<1>2. ~StartStep
  BY DEF StartStep, Start, CompatStart, PciAttach, SetHandle, ChipInit, DmaStep, ConfigFound,
     SdmmcAttach, StoreBus, AttachCard, JoinPm, At
<1>3. ~StopStep
  BY DEF StopStep, Stop, SdmmcDetach, DetachPoll, RemoveIntr, Unmap, StopRest, PmStop, At
<1> QED
  BY <1>1, <1>2, <1>3 DEF Next, SlotChange, Intr, IntrFlag, IntrNeeds, Suspend, ResumeInit,
     ResumeRead, ResumeFlag, ResumeNeeds, ResumeWake, Pm, SubmitCheck, SubmitAdd, EjectFlag,
     EjectNeeds, DiskDetach

\* What sdmmc_add_task and sdmmc_needs_discover can meet
LEMMA AddMeets ==
    ASSUME bad = None, NEW w, NEW m, AddTask(w, m)
    PROVE  \/ bad' = None
           \/ bad' = <<w, m>> /\ m # "ok"
           \/ bad' = <<w, "unset">> /\ m = "ok" /\ bus = "broken"
BY DEF AddTask

LEMMA NeedsMeets ==
    ASSUME bad = None, NEW w, NeedsDiscover(w), stored \in BOOLEAN
    PROVE  \/ bad' = None
           \/ bad' = <<w, "null">> /\ ~stored
           \/ bad' = <<w, "freed">> /\ stored /\ bus = "freed"
           \/ bad' = <<w, "unset">> /\ stored /\ bus = "broken"
<1>1. BusMet = "ok" \/ (BusMet = "null" /\ ~stored) \/ (BusMet = "freed" /\ stored /\ bus = "freed")
  BY DEF BusMet, BusKept
<1>2. BusMet = "ok" => stored
  BY DEF BusMet, BusKept
<1>3. bad' = bad \/ AddTask(w, BusMet)
  BY DEF NeedsDiscover
<1> QED  BY <1>1, <1>2, <1>3, AddMeets

\* The places of start() and stop() at which the device is freed, or the
\* registers are not mapped
LEMMA Places ==
    ASSUME Life
    PROVE  /\ bus = "freed" => stored /\ spc \in {"remove", "unmap", "rest", "pmstop", "stopped"}
           /\ RegsMet # "ok" => RegsMet = "unmapped" /\ spc \in {"rest", "pmstop", "stopped"}
           /\ handle /\ ~stored /\ ~failed => spc \in {"chip", "dma", "found", "sdmmc", "store"}
<1>1. stored \in BOOLEAN /\ handle \in BOOLEAN /\ failed \in BOOLEAN
      /\ spc \in StartLabels \cup StopLabels \cup {"up", "refused"}
  BY DEF Life, LifeTypes
<1>2. bus = "freed" => stored /\ spc \in {"remove", "unmap", "rest", "pmstop", "stopped"}
  BY <1>1 DEF Life, BusOf, Flags, Late, StartLabels, StopLabels, AttachLabels
<1>3. RegsMet # "ok" => RegsMet = "unmapped" /\ spc \in {"rest", "pmstop", "stopped"}
  BY <1>1 DEF RegsMet, Life, HeldOf
<1>4. handle /\ ~stored /\ ~failed => spc \in {"chip", "dma", "found", "sdmmc", "store"}
  BY <1>1 DEF Life, Flags, Late, StartLabels, StopLabels, AttachLabels
<1> QED  BY <1>2, <1>3, <1>4

\* The task thread runs while the device is in order, the registers are mapped
\* and the owner is there.
LEMMA TaskMeets ==
    ASSUME Life, Thread, TaskStep
    PROVE  bad' = bad
<1>1. tpc \notin {"none", "gone"}
  BY TaskFrame
<1>2. bus = "ready" /\ spc \in {"store", "card", "joinpm", "up", "detach", "poll"}
  BY <1>1 DEF Thread
<1>3. stored \/ spc = "store"
  BY <1>1 DEF Thread
<1>4. handle
  BY <1>2, <1>3 DEF Life, Flags
<1>5. "map" \in held /\ "compat" \in held
  BY <1>2, <1>4 DEF Life, HeldOf
<1>6. BusKept = "ok" /\ RegsMet = "ok"
  BY <1>2, <1>5 DEF BusKept, RegsMet
<1> QED
  BY <1>5, <1>6 DEF TaskStep, TaskNeeds, TaskWhile, TaskFor, Discover, CardAttach, CardDetach,
     TaskExit, TaskEnd, TaskRestart, Task, Meets

LEMMA MeetingsStep ==
    ASSUME Life, Life', Thread, DiskOf, Powers, Interrupts, Clients, Meetings, [Next]_vars
    PROVE  Meetings'
<1> USE DEF Meetings, TaskThreadSafe, InterruptSafe, PowerSafe, ClientSafe, who, what
<1>1. CASE bad # None
  BY <1>1, BadIsFinal DEF vars, startVars, diskVars
<1>2. CASE bad' = None
  BY <1>2 DEF None
<1>3. stored \in BOOLEAN /\ bus \in {"none", "new", "broken", "ready", "freed"}
  BY DEF Life, LifeTypes
<1>4. CASE AttachCard /\ bad = None
  <2>1. bad' = bad \/ NeedsDiscover("start")
    BY <1>4 DEF AttachCard
  <2> QED  BY <1>2, <1>3, <1>4, <2>1, NeedsMeets
<1>5. CASE Intr \/ IntrFlag
  <2>1. RegsMet = "ok"
    BY <1>5, Places DEF Intr, IntrFlag, Interrupts, Life, HeldOf, RegsMet
  <2> QED  BY <1>2, <1>5, <2>1 DEF Intr, IntrFlag, Meets
<1>6. CASE IntrNeeds
  <2>1. UNCHANGED startVars /\ NeedsDiscover("intr") /\ bad = None
    BY <1>6 DEF IntrNeeds
  <2>2. handle /\ "intr" \in held
    BY <1>6 DEF IntrNeeds, Interrupts
  <2>3. spc \notin {"unmap", "rest", "pmstop", "stopped"}
    BY <2>2 DEF Life, HeldOf
  <2>4. CASE bad' = <<"intr", "null">> /\ ~stored
    BY <2>1, <2>2, <2>4, Places DEF startVars, AttachLabels
  <2>5. CASE bad' = <<"intr", "freed">> /\ bus = "freed"
    BY <2>1, <2>3, <2>5, Places DEF startVars
  <2>6. CASE bad' = <<"intr", "unset">> /\ bus = "broken"
    BY <2>1, <2>6 DEF startVars
  <2> QED  BY <1>2, <1>3, <2>1, <2>4, <2>5, <2>6, NeedsMeets
<1>7. CASE Suspend \/ ResumeInit \/ ResumeRead \/ ResumeFlag \/ ResumeNeeds \/ ResumeWake
  <2>1. UNCHANGED startVars /\ bad = None
    BY <1>7 DEF Suspend, ResumeInit, ResumeRead, ResumeFlag, ResumeNeeds, ResumeWake, Pm
  <2>2. "pm" \in held
    BY <1>7 DEF Suspend, ResumeInit, ResumeRead, ResumeFlag, ResumeNeeds, ResumeWake, Pm, Powers
  <2>3. spc \in {"up", "detach", "poll", "remove", "unmap", "rest", "pmstop"} /\ (stored \/ failed)
    BY <2>2 DEF Life, HeldOf, Flags, Late
  <2>4. \/ bad' = None
        \/ bad' = <<"pm", "null">> /\ ~stored
        \/ bad' = <<"pm", "unset">> /\ bus = "broken"
        \/ bad' = <<"pm", "freed">> /\ bus = "freed"
        \/ bad' = <<"pm", "unmapped">> /\ RegsMet = "unmapped"
    <3>1. CASE ResumeNeeds
      BY <1>3, <2>1, <3>1, NeedsMeets DEF ResumeNeeds
    <3>2. RegsMet \in {"ok", "unmapped"}
      BY DEF RegsMet
    <3>3. CASE Suspend
      BY <2>1, <3>2, <3>3 DEF Suspend, Meets, BusKept
    <3>4. CASE ResumeInit \/ ResumeRead \/ ResumeFlag
      BY <2>1, <3>2, <3>4 DEF ResumeInit, ResumeRead, ResumeFlag, Meets
    <3>5. CASE ResumeWake
      BY <2>1, <3>5 DEF ResumeWake, Meets, BusKept
    <3> QED  BY <1>7, <3>1, <3>3, <3>4, <3>5
  <2>5. CASE bad' = <<"pm", "null">> /\ ~stored
    BY <2>1, <2>3, <2>5 DEF startVars
  <2>6. CASE bad' = <<"pm", "unset">> /\ bus = "broken"
    BY <2>1, <2>6 DEF startVars
  <2>7. CASE bad' = <<"pm", "freed">> /\ bus = "freed"
    BY <2>1, <2>3, <2>7, Places DEF startVars
  <2>8. CASE bad' = <<"pm", "unmapped">> /\ RegsMet = "unmapped"
    BY <2>1, <2>3, <2>8, Places DEF startVars
  <2> QED  BY <1>2, <2>4, <2>5, <2>6, <2>7, <2>8
<1>8. CASE SubmitAdd \/ EjectFlag \/ EjectNeeds
  <2>1. UNCHANGED startVars /\ UNCHANGED diskVars /\ bad = None
    BY <1>8 DEF SubmitAdd, EjectFlag, EjectNeeds
  <2>2. disk # "none" \/ cpc # "idle" \/ req # "none"
    BY <1>8 DEF SubmitAdd, EjectFlag, EjectNeeds
  <2>3. bus \in {"ready", "freed"}
    BY <2>2 DEF Clients
  <2>4. disk = "live" => bus = "ready" /\ spc \in {"store", "card", "joinpm", "up", "detach", "poll"}
    BY DEF DiskOf, Thread
  <2>5. \/ bad' = None
        \/ bad' = <<"client", "freed">> /\ bus = "freed"
        \/ bad' = <<"client", "unmapped">> /\ RegsMet = "unmapped"
        \/ bad' = <<"client", "null">> /\ ~stored /\ bare
    <3>1. CASE SubmitAdd
      <4>1. AddTask("client", BusKept)
        BY <3>1 DEF SubmitAdd, Clients
      <4>2. BusKept = "ok" \/ (BusKept = "freed" /\ bus = "freed")
        BY DEF BusKept
      <4> QED  BY <2>1, <2>3, <4>1, <4>2, AddMeets
    <3>2. CASE EjectFlag
      BY <2>1, <3>2 DEF EjectFlag, Meets, RegsMet
    <3>3. CASE EjectNeeds
      <4>1. stored \/ bare
        BY <3>3 DEF EjectNeeds, Clients
      <4> QED  BY <1>3, <2>1, <2>3, <3>3, <4>1, NeedsMeets DEF EjectNeeds
    <3> QED  BY <1>8, <3>1, <3>2, <3>3
  <2>6. CASE bad' = <<"client", "freed">> /\ bus = "freed"
    BY <2>1, <2>4, <2>6, Places DEF startVars, diskVars, StopLabels
  <2>7. CASE bad' = <<"client", "unmapped">> /\ RegsMet = "unmapped"
    BY <2>1, <2>4, <2>7, Places DEF startVars, diskVars, StopLabels
  <2>8. CASE bad' = <<"client", "null">> /\ ~stored /\ bare
    BY <2>1, <2>8 DEF startVars, diskVars
  <2> QED  BY <1>2, <2>5, <2>6, <2>7, <2>8
<1>9. CASE TaskStep
  BY <1>2, <1>9, TaskMeets, TaskFrame
<1>10. ASSUME ~(AttachCard \/ Intr \/ IntrFlag \/ IntrNeeds), ~TaskStep,
              ~(Suspend \/ ResumeInit \/ ResumeRead \/ ResumeFlag \/ ResumeNeeds \/ ResumeWake),
              ~(SubmitAdd \/ EjectFlag \/ EjectNeeds)
       PROVE  bad' = bad
  BY <1>10 DEF Next, StartStep, StopStep, vars, others, Start, CompatStart, PciAttach,
     SetHandle, ChipInit, DmaStep, ConfigFound, SdmmcAttach, StoreBus, JoinPm, Stop, SdmmcDetach,
     DetachPoll, RemoveIntr, Unmap, StopRest, PmStop, SlotChange, SubmitCheck, DiskDetach
<1> QED  BY <1>1, <1>2, <1>4, <1>5, <1>6, <1>7, <1>8, <1>9, <1>10

-----------------------------------------------------------------------------
(***************************************************************************)
(* The invariant, and the theorems                                         *)
(***************************************************************************)
LEMMA InitIInv == Init => IInv
<1> SUFFICES ASSUME Init PROVE IInv
  OBVIOUS
<1>1. Life
  BY DEF Init, Life, LifeTypes, Flags, BusOf, DmaOf, HeldOf, NoDma, Prefix, AllDma, Late,
     StartLabels
<1>2. Thread /\ DiskOf /\ Powers /\ Interrupts /\ Clients
  BY DEF Init, Thread, DiskOf, Powers, Interrupts, Clients
<1>3. Meetings
  BY DEF Init, None, Meetings, TaskThreadSafe, InterruptSafe, PowerSafe, ClientSafe, who, what
<1> QED  BY <1>1, <1>2, <1>3 DEF IInv

THEOREM Inductive == Spec => []IInv
<1>1. IInv /\ [Next]_vars => IInv'
  <2> SUFFICES ASSUME IInv, [Next]_vars PROVE IInv'
    OBVIOUS
  <2>1. Life /\ Life' /\ Thread /\ DiskOf /\ Powers /\ Interrupts /\ Clients /\ Meetings
    BY LifeStep DEF IInv
  <2>2. Thread' /\ DiskOf' /\ Powers' /\ Interrupts' /\ Clients' /\ Meetings'
    BY <2>1, ThreadStep, DiskStep, PowersStep, InterruptsStep, ClientsStep, MeetingsStep
  <2> QED  BY <2>1, <2>2 DEF IInv
<1> QED  BY InitIInv, <1>1, PTL DEF Spec

\* The task thread never follows a bad pointer: it starts when sdmmc_attach has
\* set the device up, and sdmmc_detach waits for it before anything goes.
THEOREM ThreadIsSafe == Spec => []TaskThreadSafe
<1>1. IInv => TaskThreadSafe
  BY DEF IInv, Meetings
<1> QED  BY <1>1, Inductive, PTL

\* The interrupt work loop, setPowerState and the clients follow a bad pointer in
\* no other windows than those that WindowsKnown names.
THEOREM WindowsAreKnown == Spec => []WindowsKnown
<1>1. IInv => TypeOK
  <2> SUFFICES ASSUME IInv PROVE TypeOK
    OBVIOUS
  <2>1. stored => handle /\ bus \in {"broken", "ready", "freed"}
    <3>1. spc \in StartLabels \cup StopLabels \cup {"up", "refused"}
      BY DEF IInv, Life, LifeTypes
    <3> QED
      BY <3>1 DEF IInv, Life, LifeTypes, Flags, BusOf, Late
  <2> QED
    BY <2>1 DEF TypeOK, IInv, Life, LifeTypes, Thread, DiskOf, Powers, Interrupts, Clients, Meetings
<1>2. IInv => InterruptSafe /\ PowerSafe /\ ClientSafe
  BY DEF IInv, Meetings
<1>3. IInv => WindowsKnown
  BY <1>1, <1>2 DEF WindowsKnown
<1> QED  BY <1>3, Inductive, PTL

\* When the sdmmc device is freed, its disk has been terminated.
THEOREM DiskGoesFirst == Spec => []NoDiskOfFreedBus
<1>1. IInv => NoDiskOfFreedBus
  BY DEF IInv, DiskOf, Thread, NoDiskOfFreedBus
<1> QED  BY <1>1, Inductive, PTL

\* The labels at the end of rtsx_attach undo exactly what it has done.
THEOREM AttachUndone == Spec => []AttachAllOrNothing
<1>1. IInv => AttachAllOrNothing
  <2> SUFFICES ASSUME IInv, spc \notin StartLabels \ {"card", "joinpm"}
               PROVE  held \cap Dma = IF stored THEN Dma ELSE {}
    BY DEF AttachAllOrNothing
  <2>1. stored => AllDma
    BY DEF IInv, Life, DmaOf
  <2>2. ~stored => NoDma
    <3>1. spc \in {"card", "joinpm", "up", "refused"} \cup StopLabels
      BY DEF IInv, Life, LifeTypes, StartLabels, AttachLabels
    <3>2. ~stored => failed \/ spc = "refused"
      BY <3>1 DEF IInv, Life, Flags, Late, StopLabels
    <3> QED  BY <3>2 DEF IInv, Life, DmaOf
  <2>3. CASE stored
    BY <2>1, <2>3, DmaSet DEF AllDma
  <2>4. CASE ~stored
    BY <2>2, <2>4, DmaSet DEF NoDma
  <2> QED  BY <2>3, <2>4
<1> QED  BY <1>1, Inductive, PTL

\* What stop() leaves: nothing but the maps and buffers of rtsx_attach, or, if
\* there was no interrupt source, the locks and the map.
THEOREM StopReleases == Spec => []ReleasedByStop
<1>1. IInv => ReleasedByStop
  <2> SUFFICES ASSUME IInv, spc = "stopped", NEW r \in held \ Dma
               PROVE  r \in IF handle THEN {} ELSE {"locks", "map"}
    BY DEF ReleasedByStop
  <2>1. r \in {"locks", "taskloop", "compat", "map", "intr", "busmap", "pm"}
    BY DEF IInv, Life, LifeTypes, Resources
  <2>2. r \notin {"compat", "taskloop", "pm", "intr", "busmap"}
    BY DEF IInv, Life, HeldOf, Late
  <2>3. handle => r \notin {"locks", "map"}
    BY DEF IInv, Life, HeldOf
  <2> QED  BY <2>1, <2>2, <2>3 DEF IInv, Life, LifeTypes
<1> QED  BY <1>1, Inductive, PTL
=============================================================================
