------------------------------ MODULE TaskFifo ------------------------------
(***************************************************************************)
(* What the task queue of the SD/MMC bus promises: a FIFO of distinct      *)
(* tasks whose head is always eventually taken.  It may break, and then it *)
(* promises nothing more.                                                  *)
(***************************************************************************)
EXTENDS Naturals, Sequences

CONSTANT Task

VARIABLES queue,   \* the pending tasks, oldest first
          broken   \* the promise is void

fifoVars == <<queue, broken>>

Init == queue = <<>> /\ broken = FALSE

Put(t) ==
    /\ ~broken
    /\ \A i \in 1 .. Len(queue) : queue[i] # t
    /\ queue' = Append(queue, t)
    /\ UNCHANGED broken

Take ==
    /\ ~broken
    /\ queue # <<>>
    /\ queue' = Tail(queue)
    /\ UNCHANGED broken

Break ==
    /\ ~broken
    /\ broken' = TRUE
    /\ queue' = <<>>

Next == Take \/ Break \/ \E t \in Task : Put(t)

Spec == Init /\ [][Next]_fifoVars /\ WF_fifoVars(Take)
=============================================================================
