------------------------------- MODULE Tailq -------------------------------
(***************************************************************************)
(* The doubly linked tail queue that sdmmc.c keeps its tasks on            *)
(* (TAILQ_INIT, TAILQ_INSERT_TAIL, TAILQ_REMOVE, TAILQ_FIRST of the kernel *)
(* header sys/queue.h, which is not part of the repository).  The macros   *)
(* are modelled at the level of their pointer assignments and not as a     *)
(* sequence, because the callers can insert an element that is on the      *)
(* queue already, and only the pointers say what the queue is then.        *)
(*                                                                         *)
(* A queue is a record.  first and next[e] are pointers to elements.  last *)
(* and prev[e] are addresses of such pointers: HeadCell is the address of      *)
(* first, and an element e stands for the address of next[e].              *)
(***************************************************************************)
EXTENDS Naturals, Sequences, FiniteSets

CONSTANTS Elem,   \* the elements that can be queued
          Null,   \* the null pointer
          HeadCell    \* the address of the queue head's first pointer

Cell == Elem \cup {HeadCell}
Ptr  == Elem \cup {Null}

TailqType == [first : Ptr, last : Cell, next : [Elem -> Ptr], prev : [Elem -> Cell]]

\* TAILQ_INIT; the links of an element that is on no queue are never read.
EmptyTailq ==
    [first |-> Null, last |-> HeadCell,
     next  |-> [e \in Elem |-> Null], prev |-> [e \in Elem |-> HeadCell]]

\* *cell = e, as it shows in the first pointer and in the next pointers
StoreFirst(first, cell, e) == IF cell = HeadCell THEN e ELSE first
StoreNext(next, cell, e)   == IF cell = HeadCell THEN next ELSE [next EXCEPT ![cell] = e]

\* TAILQ_INSERT_TAIL: e.next = NULL; e.prev = last; *last = e; last = &e.next
InsertTail(q, e) ==
    [first |-> StoreFirst(q.first, q.last, e),
     last  |-> e,
     next  |-> StoreNext([q.next EXCEPT ![e] = Null], q.last, e),
     prev  |-> [q.prev EXCEPT ![e] = q.last]]

\* TAILQ_REMOVE: (e.next ? e.next.prev : last) = e.prev; *e.prev = e.next
Remove(q, e) ==
    LET n == q.next[e]
        p == q.prev[e]
    IN  [first |-> StoreFirst(q.first, p, n),
         last  |-> IF n = Null THEN p ELSE q.last,
         next  |-> StoreNext(q.next, p, n),
         prev  |-> IF n = Null THEN q.prev ELSE [q.prev EXCEPT ![n] = p]]

(***************************************************************************)
(* The elements met by following first and then the next pointers, cut     *)
(* after Cardinality(Elem) + 1 elements: a cycle shows as a repetition.    *)
(***************************************************************************)
ElementsOf(q) ==
    LET walk[n \in 0 .. Cardinality(Elem)] ==
            IF n = 0
            THEN IF q.first = Null THEN <<>> ELSE <<q.first>>
            ELSE LET s == walk[n - 1]
                 IN  IF s = <<>> \/ q.next[s[Len(s)]] = Null
                     THEN s
                     ELSE Append(s, q.next[s[Len(s)]])
    IN  walk[Cardinality(Elem)]

(***************************************************************************)
(* q is a sound doubly linked list of exactly the elements of S.           *)
(***************************************************************************)
IsListOf(q, S) ==
    LET s == ElementsOf(q)
    IN  /\ Len(s) = Cardinality(S)
        /\ {s[i] : i \in 1 .. Len(s)} = S
        /\ \A i \in 1 .. Len(s) : q.prev[s[i]] = IF i = 1 THEN HeadCell ELSE s[i - 1]
        /\ q.last = IF s = <<>> THEN HeadCell ELSE s[Len(s)]
=============================================================================
