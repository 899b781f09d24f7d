---------------------------- MODULE BlockDevice ----------------------------
(***************************************************************************)
(* What a block device promises its clients (IOBlockStorageDevice): a      *)
(* request that is accepted is finished once; while it is under way a      *)
(* write may store any of its blocks on the card and a read any of its     *)
(* blocks in the client's memory; success means that all of them are       *)
(* there.  Nothing outside the request ever changes.                       *)
(***************************************************************************)
EXTENDS Naturals

CONSTANTS
    Requests,   \* [id, op, block, nblks]: an operation and a range of blocks
    NoRequest,  \* no request is under way
    Capacity,
    NewData(_, _)  \* what the i-th block of a write holds

VARIABLES
    req,        \* the request under way
    card,       \* the blocks of the card
    mem,        \* the blocks of the client's memory
    result      \* of the last request

vars == <<req, card, mem, result>>

Offsets == IF req = NoRequest THEN {} ELSE 0 .. req.nblks - 1

Stored(c)  == \A i \in Offsets : c[req.block + i] = NewData(req, i)
Fetched(m) == \A i \in Offsets : m[i] = card[req.block + i]

Accept(r) ==
    /\ req = NoRequest
    /\ r.block + r.nblks <= Capacity
    /\ req' = r
    /\ result' = "pending"
    /\ UNCHANGED <<card, mem>>

Transfer ==
    /\ req # NoRequest
    /\ \/ /\ req.op = "write"
          /\ \E S \in SUBSET Offsets :
                card' = [b \in DOMAIN card |->
                            IF \E i \in S : b = req.block + i
                            THEN NewData(req, b - req.block) ELSE card[b]]
          /\ UNCHANGED mem
       \/ /\ req.op = "read"
          /\ DOMAIN mem' = DOMAIN mem
          /\ \A i \in DOMAIN mem : mem'[i] = mem[i] \/ i \in Offsets
          /\ UNCHANGED card
    /\ UNCHANGED <<req, result>>

Finish ==
    /\ req # NoRequest
    /\ \/ /\ result' = "ok"
          /\ IF req.op = "write" THEN Stored(card) ELSE Fetched(mem)
       \/ result' \in {"ioerr", "nomem"}
    /\ req' = NoRequest
    /\ UNCHANGED <<card, mem>>

Init ==
    /\ req = NoRequest
    /\ result = "none"
    /\ DOMAIN card = 0 .. Capacity - 1

Next == (\E r \in Requests : Accept(r)) \/ Transfer \/ Finish

Spec == Init /\ [][Next]_vars
=============================================================================
