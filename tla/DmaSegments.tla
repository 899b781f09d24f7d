----------------------------- MODULE DmaSegments -----------------------------
(***************************************************************************)
(* How a buffer is cut into DMA segments: the loops of bus_dmamem_alloc    *)
(* (physical segments of a new buffer) and bus_dmamap_load (segments that  *)
(* the device will see), compat/openbsd/dma.cpp.  A segment is its length; *)
(* addresses are left out.                                                 *)
(***************************************************************************)
EXTENDS Naturals, Sequences, FiniteSets

\* The total of the first k lengths of s
Upto(s, k) ==
    LET sum[i \in 0 .. Len(s)] == IF i = 0 THEN 0 ELSE sum[i - 1] + s[i]
    IN  sum[k]

Total(s) == Upto(s, Len(s))

\* Every way of cutting a buffer of n units in segments
Cuts(n) == {s \in UNION {[1 .. k -> 1 .. n] : k \in 1 .. n} : Total(s) = n}

-----------------------------------------------------------------------------
(***************************************************************************)
(* bus_dmamem_alloc: getPhysicalSegment cuts the descriptor as in s, and   *)
(* the caller's array has nsegs elements.  The count is tested after a     *)
(* segment has been stored, with ">", and only while more are to come.     *)
(***************************************************************************)

\* What ends up in segs[]: a contiguous buffer was asked for if nsegs = 1.
Stored(s, nsegs) ==
    IF nsegs = 1 THEN IF Len(s) = 1 THEN 1 ELSE 0
    ELSE IF Len(s) <= nsegs + 1 THEN Len(s) ELSE nsegs + 1

AllocFits(s, nsegs) ==
    IF nsegs = 1 THEN Len(s) = 1 ELSE Len(s) <= nsegs + 1

(***************************************************************************)
(* bus_dmamap_load of the first buflen units of a descriptor that the      *)
(* IODMACommand cuts as in s, in a map with segcnt segments: segments are  *)
(* stored until they reach buflen, and the last one is made shorter.       *)
(***************************************************************************)

\* The number of segments it takes to reach buflen
Needed(s, buflen) ==
    CHOOSE k \in 1 .. Len(s) : Upto(s, k) >= buflen /\ Upto(s, k - 1) < buflen

LoadFits(s, buflen, segcnt) == Needed(s, buflen) <= segcnt

\* Mutant of Loaded: the last segment keeps its length
LoadedUntrimmed(s, buflen) == SubSeq(s, 1, Needed(s, buflen))

Loaded(s, buflen) ==
    LET k == Needed(s, buflen)
    IN  [i \in 1 .. k |-> IF i = k THEN buflen - Upto(s, k - 1) ELSE s[i]]
=============================================================================
