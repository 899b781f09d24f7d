--------------------------- MODULE RtsxPower_proofs ---------------------------
(***************************************************************************)
(* Theorems about RtsxPower, for any numbers of operations and of          *)
(* interrupted windows.                                                    *)
(*                                                                         *)
(* The steps that an operation of rtsx.c still has to take are followed    *)
(* like a program with assertions.  StepOK says, at each step, whether the *)
(* lock is held and what is known of the registers there, before the step  *)
(* and after it; Follows says that the steps chain to the end of the       *)
(* operation and to what it achieves.  An operation follows the rules as   *)
(* it is called, and every rest of it does, so that the invariant can say  *)
(* of each thread that its lock is held as its place says (Plans) and of   *)
(* the task thread that what it knows is true (Knowledge).  A claim on the *)
(* registers is made of those of now and of those of the Future, after the *)
(* chip has done what is in the window (Safe).                             *)
(***************************************************************************)
EXTENDS RtsxPower, TLAPS

-----------------------------------------------------------------------------
(***************************************************************************)
(* What a step of an operation may be, at the place where it stands        *)
(***************************************************************************)

\* A request of the window, once executed, and the registers once the chip has
\* executed the one that is there
Written(R, s) == [R EXCEPT ![s.reg] = (@ \ s.mask) \cup s.on]
Future == IF haimr.busy /\ haimr.step.kind = "write" THEN Written(regs, haimr.step) ELSE regs

\* A fact is that some bits of a register have a value.
Fact(e)     == <<e.reg, e.mask, e.on>>
Holds(R, K) == \A p \in K : p[1] \in Regs /\ R[p[1]] \cap p[2] = p[3]

\* What is known after a write, and a write that leaves what is known alone
Spared(p, e)   == p[1] # e.reg \/ p[2] \cap e.mask = {}
After(K, e)    == {p \in K : Spared(p, e)} \cup {Fact(e)}
Harmless(e, K) == \A p \in K : Spared(p, e) \/ p = Fact(e)

NoClock == <<"CLK_EN", {"sd"}, {}>>
NoOut   == <<"OE", {"out"}, {}>>
NoPower == <<"PWR", {0, 1}, {0, 1}>>
Power   == <<"PWR", {0, 1}, {}>>
Low     == <<"CLK_CTL", {"low"}, {"low"}>>
Div128(f) == <<"CFG1", {"div128"}, IF f = 400 THEN {"div128"} ELSE {}>>
RowDiv(f) == <<"CLK_DIV", {2, 4, 8}, {Row(f).div}>>
RowN(f)   == <<"DIV_N", {80, 100}, {Row(f).n}>>

\* What an operation achieves, if it succeeds
Achieved(k, f) == CASE k = "down"  -> {NoClock, NoOut, NoPower}
                    [] k = "up"    -> {Power}
                    [] k = "clock" -> {Div128(f), RowDiv(f), RowN(f)}
                    [] OTHER       -> {}

Bytes    == {"", "00", "01", "ff", "value", "any"}
Outcomes == {"", "ignore", "unlock", "done", "return"}
Steps == [kind : {"lock", "unlock", "read", "write", "save", "restore"}, reg : Regs,
          mask : SUBSET UNION {Bits[r] : r \in Regs}, on : SUBSET UNION {Bits[r] : r \in Regs},
          byte : Bytes, onfail : Outcomes]

Proper(s) ==
    /\ s.kind = "write" => /\ s.reg \in Regs /\ s.mask \subseteq Bits[s.reg] /\ s.on \subseteq s.mask
                           /\ s.reg \in {"CLK_DIV", "DIV_N"} =>
                                 s.mask = Bits[s.reg] /\ \E v \in Bits[s.reg] : s.on = {v}
    /\ s.kind = "read" => s.reg \in SavedRegs

AllFreqs  == {400, 25000, 50000}
TaskKinds == {"down", "up", "clock", "stop", "width"}

\* Where the lock is taken and given back, and where a step may fail in which way
LockOK(e, a, b, k) ==
    \/ e.kind = "lock" /\ a = FALSE /\ b = TRUE
    \/ e.kind = "unlock" /\ a = TRUE /\ b = FALSE
    \/ e.kind \in {"read", "save", "restore"} /\ b = a /\ k = "pm"
    \/ /\ e.kind = "write" /\ b = a
       /\ e.onfail \in {"ignore", "unlock", "done", "return"}
       /\ e.onfail = "ignore" => k = "pm"
       /\ e.onfail \in {"unlock", "done"} => a = TRUE
       /\ e.onfail = "return" => a = (k = "clock")

\* What has to be known where a step writes a register
Allowed(e, K, k, f) ==
    /\ e.reg \in {"CLK_EN", "OE", "PWR"} /\ k # "up" => Fact(e) \in {NoClock, NoOut, NoPower}
    /\ e.reg = "PWR" /\ e.on # {} => NoOut \in K
    /\ e.reg = "OE" /\ e.on # {} => Power \in K
    /\ e.reg = "CFG1" /\ k # "clock" => e.mask = {"w4"}
    /\ e.reg = "CFG1" /\ k = "clock" => Fact(e) = Div128(f)
    /\ e.reg \in {"CLK_CTL", "CLK_DIV", "DIV_N"} => k = "clock"
    /\ e.reg = "CLK_CTL" => e.mask = {"low"} /\ (e.on = {} => Achieved("clock", f) \subseteq K)
    /\ e.reg = "CLK_DIV" => Fact(e) = RowDiv(f) /\ Low \in K
    /\ e.reg = "DIV_N" => Fact(e) = RowN(f) /\ {Low, RowDiv(f)} \subseteq K

KnowOK(e, K, L, k, f) ==
    \/ e.kind \in {"lock", "unlock"} /\ L \subseteq K
    \/ /\ e.kind = "write" /\ L \subseteq After(K, e) /\ Allowed(e, K, k, f)
       /\ e.onfail = "done" => Achieved(k, f) \subseteq K /\ Harmless(e, Achieved(k, f))

StepOK(e, a, K, b, L, k, f) ==
    /\ e \in Steps /\ Proper(e) /\ LockOK(e, a, b, k)
    /\ k \in TaskKinds => KnowOK(e, K, L, k, f)
    /\ k = "led" => e.kind = "write" /\ e.reg = "MISC" /\ e.onfail = "return"

\* The steps s lead from a to b, and from the facts K to the facts L.
Follows(s, a, K, b, L, k, f) ==
    /\ s \in Seq(Steps)
    /\ \E g, h : /\ g[1] = a /\ h[1] = K /\ g[Len(s) + 1] = b /\ h[Len(s) + 1] = L
                 /\ \A i \in 1 .. Len(s) : StepOK(s[i], g[i], h[i], g[i + 1], h[i + 1], k, f)

\* One step, and no step
LEMMA FollowsOne ==
    ASSUME NEW e, NEW a, NEW K, NEW b, NEW L, NEW k, NEW f, StepOK(e, a, K, b, L, k, f)
    PROVE  Follows(<<e>>, a, K, b, L, k, f)
<1> DEFINE g == [i \in 1 .. 2 |-> IF i = 1 THEN a ELSE b]
           h == [i \in 1 .. 2 |-> IF i = 1 THEN K ELSE L]
<1>1. e \in Steps
  BY DEF StepOK
<1>2. <<e>> \in Seq(Steps) /\ Len(<<e>>) = 1 /\ <<e>>[1] = e
  <2> HIDE DEF Steps
  <2> QED  BY <1>1
<1>3. g[1] = a /\ h[1] = K /\ g[2] = b /\ h[2] = L
  OBVIOUS
<1> HIDE DEF g, h
<1>4. \A i \in 1 .. 1 : StepOK(<<e>>[i], g[i], h[i], g[i + 1], h[i + 1], k, f)
  <2>1. StepOK(<<e>>[1], g[1], h[1], g[2], h[2], k, f)
    BY <1>2, <1>3
  <2> TAKE i \in 1 .. 1
  <2>2. i = 1 /\ i + 1 = 2
    OBVIOUS
  <2> QED  BY <2>1, <2>2
<1>5. 1 + 1 = 2
  OBVIOUS
<1> QED  BY <1>2, <1>3, <1>4, <1>5 DEF Follows

LEMMA FollowsEmpty ==
    ASSUME NEW a, NEW K, NEW b, NEW L, NEW k, NEW f
    PROVE  Follows(<<>>, a, K, b, L, k, f) <=> a = b /\ K = L
<1>1. Len(<<>>) = 0 /\ 0 + 1 = 1 /\ 1 .. 0 = {} /\ <<>> \in Seq(Steps)
  OBVIOUS
<1>2. ASSUME a = b, K = L PROVE Follows(<<>>, a, K, b, L, k, f)
  <2> DEFINE g == [i \in 1 .. 1 |-> a]
             h == [i \in 1 .. 1 |-> K]
  <2>1. g[1] = a /\ h[1] = K /\ g[1] = b /\ h[1] = L
    BY <1>2
  <2> HIDE DEF g, h
  <2> QED  BY <1>1, <2>1 DEF Follows
<1> QED  BY <1>1, <1>2 DEF Follows

\* One after the other
LEMMA FollowsSeq ==
    ASSUME NEW s, NEW u, NEW a, NEW K, NEW b, NEW L, NEW c, NEW M, NEW k, NEW f,
           Follows(s, a, K, b, L, k, f), Follows(u, b, L, c, M, k, f)
    PROVE  Follows(s \o u, a, K, c, M, k, f)
<1>1. PICK g1, h1 :
           /\ g1[1] = a /\ h1[1] = K /\ g1[Len(s) + 1] = b /\ h1[Len(s) + 1] = L
           /\ \A i \in 1 .. Len(s) : StepOK(s[i], g1[i], h1[i], g1[i + 1], h1[i + 1], k, f)
  BY DEF Follows
<1>2. PICK g2, h2 :
           /\ g2[1] = b /\ h2[1] = L /\ g2[Len(u) + 1] = c /\ h2[Len(u) + 1] = M
           /\ \A i \in 1 .. Len(u) : StepOK(u[i], g2[i], h2[i], g2[i + 1], h2[i + 1], k, f)
  BY DEF Follows
<1> DEFINE m == Len(s)
           l == Len(u)
           g == [i \in 1 .. m + l + 1 |-> IF i <= m THEN g1[i] ELSE g2[i - m]]
           h == [i \in 1 .. m + l + 1 |-> IF i <= m THEN h1[i] ELSE h2[i - m]]
<1>3. s \in Seq(Steps) /\ u \in Seq(Steps) /\ m \in Nat /\ l \in Nat
  BY DEF Follows
<1>4. /\ s \o u \in Seq(Steps) /\ Len(s \o u) = m + l
      /\ \A i \in 1 .. m : (s \o u)[i] = s[i]
      /\ \A i \in 1 .. l : (s \o u)[m + i] = u[i]
  <2> HIDE DEF Steps
  <2> QED  BY <1>3
<1> HIDE DEF m, l
<1>5. \A i \in 1 .. m : g[i] = g1[i] /\ h[i] = h1[i]
  BY <1>3
<1>6. \A i \in 1 .. l + 1 : g[m + i] = g2[i] /\ h[m + i] = h2[i]
  BY <1>3
<1> HIDE DEF g, h
<1>7. \A i \in 1 .. m + 1 : g[i] = g1[i] /\ h[i] = h1[i]
  <2> TAKE i \in 1 .. m + 1
  <2>1. CASE i \in 1 .. m
    BY <2>1, <1>5
  <2>2. CASE i = m + 1
    <3>1. 1 \in 1 .. l + 1
      BY <1>3
    <3> QED  BY <2>2, <3>1, <1>1, <1>2, <1>6 DEF m
  <2> QED  BY <1>3, <2>1, <2>2
<1>8. g[1] = a /\ h[1] = K /\ g[m + l + 1] = c /\ h[m + l + 1] = M
  <2>1. 1 \in 1 .. m + 1 /\ l + 1 \in 1 .. l + 1 /\ m + (l + 1) = m + l + 1
    BY <1>3
  <2>2. g[m + (l + 1)] = g2[l + 1] /\ h[m + (l + 1)] = h2[l + 1]
    BY <1>6, <2>1
  <2> QED  BY <1>1, <1>2, <1>7, <2>1, <2>2 DEF l
<1>9. ASSUME NEW i \in 1 .. m + l
      PROVE  StepOK((s \o u)[i], g[i], h[i], g[i + 1], h[i + 1], k, f)
  <2>1. CASE i \in 1 .. m
    <3>1. i + 1 \in 1 .. m + 1 /\ i \in 1 .. m + 1
      BY <1>3, <2>1
    <3> QED  BY <1>1, <1>4, <1>7, <2>1, <3>1 DEF m
  <2>2. CASE i \notin 1 .. m
    <3>1. PICK j \in 1 .. l : i = m + j
      <4>1. i - m \in 1 .. l /\ i = m + (i - m)
        BY <1>3, <2>2
      <4> QED  BY <4>1
    <3>2. j \in 1 .. l + 1 /\ j + 1 \in 1 .. l + 1 /\ i + 1 = m + (j + 1)
      BY <1>3, <3>1
    <3>3. g[i] = g2[j] /\ h[i] = h2[j] /\ g[i + 1] = g2[j + 1] /\ h[i + 1] = h2[j + 1]
      BY <1>6, <3>1, <3>2
    <3>4. StepOK(u[j], g2[j], h2[j], g2[j + 1], h2[j + 1], k, f)
      BY <1>2, <3>1 DEF l
    <3> QED  BY <1>4, <3>1, <3>3, <3>4
  <2> QED  BY <2>1, <2>2
<1> QED  BY <1>4, <1>8, <1>9 DEF Follows

\* The first step, and the steps after it
LEMMA FollowsTail ==
    ASSUME NEW s, NEW a, NEW K, NEW b, NEW L, NEW k, NEW f, Follows(s, a, K, b, L, k, f), s # <<>>
    PROVE  \E c, M : StepOK(Head(s), a, K, c, M, k, f) /\ Follows(Tail(s), c, M, b, L, k, f)
<1>1. PICK g1, h1 :
           /\ g1[1] = a /\ h1[1] = K /\ g1[Len(s) + 1] = b /\ h1[Len(s) + 1] = L
           /\ \A i \in 1 .. Len(s) : StepOK(s[i], g1[i], h1[i], g1[i + 1], h1[i + 1], k, f)
  BY DEF Follows
<1> DEFINE m == Len(s)
           u == Tail(s)
           g == [i \in 1 .. m |-> g1[i + 1]]
           h == [i \in 1 .. m |-> h1[i + 1]]
<1>2. s \in Seq(Steps)
  BY DEF Follows
<1>3. m \in Nat /\ m # 0 /\ Head(s) = s[1]
  <2> HIDE DEF Steps
  <2> QED  BY <1>2
<1>4. /\ u \in Seq(Steps) /\ Len(u) = m - 1
      /\ \A i \in 1 .. m - 1 : u[i] = s[i + 1]
  <2> HIDE DEF Steps
  <2> QED  BY <1>2, <1>3
<1> HIDE DEF m, u
<1>5. \A i \in 1 .. m : g[i] = g1[i + 1] /\ h[i] = h1[i + 1]
  OBVIOUS
<1> HIDE DEF g, h
<1>6. StepOK(Head(s), a, K, g1[2], h1[2], k, f)
  <2>1. 1 \in 1 .. m /\ 1 + 1 = 2
    BY <1>3
  <2>2. StepOK(s[1], g1[1], h1[1], g1[1 + 1], h1[1 + 1], k, f)
    BY <1>1, <2>1 DEF m
  <2> QED  BY <1>1, <1>3, <2>1, <2>2
<1>7. g[1] = g1[2] /\ h[1] = h1[2] /\ g[m - 1 + 1] = b /\ h[m - 1 + 1] = L
  <2>1. 1 \in 1 .. m /\ 1 + 1 = 2 /\ m \in 1 .. m /\ m - 1 + 1 = m
    BY <1>3
  <2> QED  BY <1>1, <1>5, <2>1 DEF m
<1>8. ASSUME NEW i \in 1 .. m - 1
      PROVE  StepOK(u[i], g[i], h[i], g[i + 1], h[i + 1], k, f)
  <2>1. i \in 1 .. m /\ i + 1 \in 1 .. m /\ i + 1 \in Nat
    BY <1>3
  <2>2. /\ u[i] = s[i + 1] /\ g[i] = g1[i + 1] /\ h[i] = h1[i + 1]
        /\ g[i + 1] = g1[(i + 1) + 1] /\ h[i + 1] = h1[(i + 1) + 1]
    BY <1>4, <1>5, <2>1
  <2>3. StepOK(s[i + 1], g1[i + 1], h1[i + 1], g1[(i + 1) + 1], h1[(i + 1) + 1], k, f)
    BY <1>1, <2>1 DEF m
  <2> QED  BY <2>2, <2>3
<1>9. Follows(u, g1[2], h1[2], b, L, k, f)
  BY <1>4, <1>7, <1>8 DEF Follows
<1> QED  BY <1>6, <1>9 DEF u

-----------------------------------------------------------------------------
(***************************************************************************)
(* Facts and registers                                                     *)
(***************************************************************************)

\* The registers and their bits
LEMMA Registers ==
    /\ Regs = {"CLK_EN", "OE", "PWR", "CFG1", "CLK_CTL", "CLK_DIV", "DIV_N", "MISC"}
    /\ Bits["CLK_EN"] = {"sd"} /\ Bits["OE"] = {"out"} /\ Bits["PWR"] = {0, 1}
    /\ Bits["CFG1"] = {"div128", "w4"} /\ Bits["CLK_CTL"] = {"low"}
    /\ Bits["CLK_DIV"] = {2, 4, 8} /\ Bits["DIV_N"] = {80, 100} /\ Bits["MISC"] = {}
BY DEF Regs, Bits

\* The components of a fact
LEMMA Facts ==
    /\ NoClock[1] = "CLK_EN" /\ NoClock[2] = {"sd"} /\ NoClock[3] = {}
    /\ NoOut[1] = "OE" /\ NoOut[2] = {"out"} /\ NoOut[3] = {}
    /\ NoPower[1] = "PWR" /\ NoPower[2] = {0, 1} /\ NoPower[3] = {0, 1}
    /\ Power[1] = "PWR" /\ Power[2] = {0, 1} /\ Power[3] = {}
    /\ Low[1] = "CLK_CTL" /\ Low[2] = {"low"} /\ Low[3] = {"low"}
    /\ \A f : /\ Div128(f)[1] = "CFG1" /\ Div128(f)[2] = {"div128"}
              /\ Div128(f)[3] = IF f = 400 THEN {"div128"} ELSE {}
              /\ RowDiv(f)[1] = "CLK_DIV" /\ RowDiv(f)[2] = {2, 4, 8} /\ RowDiv(f)[3] = {Row(f).div}
              /\ RowN(f)[1] = "DIV_N" /\ RowN(f)[2] = {80, 100} /\ RowN(f)[3] = {Row(f).n}
BY DEF NoClock, NoOut, NoPower, Power, Low, Div128, RowDiv, RowN

LEMMA FactParts ==
    ASSUME NEW e
    PROVE  Fact(e)[1] = e.reg /\ Fact(e)[2] = e.mask /\ Fact(e)[3] = e.on
BY DEF Fact

\* What a write leaves in its register, and in the others
LEMMA WrittenParts ==
    ASSUME NEW R, DOMAIN R = Regs, NEW e, e.reg \in Regs
    PROVE  /\ DOMAIN Written(R, e) = Regs
           /\ Written(R, e)[e.reg] = (R[e.reg] \ e.mask) \cup e.on
           /\ \A r \in Regs : r # e.reg => Written(R, e)[r] = R[r]
BY DEF Written

\* A write makes its fact true and keeps those that it spares.
LEMMA HoldsAfter ==
    ASSUME NEW R, DOMAIN R = Regs, NEW K, Holds(R, K), NEW e, e.kind = "write", Proper(e)
    PROVE  Holds(Written(R, e), After(K, e))
<1>1. e.reg \in Regs /\ e.on \subseteq e.mask
  BY DEF Proper
<1>2. SUFFICES ASSUME NEW p \in After(K, e)
               PROVE  p[1] \in Regs /\ Written(R, e)[p[1]] \cap p[2] = p[3]
  BY DEF Holds
<1>3. CASE p = Fact(e)
  <2>1. p[1] = e.reg /\ p[2] = e.mask /\ p[3] = e.on
    BY <1>3, FactParts
  <2>2. Written(R, e)[p[1]] = (R[e.reg] \ e.mask) \cup e.on
    BY <1>1, <2>1, WrittenParts
  <2> QED  BY <1>1, <2>1, <2>2
<1>4. CASE p # Fact(e)
  <2>1. p \in K /\ Spared(p, e)
    BY <1>4 DEF After
  <2>2. p[1] \in Regs /\ R[p[1]] \cap p[2] = p[3]
    BY <2>1 DEF Holds
  <2>3. CASE p[1] # e.reg
    BY <1>1, <2>2, <2>3, WrittenParts
  <2>4. CASE p[1] = e.reg
    <3>1. p[2] \cap e.mask = {}
      BY <2>1, <2>4 DEF Spared
    <3>2. Written(R, e)[p[1]] = (R[p[1]] \ e.mask) \cup e.on
      BY <1>1, <2>4, WrittenParts
    <3> QED  BY <1>1, <2>2, <3>1, <3>2
  <2> QED  BY <2>3, <2>4
<1> QED  BY <1>3, <1>4

LEMMA HoldsFewer ==
    ASSUME NEW R, NEW K, NEW L, Holds(R, K), L \subseteq K
    PROVE  Holds(R, L)
BY DEF Holds

LEMMA AfterKeeps ==
    ASSUME NEW K, NEW e
    PROVE  /\ Fact(e) \in After(K, e)
           /\ \A p \in K : Spared(p, e) => p \in After(K, e)
BY DEF After

-----------------------------------------------------------------------------
(***************************************************************************)
(* The operations follow the rules                                         *)
(***************************************************************************)

LEMMA StepParts ==
    ASSUME NEW kind, NEW r, NEW mask, NEW on, NEW byte, NEW onfail
    PROVE  LET e == Step(kind, r, mask, on, byte, onfail)
           IN  /\ e.kind = kind /\ e.reg = r /\ e.mask = mask /\ e.on = on
               /\ e.byte = byte /\ e.onfail = onfail
BY DEF Step

LEMMA StepIn ==
    ASSUME NEW kind \in {"lock", "unlock", "read", "write", "save", "restore"}, NEW r \in Regs,
           NEW mask, NEW on, mask \subseteq Bits[r], on \subseteq Bits[r],
           NEW byte \in Bytes, NEW onfail \in Outcomes
    PROVE  Step(kind, r, mask, on, byte, onfail) \in Steps
<1> DEFINE All == UNION {Bits[x] : x \in Regs}
<1>1. mask \in SUBSET All /\ on \in SUBSET All
  OBVIOUS
<1> HIDE DEF All
<1>2. [kind |-> kind, reg |-> r, mask |-> mask, on |-> on, byte |-> byte, onfail |-> onfail]
      \in [kind : {"lock", "unlock", "read", "write", "save", "restore"}, reg : Regs,
           mask : SUBSET All, on : SUBSET All, byte : Bytes, onfail : Outcomes]
  BY <1>1
<1> QED  BY <1>2 DEF All, Step, Steps

\* Taking and giving back the lock
LEMMA FollowsSplsdmmc ==
    ASSUME NEW K, NEW k, k # "led", NEW f
    PROVE  Follows(Splsdmmc, FALSE, K, TRUE, K, k, f)
<1> DEFINE e == Step("lock", "MISC", {}, {}, "", "")
<1>1. e \in Steps /\ e.kind = "lock"
  <2>1. "MISC" \in Regs /\ {} \subseteq Bits["MISC"] /\ "" \in Bytes \cap Outcomes
    BY Registers DEF Bytes, Outcomes
  <2>2. e \in Steps
    BY <2>1, StepIn
  <2> QED  BY <2>2 DEF Step
<1> HIDE DEF e
<1>2. StepOK(e, FALSE, K, TRUE, K, k, f)
  BY <1>1 DEF StepOK, Proper, LockOK, KnowOK
<1> QED  BY <1>2, FollowsOne DEF Splsdmmc, e

LEMMA FollowsSplx ==
    ASSUME NEW K, NEW k, k # "led", NEW f
    PROVE  Follows(Splx, TRUE, K, FALSE, K, k, f)
<1> DEFINE e == Step("unlock", "MISC", {}, {}, "", "")
<1>1. e \in Steps /\ e.kind = "unlock"
  <2>1. "MISC" \in Regs /\ {} \subseteq Bits["MISC"] /\ "" \in Bytes \cap Outcomes
    BY Registers DEF Bytes, Outcomes
  <2>2. e \in Steps
    BY <2>1, StepIn
  <2> QED  BY <2>2 DEF Step
<1> HIDE DEF e
<1>2. StepOK(e, TRUE, K, FALSE, K, k, f)
  BY <1>1 DEF StepOK, Proper, LockOK, KnowOK
<1> QED  BY <1>2, FollowsOne DEF Splx, e

\* A write: what has to be shown about it
LEMMA FollowsWrite ==
    ASSUME NEW r \in Regs, NEW mask, NEW on, mask \subseteq Bits[r], on \subseteq mask,
           NEW byte \in Bytes, NEW onfail \in {"ignore", "unlock", "done", "return"},
           NEW a, NEW K, NEW L, NEW k, NEW f, NEW e,
           e = Step("write", r, mask, on, byte, onfail),
           r \in {"CLK_DIV", "DIV_N"} => mask = Bits[r] /\ \E v \in Bits[r] : on = {v},
           onfail = "ignore" => k = "pm",
           onfail \in {"unlock", "done"} => a = TRUE,
           onfail = "return" => a = (k = "clock"),
           k \in TaskKinds => KnowOK(e, K, L, k, f),
           k = "led" => r = "MISC" /\ onfail = "return"
    PROVE  Follows(<<e>>, a, K, a, L, k, f)
<1>1. e \in Steps /\ e.kind = "write" /\ e.reg = r /\ e.mask = mask /\ e.on = on
      /\ e.onfail = onfail
  <2>1. on \subseteq Bits[r] /\ onfail \in Outcomes
    BY DEF Outcomes
  <2>2. Step("write", r, mask, on, byte, onfail) \in Steps
    BY <2>1, StepIn
  <2> QED  BY <2>2, StepParts
<1>2. Proper(e)
  BY <1>1 DEF Proper
<1>3. LockOK(e, a, a, k)
  BY <1>1 DEF LockOK
<1>4. StepOK(e, a, K, a, L, k, f)
  BY <1>1, <1>2, <1>3 DEF StepOK
<1> QED  BY <1>4, FollowsOne

\* A write that, if it fails, goes on at the splx of its operation
LEMMA FollowsUnlock ==
    ASSUME NEW r \in Regs, NEW mask, NEW on, mask \subseteq Bits[r], on \subseteq mask,
           NEW byte \in Bytes, NEW K, NEW L, NEW k \in TaskKinds, NEW f,
           r \in {"CLK_DIV", "DIV_N"} => mask = Bits[r] /\ \E v \in Bits[r] : on = {v},
           KnowOK(Step("write", r, mask, on, byte, "unlock"), K, L, k, f)
    PROVE  Follows(<<Step("write", r, mask, on, byte, "unlock")>>, TRUE, K, TRUE, L, k, f)
<1>1. k # "led"
  BY DEF TaskKinds
<1> QED  BY <1>1, FollowsWrite

\* What a write may be, and what is known after it
LEMMA KnowWrite ==
    ASSUME NEW e, NEW K, NEW L, NEW k, NEW f, e.kind = "write", e.onfail # "done",
           \A p \in L : p = Fact(e) \/ (p \in K /\ p[1] # e.reg),
           Allowed(e, K, k, f)
    PROVE  KnowOK(e, K, L, k, f)
<1>1. L \subseteq After(K, e)
  BY DEF After, Spared
<1> QED  BY <1>1 DEF KnowOK

\* rtsx_bus_power_off, under the lock
LEMMA FollowsPowerOff ==
    ASSUME NEW k \in {"down", "up"}, NEW f
    PROVE  Follows(BusPowerOff("unlock"), TRUE, {}, TRUE, {NoClock, NoOut, NoPower}, k, f)
<1>1. Follows(StopSdClock("unlock"), TRUE, {}, TRUE, {NoClock}, k, f)
  <2> DEFINE e == Step("write", "CLK_EN", {"sd"}, {}, "00", "unlock")
  <2>1. e.kind = "write" /\ e.reg = "CLK_EN" /\ e.mask = {"sd"} /\ e.on = {} /\ e.onfail = "unlock"
    BY StepParts
  <2>2. StopSdClock("unlock") = <<e>>
    BY Registers DEF StopSdClock, ClrBits
  <2> HIDE DEF e
  <2>3. Fact(e) = NoClock
    BY <2>1 DEF Fact, NoClock
  <2>4. Allowed(e, {}, k, f)
    BY <2>1, <2>3 DEF Allowed
  <2>5. \A p \in {NoClock} : p = Fact(e) \/ (p \in {} /\ p[1] # e.reg)
    BY <2>1, <2>3, Facts
  <2>6. KnowOK(e, {}, {NoClock}, k, f)
    BY <2>1, <2>4, <2>5, KnowWrite
  <2>7. "CLK_EN" \in Regs /\ {"sd"} \subseteq Bits["CLK_EN"] /\ {} \subseteq {"sd"} /\ "00" \in Bytes
    BY Registers DEF Bytes
  <2>8. k \in TaskKinds
    BY DEF TaskKinds
  <2>9. Follows(<<e>>, TRUE, {}, TRUE, {NoClock}, k, f)
    BY <2>6, <2>7, <2>8, FollowsUnlock DEF e
  <2> QED  BY <2>2, <2>9
<1>2. Follows(ClrBits("OE", {"out"}, "unlock"), TRUE, {NoClock}, TRUE, {NoClock, NoOut}, k, f)
  <2> DEFINE e == Step("write", "OE", {"out"}, {}, "00", "unlock")
  <2>1. e.kind = "write" /\ e.reg = "OE" /\ e.mask = {"out"} /\ e.on = {} /\ e.onfail = "unlock"
    BY StepParts
  <2>2. ClrBits("OE", {"out"}, "unlock") = <<e>>
    BY Registers DEF ClrBits
  <2> HIDE DEF e
  <2>3. Fact(e) = NoOut
    BY <2>1 DEF Fact, NoOut
  <2>4. Allowed(e, {NoClock}, k, f)
    BY <2>1, <2>3 DEF Allowed
  <2>5. \A p \in {NoClock, NoOut} : p = Fact(e) \/ (p \in {NoClock} /\ p[1] # e.reg)
    BY <2>1, <2>3, Facts
  <2>6. KnowOK(e, {NoClock}, {NoClock, NoOut}, k, f)
    BY <2>1, <2>4, <2>5, KnowWrite
  <2>7. "OE" \in Regs /\ {"out"} \subseteq Bits["OE"] /\ {} \subseteq {"out"} /\ "00" \in Bytes
    BY Registers DEF Bytes
  <2>8. k \in TaskKinds
    BY DEF TaskKinds
  <2>9. Follows(<<e>>, TRUE, {NoClock}, TRUE, {NoClock, NoOut}, k, f)
    BY <2>6, <2>7, <2>8, FollowsUnlock DEF e
  <2> QED  BY <2>2, <2>9
<1>3. Follows(SetBits("PWR", SD_PWR_OFF, "unlock"), TRUE, {NoClock, NoOut}, TRUE,
            {NoClock, NoOut, NoPower}, k, f)
  <2> DEFINE e == Step("write", "PWR", SD_PWR_OFF, SD_PWR_OFF, "ff", "unlock")
  <2>1. e.kind = "write" /\ e.reg = "PWR" /\ e.mask = SD_PWR_OFF /\ e.on = SD_PWR_OFF
        /\ e.onfail = "unlock"
    BY StepParts
  <2>2. SetBits("PWR", SD_PWR_OFF, "unlock") = <<e>>
    BY Registers DEF SetBits
  <2> HIDE DEF e
  <2>3. Fact(e) = NoPower
    BY <2>1 DEF Fact, NoPower, SD_PWR_OFF
  <2>4. Allowed(e, {NoClock, NoOut}, k, f)
    BY <2>1, <2>3 DEF Allowed
  <2>5. \A p \in {NoClock, NoOut, NoPower} : p = Fact(e) \/ (p \in {NoClock, NoOut} /\ p[1] # e.reg)
    BY <2>1, <2>3, Facts
  <2>6. KnowOK(e, {NoClock, NoOut}, {NoClock, NoOut, NoPower}, k, f)
    BY <2>1, <2>4, <2>5, KnowWrite
  <2>7. "PWR" \in Regs /\ SD_PWR_OFF \subseteq Bits["PWR"] /\ SD_PWR_OFF \subseteq SD_PWR_OFF
        /\ "ff" \in Bytes
    BY Registers DEF Bytes, SD_PWR_OFF
  <2>8. k \in TaskKinds
    BY DEF TaskKinds
  <2>9. Follows(<<e>>, TRUE, {NoClock, NoOut}, TRUE, {NoClock, NoOut, NoPower}, k, f)
    BY <2>6, <2>7, <2>8, FollowsUnlock DEF e
  <2> QED  BY <2>2, <2>9
<1>4. Follows(StopSdClock("unlock") \o ClrBits("OE", {"out"}, "unlock"), TRUE, {},
              TRUE, {NoClock, NoOut}, k, f)
  BY <1>1, <1>2, FollowsSeq
<1> QED  BY <1>3, <1>4, FollowsSeq DEF BusPowerOff

\* rtsx_bus_power_on, under the lock
LEMMA FollowsPowerOn ==
    ASSUME NEW f
    PROVE  Follows(BusPowerOn("unlock"), TRUE, {NoClock, NoOut, NoPower}, TRUE, {Power}, "up", f)
<1> DEFINE k == "up"
<1>1. Follows(SetBits("CLK_EN", {"sd"}, "unlock"), TRUE, {NoClock, NoOut, NoPower}, TRUE,
            {NoOut, NoPower}, k, f)
  <2> DEFINE e == Step("write", "CLK_EN", {"sd"}, {"sd"}, "ff", "unlock")
  <2>1. e.kind = "write" /\ e.reg = "CLK_EN" /\ e.mask = {"sd"} /\ e.on = {"sd"} /\ e.onfail = "unlock"
    BY StepParts
  <2>2. SetBits("CLK_EN", {"sd"}, "unlock") = <<e>>
    BY Registers DEF SetBits
  <2> HIDE DEF e
  <2>3. Fact(e) = <<"CLK_EN", {"sd"}, {"sd"}>>
    BY <2>1 DEF Fact
  <2>4. Allowed(e, {NoClock, NoOut, NoPower}, k, f)
    BY <2>1, <2>3 DEF Allowed
  <2>5. \A p \in {NoOut, NoPower} : p = Fact(e) \/ (p \in {NoClock, NoOut, NoPower} /\ p[1] # e.reg)
    BY <2>1, <2>3, Facts
  <2>6. KnowOK(e, {NoClock, NoOut, NoPower}, {NoOut, NoPower}, k, f)
    BY <2>1, <2>4, <2>5, KnowWrite
  <2>7. "CLK_EN" \in Regs /\ {"sd"} \subseteq Bits["CLK_EN"] /\ {"sd"} \subseteq {"sd"} /\ "ff" \in Bytes
    BY Registers DEF Bytes
  <2>8. k \in TaskKinds
    BY DEF TaskKinds
  <2>9. Follows(<<e>>, TRUE, {NoClock, NoOut, NoPower}, TRUE, {NoOut, NoPower}, k, f)
    BY <2>6, <2>7, <2>8, FollowsUnlock DEF e
  <2> QED  BY <2>2, <2>9
<1>2. Follows(SetBits("PWR", SD_PARTIAL_PWR_ON, "unlock"), TRUE, {NoOut, NoPower}, TRUE, {NoOut}, k, f)
  <2> DEFINE e == Step("write", "PWR", SD_PARTIAL_PWR_ON, SD_PARTIAL_PWR_ON, "ff", "unlock")
  <2>1. e.kind = "write" /\ e.reg = "PWR" /\ e.mask = SD_PARTIAL_PWR_ON
        /\ e.on = SD_PARTIAL_PWR_ON /\ e.onfail = "unlock"
    BY StepParts
  <2>2. SetBits("PWR", SD_PARTIAL_PWR_ON, "unlock") = <<e>>
    BY Registers DEF SetBits
  <2> HIDE DEF e
  <2>3. Fact(e) = <<"PWR", {0}, {0}>>
    BY <2>1 DEF Fact, SD_PARTIAL_PWR_ON
  <2>4. Allowed(e, {NoOut, NoPower}, k, f)
    BY <2>1, <2>3 DEF Allowed
  <2>5. \A p \in {NoOut} : p = Fact(e) \/ (p \in {NoOut, NoPower} /\ p[1] # e.reg)
    BY <2>1, <2>3, Facts
  <2>6. KnowOK(e, {NoOut, NoPower}, {NoOut}, k, f)
    BY <2>1, <2>4, <2>5, KnowWrite
  <2>7. "PWR" \in Regs /\ SD_PARTIAL_PWR_ON \subseteq Bits["PWR"]
        /\ SD_PARTIAL_PWR_ON \subseteq SD_PARTIAL_PWR_ON /\ "ff" \in Bytes
    BY Registers DEF Bytes, SD_PARTIAL_PWR_ON
  <2>8. k \in TaskKinds
    BY DEF TaskKinds
  <2>9. Follows(<<e>>, TRUE, {NoOut, NoPower}, TRUE, {NoOut}, k, f)
    BY <2>6, <2>7, <2>8, FollowsUnlock DEF e
  <2> QED  BY <2>2, <2>9
<1>3. Follows(ClrBits("PWR", SD_PWR_OFF, "unlock"), TRUE, {NoOut}, TRUE, {Power}, k, f)
  <2> DEFINE e == Step("write", "PWR", SD_PWR_OFF, {}, "00", "unlock")
  <2>1. e.kind = "write" /\ e.reg = "PWR" /\ e.mask = SD_PWR_OFF /\ e.on = {} /\ e.onfail = "unlock"
    BY StepParts
  <2>2. ClrBits("PWR", SD_PWR_OFF, "unlock") = <<e>>
    BY Registers DEF ClrBits
  <2> HIDE DEF e
  <2>3. Fact(e) = Power
    BY <2>1 DEF Fact, Power, SD_PWR_OFF
  <2>4. Allowed(e, {NoOut}, k, f)
    BY <2>1, <2>3 DEF Allowed
  <2>5. \A p \in {Power} : p = Fact(e) \/ (p \in {NoOut} /\ p[1] # e.reg)
    BY <2>1, <2>3, Facts
  <2>6. KnowOK(e, {NoOut}, {Power}, k, f)
    BY <2>1, <2>4, <2>5, KnowWrite
  <2>7. "PWR" \in Regs /\ SD_PWR_OFF \subseteq Bits["PWR"] /\ {} \subseteq SD_PWR_OFF /\ "00" \in Bytes
    BY Registers DEF Bytes, SD_PWR_OFF
  <2>8. k \in TaskKinds
    BY DEF TaskKinds
  <2>9. Follows(<<e>>, TRUE, {NoOut}, TRUE, {Power}, k, f)
    BY <2>6, <2>7, <2>8, FollowsUnlock DEF e
  <2> QED  BY <2>2, <2>9
<1>4. Follows(Write("OE", {"out"}, "unlock"), TRUE, {Power}, TRUE, {Power}, k, f)
  <2> DEFINE e == Step("write", "OE", {"out"}, {"out"}, "value", "unlock")
  <2>1. e.kind = "write" /\ e.reg = "OE" /\ e.mask = {"out"} /\ e.on = {"out"} /\ e.onfail = "unlock"
    BY StepParts
  <2>2. Write("OE", {"out"}, "unlock") = <<e>>
    BY Registers DEF Write
  <2> HIDE DEF e
  <2>3. Fact(e) = <<"OE", {"out"}, {"out"}>>
    BY <2>1 DEF Fact
  <2>4. Allowed(e, {Power}, k, f)
    BY <2>1, <2>3 DEF Allowed
  <2>5. \A p \in {Power} : p = Fact(e) \/ (p \in {Power} /\ p[1] # e.reg)
    BY <2>1, <2>3, Facts
  <2>6. KnowOK(e, {Power}, {Power}, k, f)
    BY <2>1, <2>4, <2>5, KnowWrite
  <2>7. "OE" \in Regs /\ {"out"} \subseteq Bits["OE"] /\ {"out"} \subseteq {"out"} /\ "value" \in Bytes
    BY Registers DEF Bytes
  <2>8. k \in TaskKinds
    BY DEF TaskKinds
  <2>9. Follows(<<e>>, TRUE, {Power}, TRUE, {Power}, k, f)
    BY <2>6, <2>7, <2>8, FollowsUnlock DEF e
  <2> QED  BY <2>2, <2>9
<1>5. Follows(SetBits("CLK_EN", {"sd"}, "unlock") \o SetBits("PWR", SD_PARTIAL_PWR_ON, "unlock"),
              TRUE, {NoClock, NoOut, NoPower}, TRUE, {NoOut}, k, f)
  BY <1>1, <1>2, FollowsSeq
<1>6. Follows(SetBits("CLK_EN", {"sd"}, "unlock") \o SetBits("PWR", SD_PARTIAL_PWR_ON, "unlock")
                  \o ClrBits("PWR", SD_PWR_OFF, "unlock"),
              TRUE, {NoClock, NoOut, NoPower}, TRUE, {Power}, k, f)
  BY <1>3, <1>5, FollowsSeq
<1> QED  BY <1>4, <1>6, FollowsSeq DEF BusPowerOn

LEMMA FollowsPowerUp ==
    ASSUME NEW f
    PROVE  Follows(PowerUp, FALSE, {}, FALSE, Achieved("up", f), "up", f)
<1> DEFINE k == "up"
<1>1. Follows(SetBusWidth(1, "unlock"), TRUE, {Power}, TRUE, {Power}, k, f)
  <2> DEFINE e == Step("write", "CFG1", {"w4"}, {}, "00", "unlock")
  <2>1. e.kind = "write" /\ e.reg = "CFG1" /\ e.mask = {"w4"} /\ e.on = {} /\ e.onfail = "unlock"
    BY StepParts
  <2>2. SetBusWidth(1, "unlock") = <<e>>
    BY Registers DEF SetBusWidth
  <2> HIDE DEF e
  <2>3. Fact(e) = <<"CFG1", {"w4"}, {}>>
    BY <2>1 DEF Fact
  <2>4. Allowed(e, {Power}, k, f)
    BY <2>1, <2>3 DEF Allowed
  <2>5. \A p \in {Power} : p = Fact(e) \/ (p \in {Power} /\ p[1] # e.reg)
    BY <2>1, <2>3, Facts
  <2>6. KnowOK(e, {Power}, {Power}, k, f)
    BY <2>1, <2>4, <2>5, KnowWrite
  <2>7. "CFG1" \in Regs /\ {"w4"} \subseteq Bits["CFG1"] /\ {} \subseteq {"w4"} /\ "00" \in Bytes
    BY Registers DEF Bytes
  <2>8. k \in TaskKinds
    BY DEF TaskKinds
  <2>9. Follows(<<e>>, TRUE, {Power}, TRUE, {Power}, k, f)
    BY <2>6, <2>7, <2>8, FollowsUnlock DEF e
  <2> QED  BY <2>2, <2>9
<1>2. Follows(Splsdmmc \o BusPowerOff("unlock"), FALSE, {}, TRUE, {NoClock, NoOut, NoPower}, k, f)
  BY FollowsSplsdmmc, FollowsPowerOff, FollowsSeq
<1>3. Follows(Splsdmmc \o BusPowerOff("unlock") \o BusPowerOn("unlock"), FALSE, {}, TRUE, {Power}, k, f)
  BY <1>2, FollowsPowerOn, FollowsSeq
<1>4. Follows(Splsdmmc \o BusPowerOff("unlock") \o BusPowerOn("unlock") \o SetBusWidth(1, "unlock"),
              FALSE, {}, TRUE, {Power}, k, f)
  BY <1>1, <1>3, FollowsSeq
<1>5. Follows(Splx, TRUE, {Power}, FALSE, {Power}, k, f)
  BY FollowsSplx
<1>6. Follows(PowerUp, FALSE, {}, FALSE, {Power}, k, f)
  BY <1>4, <1>5, FollowsSeq DEF PowerUp
<1> QED  BY <1>6 DEF Achieved

\* The reset at the end of rtsx_bus_power(0) may fail: the power is off already.
LEMMA FollowsPowerDown ==
    ASSUME NEW f
    PROVE  Follows(PowerDown, FALSE, {}, FALSE, Achieved("down", f), "down", f)
<1> DEFINE k   == "down"
           Off == {NoClock, NoOut, NoPower}
<1>1. Follows(ChipInit("done"), TRUE, Off, TRUE, Off, k, f)
  <2> DEFINE e == Step("write", "CLK_EN", {"sd"}, {}, "00", "done")
  <2>1. e.kind = "write" /\ e.reg = "CLK_EN" /\ e.mask = {"sd"} /\ e.on = {} /\ e.onfail = "done"
    BY StepParts
  <2>2. ChipInit("done") = <<e>>
    BY DEF ChipInit, ClrBits
  <2> HIDE DEF e
  <2>3. Fact(e) = NoClock
    BY <2>1 DEF Fact, NoClock
  <2>4. Allowed(e, Off, k, f)
    BY <2>1, <2>3 DEF Allowed
  <2>5. \A p \in Off : p = Fact(e) \/ Spared(p, e)
    BY <2>1, <2>3, Facts DEF Spared
  <2>6. Off \subseteq After(Off, e) /\ Harmless(e, Achieved(k, f)) /\ Achieved(k, f) = Off
    BY <2>5 DEF After, Harmless, Achieved
  <2>7. KnowOK(e, Off, Off, k, f)
    BY <2>1, <2>4, <2>6 DEF KnowOK
  <2>8. "CLK_EN" \in Regs /\ {"sd"} \subseteq Bits["CLK_EN"] /\ "00" \in Bytes
    BY Registers DEF Bytes
  <2> HIDE DEF Off
  <2>9. Follows(<<e>>, TRUE, Off, TRUE, Off, k, f)
    BY <2>7, <2>8, FollowsWrite DEF e
  <2> QED  BY <2>2, <2>9
<1> HIDE DEF Off
<1>2. Follows(Splsdmmc, FALSE, Off, TRUE, Off, k, f) /\ Follows(Splx, TRUE, Off, FALSE, Off, k, f)
  BY FollowsSplsdmmc, FollowsSplx
<1>3. Follows(Splsdmmc \o ChipInit("done"), FALSE, Off, TRUE, Off, k, f)
  BY <1>1, <1>2, FollowsSeq
<1>4. Follows(HostReset("done"), FALSE, Off, FALSE, Off, k, f)
  BY <1>2, <1>3, FollowsSeq DEF HostReset
<1>5. Follows(Splsdmmc \o BusPowerOff("unlock"), FALSE, {}, TRUE, Off, k, f)
  BY FollowsSplsdmmc, FollowsPowerOff, FollowsSeq DEF Off
<1>6. Follows(Splsdmmc \o BusPowerOff("unlock") \o Splx, FALSE, {}, FALSE, Off, k, f)
  BY <1>2, <1>5, FollowsSeq
<1>7. Follows(PowerDown, FALSE, {}, FALSE, Off, k, f)
  BY <1>4, <1>6, FollowsSeq DEF PowerDown
<1> QED  BY <1>7 DEF Achieved, Off

LEMMA FollowsClockOff ==
    ASSUME NEW f
    PROVE  Follows(ClockOff, FALSE, {}, FALSE, Achieved("stop", f), "stop", f)
<1> DEFINE k == "stop"
<1>1. Follows(StopSdClock("unlock"), TRUE, {}, TRUE, {}, k, f)
  <2> DEFINE e == Step("write", "CLK_EN", {"sd"}, {}, "00", "unlock")
  <2>1. e.kind = "write" /\ e.reg = "CLK_EN" /\ e.mask = {"sd"} /\ e.on = {} /\ e.onfail = "unlock"
    BY StepParts
  <2>2. StopSdClock("unlock") = <<e>>
    BY Registers DEF StopSdClock, ClrBits
  <2> HIDE DEF e
  <2>3. Fact(e) = NoClock
    BY <2>1 DEF Fact, NoClock
  <2>4. Allowed(e, {}, k, f)
    BY <2>1, <2>3 DEF Allowed
  <2>5. \A p \in {} : p = Fact(e) \/ (p \in {} /\ p[1] # e.reg)
    BY <2>1, <2>3, Facts
  <2>6. KnowOK(e, {}, {}, k, f)
    BY <2>1, <2>4, <2>5, KnowWrite
  <2>7. "CLK_EN" \in Regs /\ {"sd"} \subseteq Bits["CLK_EN"] /\ {} \subseteq {"sd"} /\ "00" \in Bytes
    BY Registers DEF Bytes
  <2>8. k \in TaskKinds
    BY DEF TaskKinds
  <2>9. Follows(<<e>>, TRUE, {}, TRUE, {}, k, f)
    BY <2>6, <2>7, <2>8, FollowsUnlock DEF e
  <2> QED  BY <2>2, <2>9
<1>2. Follows(Splsdmmc \o StopSdClock("unlock"), FALSE, {}, TRUE, {}, k, f)
  BY <1>1, FollowsSplsdmmc, FollowsSeq
<1>3. Follows(Splx, TRUE, {}, FALSE, {}, k, f)
  BY FollowsSplx
<1>4. Follows(ClockOff, FALSE, {}, FALSE, {}, k, f)
  BY <1>2, <1>3, FollowsSeq DEF ClockOff
<1> QED  BY <1>4 DEF Achieved

\* rtsx_bus_width takes no lock.
LEMMA FollowsWidth ==
    ASSUME NEW f, NEW w
    PROVE  Follows(SetBusWidth(w, "return"), FALSE, {}, FALSE, Achieved("width", f), "width", f)
<1> DEFINE on == IF w = 4 THEN {"w4"} ELSE {}
           byte == IF w = 4 THEN "01" ELSE "00"
           e  == Step("write", "CFG1", {"w4"}, on, byte, "return")
<1>1. e.kind = "write" /\ e.reg = "CFG1" /\ e.mask = {"w4"} /\ e.on = on /\ e.onfail = "return"
  BY StepParts
<1>2. SetBusWidth(w, "return") = <<e>>
  BY DEF SetBusWidth
<1>3. on \subseteq {"w4"} /\ byte \in Bytes
  BY DEF Bytes
<1> HIDE DEF e, on, byte
<1>4. Allowed(e, {}, "width", f)
  BY <1>1 DEF Allowed
<1>5. KnowOK(e, {}, {}, "width", f)
  BY <1>1, <1>4, KnowWrite
<1>6. "CFG1" \in Regs /\ {"w4"} \subseteq Bits["CFG1"]
  BY Registers
<1>7. Follows(<<e>>, FALSE, {}, FALSE, {}, "width", f)
  BY <1>3, <1>5, <1>6, FollowsWrite DEF e
<1> QED  BY <1>2, <1>7 DEF Achieved

\* The rows of the table, and the clocks that its values can give
LEMMA Rows ==
    ASSUME NEW f \in AllFreqs
    PROVE  /\ f = 400 => Row(f).n = 80 /\ Row(f).div = 8
           /\ f = 25000 => Row(f).n = 100 /\ Row(f).div = 4
           /\ f = 50000 => Row(f).n = 100 /\ Row(f).div = 2
BY DEF Row, AllFreqs

LEMMA FollowsBusClock ==
    ASSUME NEW f \in AllFreqs
    PROVE  Follows(BusClock(f), FALSE, {}, FALSE, Achieved("clock", f), "clock", f)
<1> DEFINE k == "clock"
           Div == Div128(f)
           Set == {Div, Low, RowDiv(f), RowN(f)}
<1>1. Follows(Divide(f), TRUE, {}, TRUE, {Div}, k, f)
  <2> DEFINE on == IF f = 400 THEN {"div128"} ELSE {}
             byte == IF f = 400 THEN "ff" ELSE "00"
             e  == Step("write", "CFG1", {"div128"}, on, byte, "return")
  <2>1. e.kind = "write" /\ e.reg = "CFG1" /\ e.mask = {"div128"} /\ e.on = on /\ e.onfail = "return"
    BY StepParts
  <2>2. Divide(f) = <<e>>
    BY DEF Divide, SetBits, ClrBits
  <2>3. on \subseteq {"div128"} /\ byte \in Bytes
    BY DEF Bytes
  <2> HIDE DEF e
  <2>4. Fact(e) = Div
    BY <2>1 DEF Fact, Div128
  <2> HIDE DEF on, byte
  <2>5. Allowed(e, {}, k, f)
    BY <2>1, <2>4 DEF Allowed
  <2>6. KnowOK(e, {}, {Div}, k, f)
    BY <2>1, <2>4, <2>5, KnowWrite
  <2>7. "CFG1" \in Regs /\ {"div128"} \subseteq Bits["CFG1"]
    BY Registers
  <2>8. Follows(<<e>>, TRUE, {}, TRUE, {Div}, k, f)
    BY <2>3, <2>6, <2>7, FollowsWrite DEF e
  <2> QED  BY <2>2, <2>8
<1>0. /\ Row(f).div \in {2, 4, 8} /\ Row(f).n \in {80, 100}
      /\ Div[1] = "CFG1" /\ Low[1] = "CLK_CTL" /\ RowDiv(f)[1] = "CLK_DIV" /\ RowN(f)[1] = "DIV_N"
  <2>1. Row(f).div \in {2, 4, 8} /\ Row(f).n \in {80, 100}
    BY Rows DEF AllFreqs
  <2> QED  BY <2>1, Facts
<1> HIDE DEF Div

<1>2. Follows(SetBits("CLK_CTL", {"low"}, "unlock"), TRUE, {Div}, TRUE, {Div, Low}, k, f)
  <2> DEFINE e == Step("write", "CLK_CTL", {"low"}, {"low"}, "ff", "unlock")
  <2>1. e.kind = "write" /\ e.reg = "CLK_CTL" /\ e.mask = {"low"} /\ e.on = {"low"}
        /\ e.onfail = "unlock"
    BY StepParts
  <2>2. SetBits("CLK_CTL", {"low"}, "unlock") = <<e>>
    BY DEF SetBits
  <2> HIDE DEF e
  <2>3. Fact(e) = Low
    BY <2>1, Registers DEF Fact, Low
  <2>4. Allowed(e, {Div}, k, f)
    BY <2>1, <2>3 DEF Allowed
  <2>5. KnowOK(e, {Div}, {Div, Low}, k, f)
    BY <1>0, <2>1, <2>3, <2>4, KnowWrite
  <2>6. "CLK_CTL" \in Regs /\ {"low"} \subseteq Bits["CLK_CTL"] /\ {"low"} \subseteq {"low"}
        /\ "ff" \in Bytes
    BY <1>0, Registers DEF Bytes
  <2>7. "CLK_CTL" \in {"CLK_DIV", "DIV_N"} =>
           {"low"} = Bits["CLK_CTL"] /\ \E v \in Bits["CLK_CTL"] : {"low"} = {v}
    BY <1>0, Registers
  <2>8. k \in TaskKinds
    BY DEF TaskKinds
  <2>9. Follows(<<e>>, TRUE, {Div}, TRUE, {Div, Low}, k, f)
    BY <2>5, <2>6, <2>7, <2>8, FollowsUnlock DEF e
  <2> QED  BY <2>2, <2>9
<1>3. Follows(Write("CLK_DIV", {Row(f).div}, "unlock"), TRUE, {Div, Low}, TRUE,
            {Div, Low, RowDiv(f)}, k, f)
  <2> DEFINE e == Step("write", "CLK_DIV", Bits["CLK_DIV"], {Row(f).div}, "value", "unlock")
  <2>1. e.kind = "write" /\ e.reg = "CLK_DIV" /\ e.mask = Bits["CLK_DIV"] /\ e.on = {Row(f).div}
        /\ e.onfail = "unlock"
    BY StepParts
  <2>2. Write("CLK_DIV", {Row(f).div}, "unlock") = <<e>>
    BY DEF Write
  <2> HIDE DEF e
  <2>3. Fact(e) = RowDiv(f)
    BY <2>1, Registers DEF Fact, RowDiv
  <2>4. Allowed(e, {Div, Low}, k, f)
    BY <2>1, <2>3 DEF Allowed
  <2>5. KnowOK(e, {Div, Low}, {Div, Low, RowDiv(f)}, k, f)
    BY <1>0, <2>1, <2>3, <2>4, KnowWrite
  <2>6. "CLK_DIV" \in Regs /\ Bits["CLK_DIV"] \subseteq Bits["CLK_DIV"]
        /\ {Row(f).div} \subseteq Bits["CLK_DIV"] /\ "value" \in Bytes
    BY <1>0, Registers DEF Bytes
  <2>7. "CLK_DIV" \in {"CLK_DIV", "DIV_N"} =>
           Bits["CLK_DIV"] = Bits["CLK_DIV"] /\ \E v \in Bits["CLK_DIV"] : {Row(f).div} = {v}
    BY <1>0, Registers
  <2>8. k \in TaskKinds
    BY DEF TaskKinds
  <2>9. Follows(<<e>>, TRUE, {Div, Low}, TRUE, {Div, Low, RowDiv(f)}, k, f)
    BY <2>5, <2>6, <2>7, <2>8, FollowsUnlock DEF e
  <2> QED  BY <2>2, <2>9
<1>4. Follows(Write("DIV_N", {Row(f).n}, "unlock"), TRUE, {Div, Low, RowDiv(f)}, TRUE, Set, k, f)
  <2> DEFINE e == Step("write", "DIV_N", Bits["DIV_N"], {Row(f).n}, "value", "unlock")
  <2>1. e.kind = "write" /\ e.reg = "DIV_N" /\ e.mask = Bits["DIV_N"] /\ e.on = {Row(f).n}
        /\ e.onfail = "unlock"
    BY StepParts
  <2>2. Write("DIV_N", {Row(f).n}, "unlock") = <<e>>
    BY DEF Write
  <2> HIDE DEF e
  <2>3. Fact(e) = RowN(f)
    BY <2>1, Registers DEF Fact, RowN
  <2>4. Allowed(e, {Div, Low, RowDiv(f)}, k, f)
    BY <2>1, <2>3 DEF Allowed
  <2>5. KnowOK(e, {Div, Low, RowDiv(f)}, Set, k, f)
    BY <1>0, <2>1, <2>3, <2>4, KnowWrite
  <2>6. "DIV_N" \in Regs /\ Bits["DIV_N"] \subseteq Bits["DIV_N"]
        /\ {Row(f).n} \subseteq Bits["DIV_N"] /\ "value" \in Bytes
    BY <1>0, Registers DEF Bytes
  <2>7. "DIV_N" \in {"CLK_DIV", "DIV_N"} =>
           Bits["DIV_N"] = Bits["DIV_N"] /\ \E v \in Bits["DIV_N"] : {Row(f).n} = {v}
    BY <1>0, Registers
  <2>8. k \in TaskKinds
    BY DEF TaskKinds
  <2>9. Follows(<<e>>, TRUE, {Div, Low, RowDiv(f)}, TRUE, Set, k, f)
    BY <2>5, <2>6, <2>7, <2>8, FollowsUnlock DEF e
  <2> QED  BY <2>2, <2>9
<1>5. Follows(ClrBits("CLK_CTL", {"low"}, "unlock"), TRUE, Set, TRUE, Achieved(k, f), k, f)
  <2> DEFINE e == Step("write", "CLK_CTL", {"low"}, {}, "00", "unlock")
  <2>1. e.kind = "write" /\ e.reg = "CLK_CTL" /\ e.mask = {"low"} /\ e.on = {} /\ e.onfail = "unlock"
    BY StepParts
  <2>2. ClrBits("CLK_CTL", {"low"}, "unlock") = <<e>>
    BY DEF ClrBits
  <2> HIDE DEF e
  <2>3. Fact(e) = <<"CLK_CTL", {"low"}, {}>>
    BY <2>1, Registers DEF Fact
  <2>4. Allowed(e, Set, k, f)
    BY <2>1, <2>3 DEF Allowed, Achieved, Div
  <2>5. KnowOK(e, Set, Achieved(k, f), k, f)
    <3>1. \A p \in Achieved(k, f) : p \in Set /\ p[1] # e.reg
      BY <1>0, <2>1 DEF Achieved, Div
    <3> QED  BY <2>1, <2>4, <3>1, KnowWrite
  <2>6. "CLK_CTL" \in Regs /\ {"low"} \subseteq Bits["CLK_CTL"] /\ {} \subseteq {"low"} /\ "00" \in Bytes
    BY <1>0, Registers DEF Bytes
  <2>7. "CLK_CTL" \in {"CLK_DIV", "DIV_N"} =>
           {"low"} = Bits["CLK_CTL"] /\ \E v \in Bits["CLK_CTL"] : {} = {v}
    BY <1>0, Registers
  <2>8. k \in TaskKinds
    BY DEF TaskKinds
  <2>9. Follows(<<e>>, TRUE, Set, TRUE, Achieved(k, f), k, f)
    BY <2>5, <2>6, <2>7, <2>8, FollowsUnlock DEF e
  <2> QED  BY <2>2, <2>9
<1>6. Follows(Splsdmmc, FALSE, {}, TRUE, {}, k, f)
      /\ Follows(Splx, TRUE, Achieved(k, f), FALSE, Achieved(k, f), k, f)
  BY FollowsSplsdmmc, FollowsSplx
<1>7. Follows(SetBits("CLK_CTL", {"low"}, "unlock") \o Write("CLK_DIV", {Row(f).div}, "unlock"),
              TRUE, {Div}, TRUE, {Div, Low, RowDiv(f)}, k, f)
  BY <1>2, <1>3, FollowsSeq
<1>8. Follows(SetBits("CLK_CTL", {"low"}, "unlock") \o Write("CLK_DIV", {Row(f).div}, "unlock")
                  \o Write("DIV_N", {Row(f).n}, "unlock"), TRUE, {Div}, TRUE, Set, k, f)
  BY <1>4, <1>7, FollowsSeq
<1>9. Follows(SwitchSdClock(Row(f), "unlock"), TRUE, {Div}, TRUE, Achieved(k, f), k, f)
  BY <1>5, <1>8, FollowsSeq DEF SwitchSdClock
<1>10. Follows(Splsdmmc \o Divide(f), FALSE, {}, TRUE, {Div}, k, f)
  BY <1>1, <1>6, FollowsSeq
<1>11. Follows(Splsdmmc \o Divide(f) \o SwitchSdClock(Row(f), "unlock"), FALSE, {}, TRUE,
         Achieved(k, f), k, f)
  BY <1>9, <1>10, FollowsSeq
<1> QED  BY <1>6, <1>11, FollowsSeq DEF BusClock

\* The interrupt thread writes the register of the LED alone.
LEMMA FollowsLed ==
    ASSUME NEW led \in {LedEnable, LedDisable}, NEW k \in {"led", "pm"}, NEW f
    PROVE  Follows(led, FALSE, {}, FALSE, {}, k, f)
<1>1. "MISC" \in Regs /\ {} \subseteq Bits["MISC"] /\ "ff" \in Bytes /\ "00" \in Bytes
  BY Registers DEF Bytes
<1>2. k \notin TaskKinds /\ k # "clock"
  BY DEF TaskKinds
<1>3. Follows(<<Step("write", "MISC", {}, {}, "ff", "return")>>, FALSE, {}, FALSE, {}, k, f)
  BY <1>1, <1>2, FollowsWrite
<1>4. Follows(<<Step("write", "MISC", {}, {}, "00", "return")>>, FALSE, {}, FALSE, {}, k, f)
  BY <1>1, <1>2, FollowsWrite
<1>5. LedEnable = <<Step("write", "MISC", {}, {}, "ff", "return")>>
      /\ LedDisable = <<Step("write", "MISC", {}, {}, "00", "return")>>
  BY DEF LedEnable, LedDisable, SetBits, ClrBits
<1> QED  BY <1>3, <1>4, <1>5

\* The other steps of a sleep: nothing has to be known for them.
LEMMA FollowsPm ==
    ASSUME NEW kind \in {"read", "save", "restore"}, NEW r \in Regs, NEW byte \in Bytes,
           NEW onfail \in Outcomes, kind = "read" => r \in SavedRegs, NEW a, NEW f
    PROVE  Follows(<<Step(kind, r, {}, {}, byte, onfail)>>, a, {}, a, {}, "pm", f)
<1> DEFINE e == Step(kind, r, {}, {}, byte, onfail)
<1>1. e.kind = kind /\ e.reg = r
  BY StepParts
<1>2. e \in Steps
  <2>1. {} \subseteq Bits[r]
    OBVIOUS
  <2> QED  BY <2>1, StepIn
<1> HIDE DEF e
<1>3. Proper(e) /\ LockOK(e, a, a, "pm")
  BY <1>1 DEF Proper, LockOK
<1>4. StepOK(e, a, {}, a, {}, "pm", f)
  BY <1>2, <1>3 DEF StepOK, TaskKinds
<1> QED  BY <1>4, FollowsOne DEF e

LEMMA FollowsSaveRegs ==
    ASSUME NEW f
    PROVE  Follows(SaveRegs, FALSE, {}, FALSE, {}, "pm", f)
<1> DEFINE save == <<Step("save", "MISC", {}, {}, "", "")>>
<1>1. "MISC" \in Regs /\ "CFG1" \in Regs /\ "OE" \in Regs /\ "CFG1" \in SavedRegs /\ "OE" \in SavedRegs
      /\ "any" \in Bytes /\ "" \in Bytes /\ "ignore" \in Outcomes /\ "" \in Outcomes
  BY Registers DEF Bytes, Outcomes, SavedRegs
<1>2. Follows(Read("CFG1"), TRUE, {}, TRUE, {}, "pm", f)
  BY <1>1, FollowsPm DEF Read
<1>3. Follows(Read("OE"), TRUE, {}, TRUE, {}, "pm", f)
  BY <1>1, FollowsPm DEF Read
<1>4. Follows(save, TRUE, {}, TRUE, {}, "pm", f)
  BY <1>1, FollowsPm
<1> HIDE DEF save
<1>5. Follows(Splsdmmc, FALSE, {}, TRUE, {}, "pm", f) /\ Follows(Splx, TRUE, {}, FALSE, {}, "pm", f)
  BY FollowsSplsdmmc, FollowsSplx
<1>6. Follows(Splsdmmc \o Read("CFG1"), FALSE, {}, TRUE, {}, "pm", f)
  BY <1>2, <1>5, FollowsSeq
<1>7. Follows(Splsdmmc \o Read("CFG1") \o Read("OE"), FALSE, {}, TRUE, {}, "pm", f)
  BY <1>3, <1>6, FollowsSeq
<1>8. Follows(Splsdmmc \o Read("CFG1") \o Read("OE") \o save, FALSE, {}, TRUE, {}, "pm", f)
  BY <1>4, <1>7, FollowsSeq
<1> QED  BY <1>5, <1>8, FollowsSeq DEF SaveRegs, save

\* What is restored are bits of the registers that were saved.
LEMMA FollowsRestoreRegs ==
    ASSUME saved["CFG1"] \subseteq Bits["CFG1"], saved["OE"] \subseteq Bits["OE"], NEW f
    PROVE  Follows(RestoreRegs, FALSE, {}, FALSE, {}, "pm", f)
<1> DEFINE restore == <<Step("restore", "MISC", {}, {}, "", "")>>
<1>1. "MISC" \in Regs /\ "CFG1" \in Regs /\ "OE" \in Regs /\ "value" \in Bytes
      /\ "" \in Bytes /\ "" \in Outcomes
  BY Registers DEF Bytes, Outcomes
<1>2. Follows(restore, TRUE, {}, TRUE, {}, "pm", f)
  BY <1>1, FollowsPm
<1> HIDE DEF restore
<1>3. "pm" \notin TaskKinds
  BY DEF TaskKinds
<1>4. Follows(Write("CFG1", saved["CFG1"], "ignore"), TRUE, {}, TRUE, {}, "pm", f)
  BY <1>1, <1>3, FollowsWrite DEF Write
<1>5. Follows(Write("OE", saved["OE"], "ignore"), TRUE, {}, TRUE, {}, "pm", f)
  BY <1>1, <1>3, FollowsWrite DEF Write
<1>6. Follows(Splsdmmc, FALSE, {}, TRUE, {}, "pm", f) /\ Follows(Splx, TRUE, {}, FALSE, {}, "pm", f)
  BY FollowsSplsdmmc, FollowsSplx
<1>7. Follows(Splsdmmc \o restore, FALSE, {}, TRUE, {}, "pm", f)
  BY <1>2, <1>6, FollowsSeq
<1>8. Follows(Splsdmmc \o restore \o Write("CFG1", saved["CFG1"], "ignore"), FALSE, {}, TRUE, {},
        "pm", f)
  BY <1>4, <1>7, FollowsSeq
<1>9. Follows(Splsdmmc \o restore \o Write("CFG1", saved["CFG1"], "ignore")
                  \o Write("OE", saved["OE"], "ignore"), FALSE, {}, TRUE, {}, "pm", f)
  BY <1>5, <1>8, FollowsSeq
<1> QED  BY <1>6, <1>9, FollowsSeq DEF RestoreRegs, restore

\* The start of the controller takes no lock.
LEMMA FollowsChipInit ==
    ASSUME NEW f
    PROVE  Follows(ChipInit("return"), FALSE, {}, FALSE, {}, "pm", f)
<1>1. "CLK_EN" \in Regs /\ {"sd"} \subseteq Bits["CLK_EN"] /\ {} \subseteq {"sd"} /\ "00" \in Bytes
  BY Registers DEF Bytes
<1>2. "pm" \notin TaskKinds
  BY DEF TaskKinds
<1> QED  BY <1>1, <1>2, FollowsWrite DEF ChipInit, ClrBits

-----------------------------------------------------------------------------
(***************************************************************************)
(* The registers that writes may lead to                                   *)
(***************************************************************************)

\* The registers of the chip hold bits of theirs; n and div are one value.
Chip(R) ==
    /\ DOMAIN R = Regs
    /\ \A r \in Regs : R[r] \subseteq Bits[r]
    /\ \E n \in {80, 100} : R["DIV_N"] = {n}
    /\ \E d \in {2, 4, 8} : R["CLK_DIV"] = {d}

\* The clock before the dividers, and the clock on the bus
Raw(R) == Ssc(CHOOSE n \in R["DIV_N"] : TRUE, CHOOSE d \in R["CLK_DIV"] : TRUE)
Bus(R) == IF "low" \in R["CLK_CTL"] \/ "div128" \in R["CFG1"] THEN 400 ELSE Raw(R)

\* What is claimed of the registers. The clock before the dividers is bounded
\* too, because a later operation takes the dividers away first.
SpeedOK(R)  == Bus(R) <= limit /\ Raw(R) <= Fastest(limit, 10250)
OutputOK(R) == R["OE"] # {} => R["PWR"] = {}
OffOK(R)    == R["PWR"] = SD_PWR_OFF /\ R["OE"] = {} /\ R["CLK_EN"] = {}

\* The limit allows what the clock is being set to.
Ceiling(k, f) ==
    /\ limit \in Nat /\ 400 <= limit
    /\ k = "clock" => limit >= Speed(f)

LEMMA ChipWritten ==
    ASSUME NEW R, Chip(R), NEW e, e.kind = "write", Proper(e)
    PROVE  Chip(Written(R, e))
<1> DEFINE W == Written(R, e)
<1>1. e.reg \in Regs /\ e.mask \subseteq Bits[e.reg] /\ e.on \subseteq e.mask
  BY DEF Proper
<1>2. DOMAIN W = Regs /\ W[e.reg] = (R[e.reg] \ e.mask) \cup e.on
      /\ \A r \in Regs : r # e.reg => W[r] = R[r]
  BY <1>1, WrittenParts DEF Chip
<1> HIDE DEF W
<1>3. \A r \in Regs : W[r] \subseteq Bits[r]
  <2> SUFFICES ASSUME NEW r \in Regs PROVE W[r] \subseteq Bits[r]
    OBVIOUS
  <2>1. R[r] \subseteq Bits[r]
    BY DEF Chip
  <2>2. CASE r = e.reg
    BY <1>1, <1>2, <2>1, <2>2
  <2>3. CASE r # e.reg
    BY <1>2, <2>1, <2>3
  <2> QED  BY <2>2, <2>3
<1>4. e.reg \in {"CLK_DIV", "DIV_N"} => \E v \in Bits[e.reg] : W[e.reg] = {v}
  <2> SUFFICES ASSUME e.reg \in {"CLK_DIV", "DIV_N"} PROVE \E v \in Bits[e.reg] : W[e.reg] = {v}
    OBVIOUS
  <2>1. PICK v \in Bits[e.reg] : e.on = {v}
    BY DEF Proper
  <2>2. e.mask = Bits[e.reg] /\ R[e.reg] \subseteq Bits[e.reg]
    BY <1>1 DEF Proper, Chip
  <2>3. W[e.reg] = {v}
    BY <1>2, <2>1, <2>2
  <2> QED  BY <2>3
<1>5. "DIV_N" \in Regs /\ "CLK_DIV" \in Regs /\ Bits["DIV_N"] = {80, 100} /\ Bits["CLK_DIV"] = {2, 4, 8}
  BY Registers
<1>6. \E n \in {80, 100} : W["DIV_N"] = {n}
  <2>1. CASE e.reg = "DIV_N"
    BY <1>4, <1>5, <2>1
  <2>2. CASE e.reg # "DIV_N"
    BY <1>2, <1>5, <2>2 DEF Chip
  <2> QED  BY <2>1, <2>2
<1>7. \E d \in {2, 4, 8} : W["CLK_DIV"] = {d}
  <2>1. CASE e.reg = "CLK_DIV"
    BY <1>4, <1>5, <2>1
  <2>2. CASE e.reg # "CLK_DIV"
    BY <1>2, <1>5, <2>2 DEF Chip
  <2> QED  BY <2>1, <2>2
<1> QED  BY <1>2, <1>3, <1>6, <1>7 DEF Chip, W

\* The clocks
LEMMA Clocks ==
    /\ Ssc(80, 8) = 10250 /\ Ssc(80, 4) = 20500 /\ Ssc(80, 2) = 41000
    /\ Ssc(100, 8) = 12750 /\ Ssc(100, 4) = 25500 /\ Ssc(100, 2) = 51000
BY DEF Ssc

LEMMA RawIs ==
    ASSUME NEW R, NEW n, NEW d, R["DIV_N"] = {n}, R["CLK_DIV"] = {d}
    PROVE  Raw(R) = Ssc(n, d)
<1>1. \A x : (CHOOSE y \in {x} : TRUE) = x
  OBVIOUS
<1> QED  BY <1>1 DEF Raw

LEMMA Speeds ==
    ASSUME NEW f \in AllFreqs
    PROVE  /\ f = 400 => Speed(f) = 400
           /\ f = 25000 => Speed(f) = 25500
           /\ f = 50000 => Speed(f) = 51000
<1>1. CASE f = 400
  BY <1>1 DEF Speed
<1>2. CASE f = 25000
  <2>1. Speed(f) = Ssc(100, 4)
    BY <1>2, Rows DEF Speed
  <2> QED  BY <1>2, <2>1, Clocks
<1>3. CASE f = 50000
  <2>1. Speed(f) = Ssc(100, 2)
    BY <1>3, Rows DEF Speed
  <2> QED  BY <1>3, <2>1, Clocks
<1> QED  BY <1>1, <1>2, <1>3 DEF AllFreqs

LEMMA RawRange ==
    ASSUME NEW R, Chip(R)
    PROVE  /\ Raw(R) \in Nat /\ 10250 <= Raw(R) /\ Raw(R) <= 51000
           /\ Bus(R) \in Nat /\ 400 <= Bus(R) /\ Bus(R) <= 51000
<1>1. PICK n \in {80, 100} : R["DIV_N"] = {n}
  BY DEF Chip
<1>2. PICK d \in {2, 4, 8} : R["CLK_DIV"] = {d}
  BY DEF Chip
<1>3. Raw(R) = Ssc(n, d)
  BY <1>1, <1>2, RawIs
<1>4. Raw(R) \in Nat /\ 10250 <= Raw(R) /\ Raw(R) <= 51000
  BY <1>3, Clocks
<1>5. Bus(R) = 400 \/ Bus(R) = Raw(R)
  BY DEF Bus
<1> QED  BY <1>4, <1>5

LEMMA FastestIs ==
    ASSUME NEW a \in Nat, NEW b \in Nat
    PROVE  Fastest(a, b) \in Nat /\ Fastest(a, b) >= a /\ Fastest(a, b) >= b
           /\ Fastest(a, b) \in {a, b}
BY DEF Fastest

\* A write of the task thread that is made where its operation makes it keeps
\* the card's inputs undriven without power, and what is off, off.
LEMMA OutputWritten ==
    ASSUME NEW R, Chip(R), NEW e, e.kind = "write", Proper(e), NEW K, Holds(R, K),
           NEW k, NEW f, Allowed(e, K, k, f)
    PROVE  /\ OutputOK(R) => OutputOK(Written(R, e))
           /\ k # "up" /\ OffOK(R) => OffOK(Written(R, e))
<1> DEFINE W == Written(R, e)
<1>1. e.reg \in Regs /\ e.mask \subseteq Bits[e.reg] /\ e.on \subseteq e.mask
  BY DEF Proper
<1>2. W[e.reg] = (R[e.reg] \ e.mask) \cup e.on /\ \A r \in Regs : r # e.reg => W[r] = R[r]
  BY <1>1, WrittenParts DEF Chip
<1>3. "OE" \in Regs /\ "PWR" \in Regs /\ "CLK_EN" \in Regs
      /\ R["OE"] \subseteq {"out"} /\ R["PWR"] \subseteq {0, 1} /\ R["CLK_EN"] \subseteq {"sd"}
  BY Registers DEF Chip
<1> HIDE DEF W
<1>4. NoOut \in K => R["OE"] = {}
  <2>1. NoOut \in K => R["OE"] \cap {"out"} = {}
    BY Facts DEF Holds
  <2> QED  BY <1>3, <2>1
<1>5. Power \in K => R["PWR"] = {}
  <2>1. Power \in K => R["PWR"] \cap {0, 1} = {}
    BY Facts DEF Holds
  <2> QED  BY <1>3, <2>1
<1>6. ASSUME OutputOK(R) PROVE OutputOK(W)
  <2>1. R["OE"] # {} => R["PWR"] = {}
    BY <1>6 DEF OutputOK
  <2>2. CASE e.reg = "OE"
    <3>1. W["PWR"] = R["PWR"]
      BY <1>2, <1>3, <2>2
    <3>2. CASE e.on = {}
      <4>1. W["OE"] # {} => R["OE"] # {}
        BY <1>2, <2>2, <3>2
      <4> QED  BY <2>1, <3>1, <4>1 DEF OutputOK
    <3>3. CASE e.on # {}
      <4>1. Power \in K
        BY <2>2, <3>3 DEF Allowed
      <4> QED  BY <1>5, <3>1, <4>1 DEF OutputOK
    <3> QED  BY <3>2, <3>3
  <2>3. CASE e.reg = "PWR"
    <3>1. W["OE"] = R["OE"]
      BY <1>2, <1>3, <2>3
    <3>2. CASE e.on = {}
      <4>1. R["PWR"] = {} => W["PWR"] = {}
        BY <1>2, <2>3, <3>2
      <4> QED  BY <2>1, <3>1, <4>1 DEF OutputOK
    <3>3. CASE e.on # {}
      <4>1. NoOut \in K
        BY <2>3, <3>3 DEF Allowed
      <4> QED  BY <1>4, <3>1, <4>1 DEF OutputOK
    <3> QED  BY <3>2, <3>3
  <2>4. CASE e.reg # "OE" /\ e.reg # "PWR"
    BY <1>2, <1>3, <2>1, <2>4 DEF OutputOK
  <2> QED  BY <2>2, <2>3, <2>4
<1>7. ASSUME k # "up", OffOK(R) PROVE OffOK(W)
  <2>1. R["PWR"] = {0, 1} /\ R["OE"] = {} /\ R["CLK_EN"] = {}
    BY <1>7 DEF OffOK, SD_PWR_OFF
  <2>2. CASE e.reg \in {"CLK_EN", "OE", "PWR"}
    <3>1. Fact(e) \in {NoClock, NoOut, NoPower}
      BY <1>7, <2>2 DEF Allowed
    <3>2. \/ e.reg = "CLK_EN" /\ e.on = {}
          \/ e.reg = "OE" /\ e.on = {}
          \/ e.reg = "PWR" /\ e.on = {0, 1}
      BY <3>1, FactParts, Facts
    <3>3. W["PWR"] = {0, 1} /\ W["OE"] = {} /\ W["CLK_EN"] = {}
      <4>1. CASE e.reg = "CLK_EN" /\ e.on = {}
        BY <1>2, <1>3, <2>1, <4>1
      <4>2. CASE e.reg = "OE" /\ e.on = {}
        BY <1>2, <1>3, <2>1, <4>2
      <4>3. CASE e.reg = "PWR" /\ e.on = {0, 1}
        BY <1>2, <1>3, <2>1, <4>3
      <4> QED  BY <3>2, <4>1, <4>2, <4>3
    <3> QED  BY <3>3 DEF OffOK, SD_PWR_OFF
  <2>3. CASE e.reg \notin {"CLK_EN", "OE", "PWR"}
    BY <1>2, <1>3, <2>1, <2>3 DEF OffOK, SD_PWR_OFF
  <2> QED  BY <2>2, <2>3
<1> QED  BY <1>6, <1>7 DEF W

\* Nor does it make the clock too fast.
LEMMA SpeedWritten ==
    ASSUME NEW R, Chip(R), NEW e, e.kind = "write", Proper(e), NEW K, Holds(R, K),
           NEW k, NEW f \in AllFreqs, Allowed(e, K, k, f),
           Ceiling(k, f), SpeedOK(R)
    PROVE  SpeedOK(Written(R, e))
<1> DEFINE W == Written(R, e)
           X == Fastest(limit, 10250)
<1>1. e.reg \in Regs /\ e.mask \subseteq Bits[e.reg] /\ e.on \subseteq e.mask
  BY DEF Proper
<1>2. W[e.reg] = (R[e.reg] \ e.mask) \cup e.on /\ \A r \in Regs : r # e.reg => W[r] = R[r]
  BY <1>1, WrittenParts DEF Chip
<1>3. "CLK_CTL" \in Regs /\ "CFG1" \in Regs /\ "DIV_N" \in Regs /\ "CLK_DIV" \in Regs
  BY Registers
<1>4. Chip(W)
  BY ChipWritten
<1> HIDE DEF W
<1>5. Raw(R) <= X /\ Bus(R) <= limit
  BY DEF SpeedOK
<1>6. limit \in Nat /\ 400 <= limit /\ X \in Nat /\ X >= limit /\ X >= 10250 /\ X \in {limit, 10250}
  BY FastestIs DEF Ceiling
<1>7. /\ Raw(R) \in Nat /\ 10250 <= Raw(R) /\ Raw(R) <= 51000
      /\ Raw(W) \in Nat /\ 10250 <= Raw(W) /\ Raw(W) <= 51000
  BY <1>4, RawRange
<1> HIDE DEF X
<1>8. Low \in K => "low" \in R["CLK_CTL"]
  <2>1. Low \in K => R["CLK_CTL"] \cap {"low"} = {"low"}
    BY Facts DEF Holds
  <2> QED  BY <2>1
<1>9. CASE e.reg \notin {"CLK_CTL", "CFG1", "DIV_N", "CLK_DIV"}
  <2>1. W["CLK_CTL"] = R["CLK_CTL"] /\ W["CFG1"] = R["CFG1"] /\ W["DIV_N"] = R["DIV_N"]
        /\ W["CLK_DIV"] = R["CLK_DIV"]
    BY <1>2, <1>3, <1>9
  <2>2. Raw(W) = Raw(R) /\ Bus(W) = Bus(R)
    BY <2>1 DEF Raw, Bus
  <2> QED  BY <1>5, <2>2 DEF SpeedOK, X, W
<1>10. CASE e.reg = "CFG1"
  <2>1. W["CLK_CTL"] = R["CLK_CTL"] /\ W["DIV_N"] = R["DIV_N"] /\ W["CLK_DIV"] = R["CLK_DIV"]
    BY <1>2, <1>3, <1>10
  <2>2. Raw(W) = Raw(R)
    BY <2>1 DEF Raw
  <2>3. CASE k # "clock"
    <3>1. e.mask = {"w4"}
      BY <1>10, <2>3 DEF Allowed
    <3>2. "div128" \in W["CFG1"] <=> "div128" \in R["CFG1"]
      BY <1>1, <1>2, <1>10, <3>1
    <3>3. Bus(W) = Bus(R)
      BY <2>1, <2>2, <3>2 DEF Bus
    <3> QED  BY <1>5, <2>2, <3>3 DEF SpeedOK, X, W
  <2>4. CASE k = "clock"
    <3>1. Fact(e) = Div128(f)
      BY <1>10, <2>4 DEF Allowed
    <3>2. e.mask = {"div128"} /\ e.on = IF f = 400 THEN {"div128"} ELSE {}
      BY <3>1, FactParts, Facts
    <3>3. CASE f = 400
      <4>1. "div128" \in W["CFG1"]
        BY <1>2, <1>10, <3>2, <3>3
      <4>2. Bus(W) = 400
        BY <4>1 DEF Bus
      <4>3. Bus(W) <= limit /\ Raw(W) <= X
        BY <1>5, <1>6, <2>2, <4>2
      <4> QED  BY <4>3 DEF SpeedOK, X, W
    <3>4. CASE f # 400
      <4>1. limit >= 25500
        BY <2>4, <3>4, Speeds DEF AllFreqs, Ceiling
      <4>2. X = limit
        BY <1>6, <4>1
      <4>3. Raw(W) <= limit
        BY <1>5, <2>2, <4>2
      <4>4. Bus(W) <= limit
        <5>1. Bus(W) = 400 \/ Bus(W) = Raw(W)
          BY DEF Bus
        <5> QED  BY <1>6, <4>3, <5>1
      <4> QED  BY <4>2, <4>3, <4>4 DEF SpeedOK, X, W
    <3> QED  BY <3>3, <3>4
  <2> QED  BY <2>3, <2>4
<1>11. CASE e.reg \in {"CLK_CTL", "CLK_DIV", "DIV_N"}
  <2>0. k = "clock"
    BY <1>11 DEF Allowed
  <2>1. f = 400 \/ (f = 25000 /\ limit >= 25500) \/ (f = 50000 /\ limit >= 51000)
    BY <2>0, Speeds DEF AllFreqs, Ceiling
  <2>2. CASE e.reg = "CLK_CTL"
    <3>1. W["CFG1"] = R["CFG1"] /\ W["DIV_N"] = R["DIV_N"] /\ W["CLK_DIV"] = R["CLK_DIV"]
      BY <1>2, <1>3, <2>2
    <3>2. Raw(W) = Raw(R)
      BY <3>1 DEF Raw
    <3>3. e.mask = {"low"} /\ (e.on = {} => Achieved("clock", f) \subseteq K)
      BY <2>2 DEF Allowed
    <3>4. CASE e.on # {}
      <4>1. "low" \in W["CLK_CTL"]
        BY <1>1, <1>2, <2>2, <3>3, <3>4
      <4>2. Bus(W) = 400
        BY <4>1 DEF Bus
      <4>3. Bus(W) <= limit /\ Raw(W) <= X
        BY <1>5, <1>6, <3>2, <4>2
      <4> QED  BY <4>3 DEF SpeedOK, X, W
    <3>5. CASE e.on = {}
      <4>1. Div128(f) \in K /\ RowDiv(f) \in K /\ RowN(f) \in K
        BY <3>3, <3>5 DEF Achieved
      <4>2. Bus(W) <= limit
        <5>1. CASE f = 400
          <6>1. R["CFG1"] \cap {"div128"} = {"div128"}
            BY <4>1, <5>1, Facts DEF Holds
          <6>2. "div128" \in W["CFG1"]
            BY <3>1, <6>1
          <6>3. Bus(W) = 400
            BY <6>2 DEF Bus
          <6> QED  BY <1>6, <6>3
        <5>2. CASE f # 400
          <6>1. X = limit /\ 400 <= limit
            BY <1>6, <2>1, <5>2
          <6>2. Raw(W) <= limit
            BY <1>5, <3>2, <6>1
          <6>3. Bus(W) = 400 \/ Bus(W) = Raw(W)
            BY DEF Bus
          <6> QED  BY <6>1, <6>2, <6>3
        <5> QED  BY <5>1, <5>2
      <4> QED  BY <1>5, <3>2, <4>2 DEF SpeedOK, X, W
    <3> QED  BY <3>4, <3>5
  <2>3. CASE e.reg # "CLK_CTL"
    <3>1. Low \in K
      BY <1>11, <2>3 DEF Allowed
    <3>2. "low" \in W["CLK_CTL"]
      BY <1>2, <1>3, <1>8, <2>3, <3>1
    <3>3. Bus(W) = 400
      BY <3>2 DEF Bus
    <3>4. Raw(W) <= X
      <4>1. PICK n \in {80, 100} : R["DIV_N"] = {n}
        BY DEF Chip
      <4>2. PICK d \in {2, 4, 8} : R["CLK_DIV"] = {d}
        BY DEF Chip
      <4>3. Raw(R) = Ssc(n, d)
        BY <4>1, <4>2, RawIs
      <4>4. CASE e.reg = "CLK_DIV"
        <5>1. Fact(e) = RowDiv(f)
          BY <4>4 DEF Allowed
        <5>2. e.mask = {2, 4, 8} /\ e.on = {Row(f).div}
          BY <5>1, FactParts, Facts
        <5>3. W["CLK_DIV"] = {Row(f).div} /\ W["DIV_N"] = {n}
          BY <1>2, <1>3, <4>1, <4>2, <4>4, <5>2
        <5>4. Raw(W) = Ssc(n, Row(f).div)
          BY <5>3, RawIs
        <5>5. CASE f = 400
          <6>1. Raw(W) = Ssc(n, 8)
            BY <5>4, <5>5, Rows
          <6>2. Ssc(n, 8) <= Ssc(n, d)
            BY Clocks
          <6> QED  BY <1>5, <4>3, <6>1, <6>2, Clocks, <1>6
        <5>6. CASE f = 25000 /\ limit >= 25500
          <6>1. Raw(W) = Ssc(n, 4)
            BY <5>4, <5>6, Rows
          <6> QED  BY <5>6, <6>1, <1>6, Clocks
        <5>7. CASE f = 50000 /\ limit >= 51000
          BY <5>7, <1>6, <1>7
        <5> QED  BY <2>1, <5>5, <5>6, <5>7
      <4>5. CASE e.reg = "DIV_N"
        <5>1. Fact(e) = RowN(f) /\ RowDiv(f) \in K
          BY <4>5 DEF Allowed
        <5>2. e.mask = {80, 100} /\ e.on = {Row(f).n}
          BY <5>1, FactParts, Facts
        <5>3. R["CLK_DIV"] \cap {2, 4, 8} = {Row(f).div}
          BY <5>1, Facts DEF Holds
        <5>4. W["CLK_DIV"] = {Row(f).div} /\ W["DIV_N"] = {Row(f).n}
          BY <1>2, <1>3, <4>1, <4>2, <4>5, <5>2, <5>3
        <5>5. Raw(W) = Ssc(Row(f).n, Row(f).div)
          BY <5>4, RawIs
        <5>6. CASE f = 400
          <6>1. Raw(W) = Ssc(80, 8)
            BY <5>5, <5>6, Rows
          <6> QED  BY <6>1, <1>6, Clocks
        <5>7. CASE f = 25000 /\ limit >= 25500
          <6>1. Raw(W) = Ssc(100, 4)
            BY <5>5, <5>7, Rows
          <6> QED  BY <5>7, <6>1, <1>6, Clocks
        <5>8. CASE f = 50000 /\ limit >= 51000
          BY <5>8, <1>6, <1>7
        <5> QED  BY <2>1, <5>6, <5>7, <5>8
      <4> QED  BY <1>11, <2>3, <4>4, <4>5
    <3>5. Bus(W) <= limit
      BY <1>6, <3>3
    <3> QED  BY <3>4, <3>5 DEF SpeedOK, X, W
  <2> QED  BY <2>2, <2>3
<1> QED  BY <1>9, <1>10, <1>11 DEF W

-----------------------------------------------------------------------------
(***************************************************************************)
(* The inductive invariant                                                 *)
(***************************************************************************)

Window(w) ==
    /\ DOMAIN w = {"busy", "step", "value"} /\ w.busy \in BOOLEAN /\ Proper(w.step)
    /\ w.busy => w.step.kind \in {"read", "write"}
    /\ ~w.busy /\ w.step.kind = "read" => w.value \subseteq Bits[w.step.reg]

Hardware ==
    /\ Chip(regs) /\ Window(haimr)
    /\ DOMAIN saved = {"CFG1", "OE", "haimr"} /\ Window(saved["haimr"])
    /\ saved["CFG1"] \subseteq Bits["CFG1"] /\ saved["OE"] \subseteq Bits["OE"]

Locking ==
    /\ owner \in Threads \cup {"none"} /\ depth \in Nat /\ leaks \in Nat
    /\ depth = 0 <=> owner = "none"

PowerStates == {"on", "saving", "asleep", "init", "restore", "led"}

Types ==
    /\ todo \in [Threads -> Seq(Steps)] /\ polling \subseteq Threads
    /\ op \in [kind : TaskKinds \cup {"none"}, freq : AllFreqs, failed : BOOLEAN, old : BOOLEAN]
    /\ power \in PowerStates
    /\ ops \in Nat /\ meets \in Nat /\ ops <= MaxOps /\ meets <= MaxMeets
    /\ off \in BOOLEAN /\ restored \in BOOLEAN /\ overlap \in BOOLEAN

\* Who polls has put a request of his first step in the window.
Polling == \A t \in polling : todo[t] # <<>> /\ Head(todo[t]).kind \in {"read", "write"}

\* An operation that was called while the system was up, and saw no sleep
Fresh == op.kind # "none" /\ ~op.old

\* How the power state, the operation of the task thread and the history agree
Course ==
    /\ Fresh => power = "on"
    /\ power \in {"on", "asleep"} => todo["pm"] = <<>>
    /\ ~restored => power = "on"
    /\ off => ~restored
    /\ op.kind = "up" => ~off
    /\ op.kind # "none" /\ op.old => restored
    /\ op.kind = "none" => todo["task"] = <<>>

Limits ==
    /\ limit \in Nat /\ 400 <= limit /\ limit <= 51000
    /\ power \in {"init", "restore", "led"} => limit = 51000
    /\ power = "on" /\ op.kind # "none" /\ op.old => limit = 51000
    /\ op.kind = "clock" => limit >= Speed(op.freq)

\* Each thread follows the rules to the end of what it has to do, and holds as
\* many levels of the lock as its place says, besides those that it leaked.
Kind(t)   == IF t = "task" THEN op.kind ELSE IF t = "intr" THEN "led" ELSE "pm"
Freq(t)   == IF t = "task" THEN op.freq ELSE 400
Holder(t) == IF owner = t THEN depth ELSE 0
Owed(t)   == IF t = "task" THEN leaks ELSE 0
Plan(t)   == \E a \in BOOLEAN : \E K, L :
                 /\ Follows(todo[t], a, K, FALSE, L, Kind(t), Freq(t))
                 /\ Holder(t) = Owed(t) + (IF a THEN 1 ELSE 0)
Plans     == \A t \in Threads : Plan(t)

\* What the task thread knows at its place is true, and stays true when the
\* chip has done what is in the window; and it ends with what it is to achieve.
Known(K) ==
    IF "task" \in polling
    THEN Holds(Future, After(K, Head(todo["task"]))) /\ (haimr.busy => Holds(regs, K))
    ELSE Holds(regs, K) /\ Holds(Future, K)
Knows(a, K, L) ==
    /\ Follows(todo["task"], a, K, FALSE, L, op.kind, op.freq)
    /\ op.failed \/ Achieved(op.kind, op.freq) \subseteq L
    /\ Fresh /\ ~overlap => Known(K)
Knowledge == \E a \in BOOLEAN : \E K, L : Knows(a, K, L)

\* The registers are safe, and stay so when the chip does what is in the window.
Safe ==
    /\ Undisturbed => OutputOK(regs) /\ OutputOK(Future)
    /\ Undisturbed /\ off => OffOK(regs) /\ OffOK(Future)
    /\ ~overlap /\ power = "on" => SpeedOK(regs) /\ SpeedOK(Future)

IInv == Hardware /\ Locking /\ Types /\ Polling /\ Course /\ Limits /\ Plans /\ Knowledge /\ Safe

-----------------------------------------------------------------------------
(***************************************************************************)
(* What a thread is about to do                                            *)
(***************************************************************************)

\* Its first step follows the rules, and so do the others.
LEMMA PlanHead ==
    ASSUME NEW t \in Threads, Plan(t), todo[t] # <<>>
    PROVE  \E a \in BOOLEAN : \E K, c, M, L :
               /\ StepOK(Head(todo[t]), a, K, c, M, Kind(t), Freq(t))
               /\ Follows(Tail(todo[t]), c, M, FALSE, L, Kind(t), Freq(t))
               /\ Holder(t) = Owed(t) + (IF a THEN 1 ELSE 0)
<1>1. PICK a \in BOOLEAN : \E K, L :
               /\ Follows(todo[t], a, K, FALSE, L, Kind(t), Freq(t))
               /\ Holder(t) = Owed(t) + (IF a THEN 1 ELSE 0)
  BY DEF Plan
<1>2. PICK K, L : /\ Follows(todo[t], a, K, FALSE, L, Kind(t), Freq(t))
                  /\ Holder(t) = Owed(t) + (IF a THEN 1 ELSE 0)
  BY <1>1
<1>3. \E c, M : /\ StepOK(Head(todo[t]), a, K, c, M, Kind(t), Freq(t))
                /\ Follows(Tail(todo[t]), c, M, FALSE, L, Kind(t), Freq(t))
  BY <1>2, FollowsTail
<1> QED  BY <1>2, <1>3

LEMMA KindIs ==
    ASSUME Types, NEW t \in Threads
    PROVE  /\ Kind(t) = "pm" <=> t = "pm"
           /\ Kind(t) = "led" <=> t = "intr"
           /\ Kind(t) = "clock" <=> t = "task" /\ op.kind = "clock"
           /\ op.kind \in TaskKinds \cup {"none"} /\ op.freq \in AllFreqs
<1>1. op.kind \in TaskKinds \cup {"none"} /\ op.freq \in AllFreqs
  BY DEF Types
<1> QED  BY <1>1 DEF Kind, Threads, TaskKinds

\* What its first step may be
LEMMA HeadIs ==
    ASSUME Types, NEW t \in Threads, Plan(t), todo[t] # <<>>
    PROVE  /\ Head(todo[t]) \in Steps /\ Proper(Head(todo[t]))
           /\ Head(todo[t]).kind \in {"read", "save", "restore"} => t = "pm"
           /\ t = "intr" => Head(todo[t]).kind = "write" /\ Head(todo[t]).reg = "MISC"
<1> DEFINE e == Head(todo[t])
<1>1. PICK a \in BOOLEAN : \E K, c, M, L : StepOK(e, a, K, c, M, Kind(t), Freq(t))
  BY PlanHead
<1>2. PICK K, c, M : StepOK(e, a, K, c, M, Kind(t), Freq(t))
  BY <1>1
<1> HIDE DEF e
<1>3. e \in Steps /\ Proper(e) /\ LockOK(e, a, c, Kind(t))
      /\ (Kind(t) = "led" => e.kind = "write" /\ e.reg = "MISC")
  BY <1>2 DEF StepOK
<1>4. e.kind \in {"read", "save", "restore"} => Kind(t) = "pm"
  BY <1>3 DEF LockOK
<1> QED  BY <1>3, <1>4, KindIs DEF e

LEMMA TodoNext ==
    ASSUME todo \in [Threads -> Seq(Steps)], NEW t \in Threads, NEW s, s \in Seq(Steps),
           todo' = [todo EXCEPT ![t] = s]
    PROVE  /\ todo' \in [Threads -> Seq(Steps)] /\ todo'[t] = s
           /\ \A u \in Threads : u # t => todo'[u] = todo[u]
<1> DEFINE S == Seq(Steps)
<1>1. todo \in [Threads -> S] /\ s \in S
  OBVIOUS
<1> HIDE DEF S
<1>2. todo' \in [Threads -> S] /\ todo'[t] = s /\ \A u \in Threads : u # t => todo'[u] = todo[u]
  BY <1>1
<1> QED  BY <1>2 DEF S

LEMMA TailIn ==
    ASSUME NEW s, s \in Seq(Steps), s # <<>>
    PROVE  Tail(s) \in Seq(Steps)
<1> HIDE DEF Steps
<1> QED  OBVIOUS

LEMMA AdvanceIs ==
    ASSUME Types, NEW t \in Threads, todo[t] # <<>>, Advance(t)
    PROVE  /\ todo' \in [Threads -> Seq(Steps)] /\ todo'[t] = Tail(todo[t])
           /\ \A u \in Threads : u # t => todo'[u] = todo[u]
<1>1. todo \in [Threads -> Seq(Steps)]
  BY DEF Types
<1>2. todo[t] \in Seq(Steps)
  <2> DEFINE S == Seq(Steps)
  <2>1. todo \in [Threads -> S]
    BY <1>1
  <2> HIDE DEF S
  <2>2. todo[t] \in S
    BY <2>1
  <2> QED  BY <2>2 DEF S
<1>3. Tail(todo[t]) \in Seq(Steps)
  BY <1>2, TailIn
<1>4. todo' = [todo EXCEPT ![t] = Tail(todo[t])]
  BY DEF Advance
<1> QED  BY <1>1, <1>3, <1>4, TodoNext

LEMMA SplxIn == Splx \in Seq(Steps) /\ <<>> \in Seq(Steps)
<1>1. Follows(Splx, TRUE, {}, FALSE, {}, "pm", 400)
  BY FollowsSplx
<1>2. <<>> \in Seq(Steps)
  <2> HIDE DEF Steps
  <2> QED  OBVIOUS
<1> QED  BY <1>1, <1>2 DEF Follows

\* What a failed write does, by what comes of it
LEMMA FailIs ==
    ASSUME Types, NEW t \in Threads, Plan(t), todo[t] # <<>>, Head(todo[t]).kind = "write", Fail(t)
    PROVE  /\ todo' \in [Threads -> Seq(Steps)] /\ \A u \in Threads : u # t => todo'[u] = todo[u]
           /\ \/ Head(todo[t]).onfail = "ignore" /\ t = "pm" /\ todo'[t] = Tail(todo[t])
              \/ Head(todo[t]).onfail \in {"unlock", "done"} /\ t # "intr" /\ todo'[t] = Splx
              \/ Head(todo[t]).onfail = "return" /\ todo'[t] = <<>>
           /\ op' \in [kind : TaskKinds \cup {"none"}, freq : AllFreqs, failed : BOOLEAN, old : BOOLEAN]
           /\ op'.kind = op.kind /\ op'.freq = op.freq /\ op'.old = op.old
           /\ op'.failed <=> (op.failed \/ (t = "task" /\ Head(todo[t]).onfail \in {"unlock", "return"}))
           /\ leaks' = leaks + IF t = "task" /\ op.kind = "clock" /\ Head(todo[t]).onfail = "return"
                               THEN 1 ELSE 0
<1> DEFINE e == Head(todo[t])
           O == [kind : TaskKinds \cup {"none"}, freq : AllFreqs, failed : BOOLEAN, old : BOOLEAN]
<1>1. PICK a \in BOOLEAN : \E K, c, M, L : StepOK(e, a, K, c, M, Kind(t), Freq(t))
  BY PlanHead
<1>2. PICK K, c, M : StepOK(e, a, K, c, M, Kind(t), Freq(t))
  BY <1>1
<1>3. /\ e.onfail \in {"ignore", "unlock", "done", "return"}
      /\ e.onfail = "ignore" => Kind(t) = "pm"
      /\ Kind(t) = "led" => e.onfail = "return"
  BY <1>2 DEF StepOK, LockOK
<1>4. /\ e.onfail = "ignore" => t = "pm"
      /\ t = "intr" => e.onfail = "return"
  BY <1>3, KindIs
<1>5. todo \in [Threads -> Seq(Steps)] /\ op \in O
  BY DEF Types
<1>6. todo[t] \in Seq(Steps)
  <2> DEFINE S == Seq(Steps)
  <2>1. todo \in [Threads -> S]
    BY <1>5
  <2> HIDE DEF S
  <2>2. todo[t] \in S
    BY <2>1
  <2> QED  BY <2>2 DEF S
<1> DEFINE s == CASE e.onfail = "ignore" -> Tail(todo[t])
                  [] e.onfail \in {"unlock", "done"} -> Splx
                  [] e.onfail = "return" -> <<>>
           failed == op.failed \/ (t = "task" /\ e.onfail \in {"unlock", "return"})
<1>7. todo' = [todo EXCEPT ![t] = s] /\ op' = [op EXCEPT !.failed = failed]
      /\ leaks' = leaks + IF t = "task" /\ op.kind = "clock" /\ e.onfail = "return" THEN 1 ELSE 0
  BY Zenon DEF Fail
<1> HIDE DEF e
<1>8. /\ e.onfail = "ignore" => s = Tail(todo[t])
      /\ e.onfail \in {"unlock", "done"} => s = Splx
      /\ e.onfail = "return" => s = <<>>
  OBVIOUS
<1>9. Tail(todo[t]) \in Seq(Steps) /\ Splx \in Seq(Steps) /\ <<>> \in Seq(Steps)
  BY <1>6, TailIn, SplxIn
<1>10. s \in Seq(Steps)
  BY <1>3, <1>8, <1>9
<1>11. failed \in BOOLEAN
  OBVIOUS
<1> HIDE DEF s, failed
<1>12. /\ todo' \in [Threads -> Seq(Steps)] /\ todo'[t] = s
       /\ \A u \in Threads : u # t => todo'[u] = todo[u]
  BY <1>5, <1>7, <1>10, TodoNext
<1>13. op' \in O /\ op'.kind = op.kind /\ op'.freq = op.freq /\ op'.old = op.old /\ op'.failed = failed
  BY <1>5, <1>7, <1>11
<1>14. \/ e.onfail = "ignore" /\ t = "pm" /\ todo'[t] = Tail(todo[t])
       \/ e.onfail \in {"unlock", "done"} /\ t # "intr" /\ todo'[t] = Splx
       \/ e.onfail = "return" /\ todo'[t] = <<>>
  <2>1. CASE e.onfail = "ignore"
    BY <1>4, <1>8, <1>12, <2>1
  <2>2. CASE e.onfail \in {"unlock", "done"}
    BY <1>4, <1>8, <1>12, <2>2
  <2>3. CASE e.onfail = "return"
    BY <1>8, <1>12, <2>3
  <2> QED  BY <1>3, <2>1, <2>2, <2>3
<1>15. op'.failed <=> (op.failed \/ (t = "task" /\ e.onfail \in {"unlock", "return"}))
  BY <1>13 DEF failed
<1> QED  BY <1>7, <1>12, <1>13, <1>14, <1>15 DEF e

-----------------------------------------------------------------------------
(***************************************************************************)
(* What a thread is given to do                                            *)
(***************************************************************************)

\* Every call of the task thread follows the rules and achieves what it is for.
LEMMA CallIs ==
    ASSUME TaskCalls
    PROVE  \E kind, f, steps :
               /\ kind \in TaskKinds /\ f \in AllFreqs
               /\ Call(kind, f, steps)
               /\ Follows(steps, FALSE, {}, FALSE, Achieved(kind, f), kind, f)
<1> DEFINE Right(kind, f, steps) ==
               /\ kind \in TaskKinds /\ f \in AllFreqs
               /\ Call(kind, f, steps)
               /\ Follows(steps, FALSE, {}, FALSE, Achieved(kind, f), kind, f)
<1>1. 400 \in AllFreqs /\ "down" \in TaskKinds /\ "up" \in TaskKinds /\ "clock" \in TaskKinds
      /\ "stop" \in TaskKinds /\ "width" \in TaskKinds
  BY DEF AllFreqs, TaskKinds
<1>2. Call("down", 400, PowerDown) => Right("down", 400, PowerDown)
  BY <1>1, FollowsPowerDown
<1>3. Call("up", 400, PowerUp) => Right("up", 400, PowerUp)
  BY <1>1, FollowsPowerUp
<1>4. ASSUME NEW f \in Freqs, Call("clock", f, BusClock(f))
      PROVE  Right("clock", f, BusClock(f))
  <2>1. f \in AllFreqs
    BY PowerAssumption DEF AllFreqs
  <2>2. Follows(BusClock(f), FALSE, {}, FALSE, Achieved("clock", f), "clock", f)
    BY <2>1, FollowsBusClock
  <2> QED  BY <1>1, <1>4, <2>1, <2>2
<1>5. Call("stop", 400, ClockOff) => Right("stop", 400, ClockOff)
  BY <1>1, FollowsClockOff
<1>6. ASSUME NEW w \in {1, 4}, Call("width", 400, SetBusWidth(w, "return"))
      PROVE  Right("width", 400, SetBusWidth(w, "return"))
  <2> DEFINE s == SetBusWidth(w, "return")
             b == FALSE
  <2>1. \A h : Follows(s, b, {}, b, Achieved("width", h), "width", h)
    BY FollowsWidth, Zenon
  <2> HIDE DEF s, b
  <2>2. Follows(s, b, {}, b, Achieved("width", 400), "width", 400)
    BY <2>1
  <2> QED  BY <1>1, <1>6, <2>2, Zenon DEF b, s
<1> HIDE DEF Right
<1>7. \E kind, f, steps : Right(kind, f, steps)
  <2>1. CASE Call("down", 400, PowerDown)
    BY <1>2, <2>1, Zenon
  <2>2. CASE Call("up", 400, PowerUp)
    BY <1>3, <2>2, Zenon
  <2>3. CASE \E f \in Freqs : Call("clock", f, BusClock(f))
    BY <1>4, <2>3, Zenon
  <2>4. CASE Call("stop", 400, ClockOff)
    BY <1>5, <2>4, Zenon
  <2>5. CASE \E w \in {1, 4} : Call("width", 400, SetBusWidth(w, "return"))
    <3>1. PICK w \in {1, 4} : Call("width", 400, SetBusWidth(w, "return"))
      BY <2>5
    <3>2. Right("width", 400, SetBusWidth(w, "return"))
      BY <1>6, <3>1
    <3>3. PICK k, f, s : k = "width" /\ f = 400 /\ s = SetBusWidth(w, "return")
      OBVIOUS
    <3>4. Right(k, f, s)
      BY <3>2, <3>3
    <3> QED  BY <3>4, Zenon
  <2> QED  BY <2>1, <2>2, <2>3, <2>4, <2>5 DEF TaskCalls
<1> QED  BY <1>7, Zenon DEF Right

\* What a call does to the variables
LEMMA CallEffect ==
    ASSUME Types, NEW kind \in TaskKinds, NEW f \in AllFreqs, NEW steps, steps \in Seq(Steps),
           Call(kind, f, steps)
    PROVE  /\ todo["task"] = <<>> /\ op.kind = "none" /\ power # "asleep"
           /\ todo' \in [Threads -> Seq(Steps)] /\ todo'["task"] = steps
           /\ \A u \in Threads : u # "task" => todo'[u] = todo[u]
           /\ op' \in [kind : TaskKinds \cup {"none"}, freq : AllFreqs, failed : BOOLEAN, old : BOOLEAN]
           /\ op'.kind = kind /\ op'.freq = f /\ op'.failed = FALSE /\ (op'.old <=> power # "on")
           /\ limit' = IF kind = "clock" THEN Fastest(limit, Speed(f)) ELSE limit
           /\ off' = (off /\ kind # "up") /\ ops' = ops + 1 /\ ops < MaxOps
           /\ UNCHANGED <<regs, haimr, polling, owner, depth, saved, power, meets, restored, leaks,
                overlap>>
<1> DEFINE O == [kind : TaskKinds \cup {"none"}, freq : AllFreqs, failed : BOOLEAN, old : BOOLEAN]
<1>1. todo \in [Threads -> Seq(Steps)] /\ "task" \in Threads
  BY DEF Types, Threads
<1>2. /\ todo' = [todo EXCEPT !["task"] = steps]
      /\ op' = [kind |-> kind, freq |-> f, failed |-> FALSE, old |-> power # "on"]
      /\ todo["task"] = <<>> /\ op.kind = "none" /\ power # "asleep"
      /\ limit' = IF kind = "clock" THEN Fastest(limit, Speed(f)) ELSE limit
      /\ off' = (off /\ kind # "up") /\ ops' = ops + 1 /\ ops < MaxOps
      /\ UNCHANGED <<regs, haimr, polling, owner, depth, saved, power, meets, restored, leaks, overlap>>
  BY Zenon DEF Call, window, lock
<1>3. todo' \in [Threads -> Seq(Steps)] /\ todo'["task"] = steps
      /\ \A u \in Threads : u # "task" => todo'[u] = todo[u]
  BY <1>1, <1>2, TodoNext
<1>4. (power # "on") \in BOOLEAN
  OBVIOUS
<1>5. op' \in O /\ op'.kind = kind /\ op'.freq = f /\ op'.failed = FALSE /\ (op'.old <=> power # "on")
  BY <1>2, <1>4
<1> QED  BY <1>2, <1>3, <1>5

\* So do the steps of a sleep and of a resume.
LEMMA PmIs ==
    ASSUME Hardware, Suspend \/ Sleep \/ WakeUp \/ Resume
    PROVE  \E from, to, steps : /\ PmGoes(from, to, steps)
                                /\ Follows(steps, FALSE, {}, FALSE, {}, "pm", 400)
<1>1. Follows(<<>>, FALSE, {}, FALSE, {}, "pm", 400)
  <2> DEFINE a == FALSE
  <2> HIDE DEF a
  <2>1. Follows(<<>>, a, {}, a, {}, "pm", 400)
    BY FollowsEmpty
  <2> QED  BY <2>1 DEF a
<1>2. CASE Suspend
  BY <1>2, FollowsSaveRegs DEF Suspend
<1>3. CASE Sleep
  BY <1>1, <1>3 DEF Sleep
<1>4. CASE WakeUp
  <2>1. PmGoes("asleep", "init", ChipInit("return"))
    BY <1>4 DEF WakeUp
  <2> QED  BY <2>1, FollowsChipInit
<1>5. CASE Resume
  <2>1. CASE PmGoes("init", "restore", RestoreRegs)
    BY <2>1, FollowsRestoreRegs DEF Hardware
  <2>2. CASE \E led \in {LedEnable, LedDisable} : PmGoes("restore", "led", led)
    BY <2>2, FollowsLed
  <2>3. CASE PmGoes("led", "on", <<>>)
    BY <1>1, <2>3
  <2> QED  BY <1>5, <2>1, <2>2, <2>3 DEF Resume
<1> QED  BY <1>2, <1>3, <1>4, <1>5

LEMMA PmEffect ==
    ASSUME Types, NEW from, NEW to, NEW steps, steps \in Seq(Steps), PmGoes(from, to, steps)
    PROVE  /\ power = from /\ power' = to /\ todo["pm"] = <<>>
           /\ todo' \in [Threads -> Seq(Steps)] /\ todo'["pm"] = steps
           /\ \A u \in Threads : u # "pm" => todo'[u] = todo[u]
<1>1. todo \in [Threads -> Seq(Steps)] /\ "pm" \in Threads
  BY DEF Types, Threads
<1>2. power = from /\ power' = to /\ todo["pm"] = <<>> /\ todo' = [todo EXCEPT !["pm"] = steps]
  BY DEF PmGoes
<1> QED  BY <1>1, <1>2, TodoNext

\* What the steps of a sleep and of a resume leave alone
LEMMA PmFrame ==
    ASSUME Types, Suspend \/ Sleep \/ WakeUp \/ Resume
    PROVE  /\ UNCHANGED <<polling, owner, depth, saved, ops, leaks, overlap>>
           /\ op' \in [kind : TaskKinds \cup {"none"}, freq : AllFreqs, failed : BOOLEAN, old : BOOLEAN]
           /\ op'.kind = op.kind /\ op'.freq = op.freq /\ op'.failed = op.failed
           /\ Suspend \/ op' = op
           /\ WakeUp \/ UNCHANGED <<regs, haimr, limit>>
           /\ Suspend \/ UNCHANGED <<meets, off, restored>>
           /\ Suspend => /\ op'.old = TRUE /\ off' = FALSE /\ restored' = TRUE
                         /\ meets' = meets + 1 /\ meets < MaxMeets
<1> DEFINE O == [kind : TaskKinds \cup {"none"}, freq : AllFreqs, failed : BOOLEAN, old : BOOLEAN]
<1>1. op \in O
  BY DEF Types
<1>2. CASE Suspend
  <2>1. /\ op' = [op EXCEPT !.old = TRUE] /\ off' = FALSE /\ restored' = TRUE
        /\ meets' = meets + 1 /\ meets < MaxMeets
        /\ UNCHANGED <<regs, haimr, polling, owner, depth, saved, ops, limit, leaks, overlap>>
    BY <1>2, Zenon DEF Suspend, window, lock
  <2>2. op' \in O /\ op'.kind = op.kind /\ op'.freq = op.freq /\ op'.failed = op.failed /\ op'.old = TRUE
    BY <1>1, <2>1
  <2> QED  BY <1>2, <2>1, <2>2
<1>3. CASE ~Suspend /\ (Sleep \/ WakeUp \/ Resume)
  <2>1. /\ UNCHANGED <<polling, owner, depth, saved, ops, meets, op, off, restored, leaks, overlap>>
        /\ WakeUp \/ UNCHANGED <<regs, haimr, limit>>
    <3>1. CASE Sleep
      BY <3>1 DEF Sleep, window, lock, counts, history
    <3>2. CASE WakeUp
      BY <3>2 DEF WakeUp, lock, counts
    <3>3. CASE Resume
      BY <3>3 DEF Resume, window, lock, counts, history
    <3> QED  BY <1>3, <3>1, <3>2, <3>3
  <2> QED  BY <1>1, <1>3, <2>1
<1> QED  BY <1>2, <1>3

-----------------------------------------------------------------------------
(***************************************************************************)
(* The lock                                                                *)
(***************************************************************************)

LEMMA PlanSame ==
    ASSUME NEW u \in Threads, Plan(u), todo'[u] = todo[u], op'.kind = op.kind, op'.freq = op.freq,
           Holder(u)' = Holder(u), Owed(u)' = Owed(u)
    PROVE  Plan(u)'
<1>1. Kind(u)' = Kind(u) /\ Freq(u)' = Freq(u)
  BY DEF Kind, Freq
<1>2. PICK a \in BOOLEAN : \E K, L :
               /\ Follows(todo[u], a, K, FALSE, L, Kind(u), Freq(u))
               /\ Holder(u) = Owed(u) + (IF a THEN 1 ELSE 0)
  BY DEF Plan
<1>3. PICK K, L : /\ Follows(todo[u], a, K, FALSE, L, Kind(u), Freq(u))
                  /\ Holder(u) = Owed(u) + (IF a THEN 1 ELSE 0)
  BY <1>2
<1>4. Follows(todo[u]', a, K, FALSE, L, Kind(u)', Freq(u)')
      /\ Holder(u)' = Owed(u)' + (IF a THEN 1 ELSE 0)
  BY <1>1, <1>3
<1> QED  BY <1>4 DEF Plan

LEMMA PlanNew ==
    ASSUME NEW u \in Threads, NEW a \in BOOLEAN, NEW K, NEW L,
           Follows(todo'[u], a, K, FALSE, L, Kind(u)', Freq(u)'),
           Holder(u)' = Owed(u)' + (IF a THEN 1 ELSE 0)
    PROVE  Plan(u)'
BY DEF Plan

\* A thread that has nothing to do holds what it leaked.
LEMMA PlanDone ==
    ASSUME NEW u \in Threads, Plan(u), todo[u] = <<>>
    PROVE  Holder(u) = Owed(u) + 0
<1>1. PICK a \in BOOLEAN : \E K, L :
               /\ Follows(<<>>, a, K, FALSE, L, Kind(u), Freq(u))
               /\ Holder(u) = Owed(u) + (IF a THEN 1 ELSE 0)
  BY DEF Plan
<1>2. PICK K, L : /\ Follows(<<>>, a, K, FALSE, L, Kind(u), Freq(u))
                  /\ Holder(u) = Owed(u) + (IF a THEN 1 ELSE 0)
  BY <1>1
<1>3. a = FALSE
  <2> DEFINE b == FALSE
             k == Kind(u)
             f == Freq(u)
  <2>1. Follows(<<>>, a, K, b, L, k, f)
    BY <1>2
  <2> HIDE DEF b, k, f
  <2>2. a = b
    BY <2>1, FollowsEmpty
  <2> QED  BY <2>2 DEF b
<1> QED  BY <1>2, <1>3

\* Holder and Owed are numbers, and only the owner holds the lock.
LEMMA HolderIs ==
    ASSUME Locking, NEW u \in Threads
    PROVE  Holder(u) \in Nat /\ Owed(u) \in Nat /\ (Holder(u) # 0 => owner = u)
BY DEF Locking, Holder, Owed

LEMMA LockStepPlans ==
    ASSUME Locking, Types, Plans, NEW t \in Threads, LockStep(t)
    PROVE  Locking' /\ Plans'
<1>1. /\ todo[t] # <<>> /\ Head(todo[t]).kind = "lock" /\ owner \in {"none", t}
      /\ owner' = t /\ depth' = depth + 1 /\ Advance(t) /\ UNCHANGED <<op, leaks>>
  BY DEF LockStep, Head1, history
<1>2. Plan(t)
  BY DEF Plans
<1>3. PICK a \in BOOLEAN : \E K, c, M, L :
               /\ StepOK(Head(todo[t]), a, K, c, M, Kind(t), Freq(t))
               /\ Follows(Tail(todo[t]), c, M, FALSE, L, Kind(t), Freq(t))
               /\ Holder(t) = Owed(t) + (IF a THEN 1 ELSE 0)
  BY <1>1, <1>2, PlanHead
<1>4. PICK K, c, M, L :
               /\ StepOK(Head(todo[t]), a, K, c, M, Kind(t), Freq(t))
               /\ Follows(Tail(todo[t]), c, M, FALSE, L, Kind(t), Freq(t))
               /\ Holder(t) = Owed(t) + (IF a THEN 1 ELSE 0)
  BY <1>3
<1>5. a = FALSE /\ c = TRUE
  BY <1>1, <1>4 DEF StepOK, LockOK
<1>6. todo'[t] = Tail(todo[t]) /\ \A u \in Threads : u # t => todo'[u] = todo[u]
  BY <1>1, AdvanceIs
<1>7. depth \in Nat /\ leaks \in Nat /\ (depth = 0 <=> owner = "none") /\ t # "none"
      /\ "none" \notin Threads
  BY DEF Locking, Threads
<1>8. Locking'
  BY <1>1, <1>7 DEF Locking
<1>9. Kind(t)' = Kind(t) /\ Freq(t)' = Freq(t) /\ Owed(t)' = Owed(t)
  BY <1>1 DEF Kind, Freq, Owed
<1>10. Holder(t)' = Holder(t) + 1
  <2>1. Holder(t) = depth
    BY <1>1, <1>7 DEF Holder
  <2>2. Holder(t)' = depth'
    BY <1>1 DEF Holder
  <2> QED  BY <1>1, <2>1, <2>2
<1>11. Plan(t)'
  <2>1. Owed(t) \in Nat
    BY HolderIs
  <2>2. Holder(t)' = Owed(t)' + (IF c THEN 1 ELSE 0)
    BY <1>4, <1>5, <1>9, <1>10, <2>1
  <2>3. Follows(todo'[t], c, M, FALSE, L, Kind(t)', Freq(t)')
    BY <1>4, <1>6, <1>9
  <2> QED  BY <1>5, <2>2, <2>3, PlanNew
<1>12. ASSUME NEW u \in Threads, u # t PROVE Plan(u)'
  <2>1. Holder(u)' = Holder(u)
    BY <1>1, <1>7, <1>12 DEF Holder
  <2>2. Owed(u)' = Owed(u)
    BY <1>1 DEF Owed
  <2>3. Plan(u) /\ todo'[u] = todo[u] /\ op' = op
    BY <1>1, <1>6, <1>12 DEF Plans
  <2> QED  BY <2>1, <2>2, <2>3, PlanSame
<1>13. Plans'
  BY <1>11, <1>12 DEF Plans
<1> QED  BY <1>8, <1>13

LEMMA UnlockStepPlans ==
    ASSUME Locking, Types, Plans, NEW t \in Threads, UnlockStep(t)
    PROVE  Locking' /\ Plans'
<1>1. /\ todo[t] # <<>> /\ Head(todo[t]).kind = "unlock"
      /\ depth' = depth - 1 /\ owner' = (IF depth = 1 THEN "none" ELSE t)
      /\ Advance(t) /\ UNCHANGED <<op, leaks>>
  BY DEF UnlockStep, Head1, history
<1>2. Plan(t)
  BY DEF Plans
<1>3. PICK a \in BOOLEAN : \E K, c, M, L :
               /\ StepOK(Head(todo[t]), a, K, c, M, Kind(t), Freq(t))
               /\ Follows(Tail(todo[t]), c, M, FALSE, L, Kind(t), Freq(t))
               /\ Holder(t) = Owed(t) + (IF a THEN 1 ELSE 0)
  BY <1>1, <1>2, PlanHead
<1>4. PICK K, c, M, L :
               /\ StepOK(Head(todo[t]), a, K, c, M, Kind(t), Freq(t))
               /\ Follows(Tail(todo[t]), c, M, FALSE, L, Kind(t), Freq(t))
               /\ Holder(t) = Owed(t) + (IF a THEN 1 ELSE 0)
  BY <1>3
<1>5. a = TRUE /\ c = FALSE
  BY <1>1, <1>4 DEF StepOK, LockOK
<1>6. todo'[t] = Tail(todo[t]) /\ \A u \in Threads : u # t => todo'[u] = todo[u]
  BY <1>1, AdvanceIs
<1>7. depth \in Nat /\ leaks \in Nat /\ (depth = 0 <=> owner = "none") /\ t # "none"
      /\ "none" \notin Threads
  BY DEF Locking, Threads
<1>8. Owed(t) \in Nat /\ Holder(t) = Owed(t) + 1
  BY <1>4, <1>5, HolderIs
<1>9. owner = t /\ Holder(t) = depth
  <2>1. owner = t
    BY <1>8, HolderIs
  <2> QED  BY <2>1 DEF Holder
<1>10. Locking'
  BY <1>1, <1>7, <1>9 DEF Locking
<1>11. Kind(t)' = Kind(t) /\ Freq(t)' = Freq(t) /\ Owed(t)' = Owed(t)
  BY <1>1 DEF Kind, Freq, Owed
<1>12. Holder(t)' = Holder(t) - 1
  <2>1. CASE depth = 1
    BY <1>1, <1>7, <1>9, <2>1 DEF Holder
  <2>2. CASE depth # 1
    BY <1>1, <1>9, <2>2 DEF Holder
  <2> QED  BY <2>1, <2>2
<1>13. Plan(t)'
  <2>1. Holder(t)' = Owed(t)' + (IF c THEN 1 ELSE 0)
    BY <1>5, <1>8, <1>11, <1>12
  <2>2. Follows(todo'[t], c, M, FALSE, L, Kind(t)', Freq(t)')
    BY <1>4, <1>6, <1>11
  <2> QED  BY <1>5, <2>1, <2>2, PlanNew
<1>14. ASSUME NEW u \in Threads, u # t PROVE Plan(u)'
  <2>1. Holder(u)' = Holder(u)
    BY <1>1, <1>7, <1>9, <1>14 DEF Holder
  <2>2. Owed(u)' = Owed(u)
    BY <1>1 DEF Owed
  <2>3. Plan(u) /\ todo'[u] = todo[u] /\ op' = op
    BY <1>1, <1>6, <1>14 DEF Plans
  <2> QED  BY <2>1, <2>2, <2>3, PlanSame
<1>15. Plans'
  BY <1>13, <1>14 DEF Plans
<1> QED  BY <1>10, <1>15

\* A step that goes on, and neither takes nor gives back the lock
LEMMA OtherStepPlans ==
    ASSUME Locking, Types, Plans, NEW t \in Threads, todo[t] # <<>>, Advance(t),
           Head(todo[t]).kind \notin {"lock", "unlock"}, UNCHANGED <<op, leaks, owner, depth>>
    PROVE  Locking' /\ Plans'
<1>1. Locking'
  BY DEF Locking
<1>2. PICK a \in BOOLEAN : \E K, c, M, L :
               /\ StepOK(Head(todo[t]), a, K, c, M, Kind(t), Freq(t))
               /\ Follows(Tail(todo[t]), c, M, FALSE, L, Kind(t), Freq(t))
               /\ Holder(t) = Owed(t) + (IF a THEN 1 ELSE 0)
  BY PlanHead DEF Plans
<1>3. PICK K, c, M, L :
               /\ StepOK(Head(todo[t]), a, K, c, M, Kind(t), Freq(t))
               /\ Follows(Tail(todo[t]), c, M, FALSE, L, Kind(t), Freq(t))
               /\ Holder(t) = Owed(t) + (IF a THEN 1 ELSE 0)
  BY <1>2
<1>4. c = a
  BY <1>3 DEF StepOK, LockOK
<1>5. todo'[t] = Tail(todo[t]) /\ \A u \in Threads : u # t => todo'[u] = todo[u]
  BY AdvanceIs
<1>6. \A u \in Threads : Kind(u)' = Kind(u) /\ Freq(u)' = Freq(u) /\ Owed(u)' = Owed(u)
                         /\ Holder(u)' = Holder(u)
  BY DEF Kind, Freq, Owed, Holder
<1>7. Plan(t)'
  <2>1. Holder(t)' = Owed(t)' + (IF a THEN 1 ELSE 0)
    BY <1>3, <1>6
  <2>2. Follows(todo'[t], a, M, FALSE, L, Kind(t)', Freq(t)')
    BY <1>3, <1>4, <1>5, <1>6
  <2> QED  BY <2>1, <2>2, PlanNew
<1>8. ASSUME NEW u \in Threads, u # t PROVE Plan(u)'
  <2>1. Plan(u) /\ todo'[u] = todo[u] /\ op' = op
    BY <1>5, <1>8 DEF Plans
  <2> QED  BY <1>6, <2>1, PlanSame
<1>9. Plans'
  BY <1>7, <1>8 DEF Plans
<1> QED  BY <1>1, <1>9

\* A write that fails goes to its splx, or returns: with the lock only where
\* rtsx_bus_clock leaks it.
LEMMA FailPlans ==
    ASSUME Locking, Types, Plans, NEW t \in Threads, todo[t] # <<>>, Head(todo[t]).kind = "write",
           Fail(t), UNCHANGED <<owner, depth>>
    PROVE  Locking' /\ Plans'
<1> DEFINE e == Head(todo[t])
<1>1. Plan(t)
  BY DEF Plans
<1>2. PICK a \in BOOLEAN : \E K, c, M, L :
               /\ StepOK(e, a, K, c, M, Kind(t), Freq(t))
               /\ Follows(Tail(todo[t]), c, M, FALSE, L, Kind(t), Freq(t))
               /\ Holder(t) = Owed(t) + (IF a THEN 1 ELSE 0)
  BY <1>1, PlanHead
<1>3. PICK K, c, M, L :
               /\ StepOK(e, a, K, c, M, Kind(t), Freq(t))
               /\ Follows(Tail(todo[t]), c, M, FALSE, L, Kind(t), Freq(t))
               /\ Holder(t) = Owed(t) + (IF a THEN 1 ELSE 0)
  BY <1>2
<1>4. /\ \A u \in Threads : u # t => todo'[u] = todo[u]
      /\ \/ e.onfail = "ignore" /\ t = "pm" /\ todo'[t] = Tail(todo[t])
         \/ e.onfail \in {"unlock", "done"} /\ t # "intr" /\ todo'[t] = Splx
         \/ e.onfail = "return" /\ todo'[t] = <<>>
      /\ op'.kind = op.kind /\ op'.freq = op.freq
      /\ leaks' = leaks + IF t = "task" /\ op.kind = "clock" /\ e.onfail = "return" THEN 1 ELSE 0
  BY <1>1, FailIs
<1> HIDE DEF e
<1>5. c = a /\ (e.onfail \in {"unlock", "done"} => a = TRUE)
      /\ (e.onfail = "return" => (a <=> Kind(t) = "clock"))
  <2>1. e.kind = "write"
    BY DEF e
  <2>2. LockOK(e, a, c, Kind(t))
    BY <1>3 DEF StepOK
  <2> QED  BY <2>1, <2>2 DEF LockOK
<1>6. Kind(t) = "clock" <=> t = "task" /\ op.kind = "clock"
  BY KindIs
<1>7. leaks \in Nat /\ leaks' \in Nat
  BY <1>4 DEF Locking
<1>8. Locking'
  BY <1>7 DEF Locking
<1>9. \A u \in Threads : Kind(u)' = Kind(u) /\ Freq(u)' = Freq(u) /\ Holder(u)' = Holder(u)
                         /\ (u # t => Owed(u)' = Owed(u))
  <2>1. t # "task" => leaks' = leaks
    BY <1>4, <1>7
  <2> QED  BY <1>4, <2>1 DEF Kind, Freq, Holder, Owed
<1>10. Holder(t) \in Nat /\ Owed(t) \in Nat
  BY HolderIs
<1>11. Plan(t)'
  <2>1. CASE e.onfail = "ignore"
    <3>1. Owed(t)' = Owed(t) /\ todo'[t] = Tail(todo[t])
      BY <1>4, <2>1 DEF Owed
    <3>2. Holder(t)' = Owed(t)' + (IF a THEN 1 ELSE 0)
      BY <1>3, <1>9, <3>1
    <3>3. Follows(todo'[t], a, M, FALSE, L, Kind(t)', Freq(t)')
      BY <1>3, <1>5, <1>9, <3>1
    <3> QED  BY <3>2, <3>3, PlanNew
  <2>2. CASE e.onfail \in {"unlock", "done"}
    <3>1. Owed(t)' = Owed(t) /\ todo'[t] = Splx /\ t # "intr"
      BY <1>4, <1>7, <2>2 DEF Owed
    <3>2. Holder(t)' = Owed(t)' + (IF a THEN 1 ELSE 0) /\ a = TRUE
      BY <1>3, <1>5, <1>9, <2>2, <3>1
    <3>3. Kind(t) # "led"
      BY <3>1, KindIs
    <3>4. Follows(Splx, a, {}, FALSE, {}, Kind(t), Freq(t))
      BY <3>2, <3>3, FollowsSplx
    <3>5. Follows(todo'[t], a, {}, FALSE, {}, Kind(t)', Freq(t)')
      BY <1>9, <3>1, <3>4
    <3> QED  BY <3>2, <3>5, PlanNew
  <2>3. CASE e.onfail = "return"
    <3>1. todo'[t] = <<>>
      BY <1>4, <2>3
    <3>2. Holder(t)' = Owed(t)' + 0
      <4>1. CASE t = "task" /\ op.kind = "clock"
        <5>1. a = TRUE
          BY <1>5, <1>6, <2>3, <4>1
        <5>2. Owed(t)' = Owed(t) + 1
          BY <1>4, <2>3, <4>1 DEF Owed
        <5> QED  BY <1>3, <1>9, <1>10, <5>1, <5>2
      <4>2. CASE ~(t = "task" /\ op.kind = "clock")
        <5>1. a = FALSE
          BY <1>5, <1>6, <2>3, <4>2
        <5>2. Owed(t)' = Owed(t)
          BY <1>4, <1>7, <4>2 DEF Owed
        <5> QED  BY <1>3, <1>9, <1>10, <5>1, <5>2
      <4> QED  BY <4>1, <4>2
    <3>3. Follows(todo'[t], FALSE, {}, FALSE, {}, Kind(t)', Freq(t)')
      <4> DEFINE b == FALSE
      <4> HIDE DEF b
      <4>1. Follows(<<>>, b, {}, b, {}, Kind(t), Freq(t))
        BY FollowsEmpty
      <4>2. Follows(todo'[t], b, {}, b, {}, Kind(t)', Freq(t)')
        BY <1>9, <3>1, <4>1
      <4> QED  BY <4>2 DEF b
    <3> QED  BY <3>2, <3>3, PlanNew
  <2> QED  BY <1>4, <2>1, <2>2, <2>3
<1>12. ASSUME NEW u \in Threads, u # t PROVE Plan(u)'
  <2>1. Plan(u) /\ todo'[u] = todo[u]
    BY <1>4, <1>12 DEF Plans
  <2> QED  BY <1>4, <1>9, <1>12, <2>1, PlanSame
<1>13. Plans'
  BY <1>11, <1>12 DEF Plans
<1> QED  BY <1>8, <1>13

\* A thread that had nothing to do is given something.
LEMMA PlanGiven ==
    ASSUME Locking, NEW u \in Threads, Plan(u), todo[u] = <<>>, NEW L,
           Follows(todo'[u], FALSE, {}, FALSE, L, Kind(u)', Freq(u)'),
           Holder(u)' = Holder(u), Owed(u)' = Owed(u)
    PROVE  Plan(u)'
<1>1. Holder(u)' = Owed(u)' + 0
  BY PlanDone
<1> QED  BY <1>1, PlanNew

LEMMA CallPlans ==
    ASSUME Locking, Types, Plans, TaskCalls
    PROVE  Locking' /\ Plans'
<1>1. PICK kind, f, steps :
          /\ kind \in TaskKinds /\ f \in AllFreqs
          /\ Call(kind, f, steps) /\ Follows(steps, FALSE, {}, FALSE, Achieved(kind, f), kind, f)
  BY CallIs
<1>2. steps \in Seq(Steps)
  BY <1>1 DEF Follows
<1>3. /\ todo["task"] = <<>> /\ todo'["task"] = steps
      /\ \A u \in Threads : u # "task" => todo'[u] = todo[u]
      /\ op'.kind = kind /\ op'.freq = f
      /\ UNCHANGED <<owner, depth, leaks>>
  BY <1>1, <1>2, CallEffect
<1>4. Locking'
  BY <1>3 DEF Locking
<1>5. \A u \in Threads : Holder(u)' = Holder(u) /\ Owed(u)' = Owed(u)
                         /\ (u # "task" => Kind(u)' = Kind(u) /\ Freq(u)' = Freq(u))
  BY <1>3 DEF Holder, Owed, Kind, Freq
<1>6. Plan("task")'
  <2>1. Kind("task")' = kind /\ Freq("task")' = f /\ "task" \in Threads
    BY <1>3 DEF Kind, Freq, Threads
  <2>2. Follows(todo'["task"], FALSE, {}, FALSE, Achieved(kind, f), Kind("task")', Freq("task")')
    BY <1>1, <1>3, <2>1
  <2>3. Plan("task")
    BY <2>1 DEF Plans
  <2> QED  BY <1>3, <1>5, <2>1, <2>2, <2>3, PlanGiven
<1>7. ASSUME NEW u \in Threads, u # "task" PROVE Plan(u)'
  <2>1. Plan(u) /\ todo'[u] = todo[u] /\ Holder(u)' = Holder(u) /\ Owed(u)' = Owed(u)
        /\ Kind(u)' = Kind(u) /\ Freq(u)' = Freq(u)
    BY <1>3, <1>5, <1>7 DEF Plans
  <2>2. Plan(u)' <=> Plan(u)
    BY <2>1 DEF Plan
  <2> QED  BY <2>1, <2>2
<1> QED  BY <1>4, <1>6, <1>7 DEF Plans

LEMMA ReturnPlans ==
    ASSUME Locking, Types, Plans, TaskReturns
    PROVE  Locking' /\ Plans'
<1>1. /\ todo["task"] = <<>> /\ UNCHANGED <<todo, owner, depth, leaks>>
  BY DEF TaskReturns, lock
<1>2. Locking'
  BY <1>1 DEF Locking
<1>3. \A u \in Threads : Holder(u)' = Holder(u) /\ Owed(u)' = Owed(u)
                         /\ (u # "task" => Kind(u)' = Kind(u) /\ Freq(u)' = Freq(u))
  BY <1>1 DEF Holder, Owed, Kind, Freq
<1>4. Plan("task")'
  <2>1. "task" \in Threads /\ Plan("task")
    BY DEF Threads, Plans
  <2>2. Follows(todo'["task"], FALSE, {}, FALSE, {}, Kind("task")', Freq("task")')
    <3> DEFINE b == FALSE
    <3> HIDE DEF b
    <3>1. Follows(<<>>, b, {}, b, {}, Kind("task")', Freq("task")')
      BY FollowsEmpty
    <3> QED  BY <1>1, <3>1 DEF b
  <2> QED  BY <1>1, <1>3, <2>1, <2>2, PlanGiven
<1>5. ASSUME NEW u \in Threads, u # "task" PROVE Plan(u)'
  <2>1. Plan(u) /\ todo'[u] = todo[u] /\ Holder(u)' = Holder(u) /\ Owed(u)' = Owed(u)
        /\ Kind(u)' = Kind(u) /\ Freq(u)' = Freq(u)
    BY <1>1, <1>3, <1>5 DEF Plans
  <2>2. Plan(u)' <=> Plan(u)
    BY <2>1 DEF Plan
  <2> QED  BY <2>1, <2>2
<1> QED  BY <1>2, <1>4, <1>5 DEF Plans

\* The interrupt thread, and the thread of setPowerState
LEMMA GivenPlans ==
    ASSUME Locking, Types, Plans, NEW t \in {"intr", "pm"}, todo[t] = <<>>,
           Follows(todo'[t], FALSE, {}, FALSE, {}, Kind(t), 400),
           \A u \in Threads : u # t => todo'[u] = todo[u],
           op'.kind = op.kind, op'.freq = op.freq, UNCHANGED <<owner, depth, leaks>>
    PROVE  Locking' /\ Plans'
<1>1. Locking'
  BY DEF Locking
<1>2. \A u \in Threads : Holder(u)' = Holder(u) /\ Owed(u)' = Owed(u)
                         /\ Kind(u)' = Kind(u) /\ Freq(u)' = Freq(u)
  BY DEF Holder, Owed, Kind, Freq
<1>3. t \in Threads /\ Freq(t) = 400 /\ Plan(t)
  BY DEF Threads, Freq, Plans
<1>4. Plan(t)'
  <2>1. Follows(todo'[t], FALSE, {}, FALSE, {}, Kind(t)', Freq(t)')
    BY <1>2, <1>3
  <2> QED  BY <1>2, <1>3, <2>1, PlanGiven
<1>5. ASSUME NEW u \in Threads, u # t PROVE Plan(u)'
  BY <1>2, <1>5, PlanSame DEF Plans
<1> QED  BY <1>1, <1>4, <1>5 DEF Plans

LEMMA CardEventIs ==
    ASSUME Types, CardEvent
    PROVE  /\ todo["intr"] = <<>> /\ Follows(todo'["intr"], FALSE, {}, FALSE, {}, "led", 400)
           /\ todo' \in [Threads -> Seq(Steps)]
           /\ \A u \in Threads : u # "intr" => todo'[u] = todo[u]
           /\ meets' = meets + 1 /\ meets < MaxMeets /\ power # "asleep"
           /\ UNCHANGED <<regs, haimr, polling, owner, depth, op, saved, power, ops,
                          limit, off, restored, leaks, overlap>>
<1>1. PICK led \in {LedEnable, LedDisable} : todo' = [todo EXCEPT !["intr"] = led]
  BY DEF CardEvent
<1>2. Follows(led, FALSE, {}, FALSE, {}, "led", 400)
  BY FollowsLed
<1>3. led \in Seq(Steps) /\ "intr" \in Threads /\ todo \in [Threads -> Seq(Steps)]
  BY <1>2 DEF Follows, Threads, Types
<1>4. todo' \in [Threads -> Seq(Steps)] /\ todo'["intr"] = led
      /\ \A u \in Threads : u # "intr" => todo'[u] = todo[u]
  BY <1>1, <1>3, TodoNext
<1>5. /\ todo["intr"] = <<>> /\ meets' = meets + 1 /\ meets < MaxMeets /\ power # "asleep"
      /\ UNCHANGED <<regs, haimr, polling, owner, depth, op, saved, power, ops,
                     limit, off, restored, leaks, overlap>>
  BY Zenon DEF CardEvent, window, lock, history
<1> QED  BY <1>2, <1>4, <1>5

LEMMA PlansNext ==
    ASSUME Hardware, Locking, Types, Polling, Plans, [Next]_vars
    PROVE  Locking' /\ Plans'
<1>1. ASSUME NEW t \in Threads, LockStep(t) PROVE Locking' /\ Plans'
  BY <1>1, LockStepPlans
<1>2. ASSUME NEW t \in Threads, UnlockStep(t) PROVE Locking' /\ Plans'
  BY <1>2, UnlockStepPlans
<1>3. ASSUME UNCHANGED <<todo, op, owner, depth, leaks>> PROVE Locking' /\ Plans'
  <2>1. \A u \in Threads : Plan(u)' <=> Plan(u)
    BY <1>3 DEF Plan, Holder, Owed, Kind, Freq
  <2> QED  BY <1>3, <2>1 DEF Plans, Locking
<1>4. ASSUME NEW t \in Threads, Issue(t) PROVE Locking' /\ Plans'
  BY <1>3, <1>4 DEF Issue, lock
<1>5. ASSUME NEW t \in Threads, SaveWindow(t) \/ RestoreWindow(t) \/ PollRead(t) \/ PollWrite(t)
      PROVE  Locking' /\ Plans'
  <2>1. /\ todo[t] # <<>> /\ Head(todo[t]).kind \in {"save", "restore", "read", "write"}
        /\ Advance(t) /\ UNCHANGED <<op, leaks, owner, depth>>
    <3>1. CASE SaveWindow(t)
      BY <3>1 DEF SaveWindow, Head1, lock, history
    <3>2. CASE RestoreWindow(t)
      BY <3>2 DEF RestoreWindow, Head1, lock
    <3>3. CASE PollRead(t)
      BY <3>3 DEF PollRead, Head1, lock, history
    <3>4. CASE PollWrite(t)
      BY <3>4 DEF PollWrite, Head1, lock, history
    <3> QED  BY <1>5, <3>1, <3>2, <3>3, <3>4
  <2>2. Head(todo[t]).kind \notin {"lock", "unlock"}
    BY <2>1
  <2> QED  BY <2>1, <2>2, OtherStepPlans
<1>6. ASSUME NEW t \in Threads, WriteFails(t) \/ SkippedFails(t) PROVE Locking' /\ Plans'
  <2>1. todo[t] # <<>> /\ Head(todo[t]).kind = "write" /\ Fail(t) /\ UNCHANGED <<owner, depth>>
    BY <1>6 DEF WriteFails, SkippedFails, Fail, Head1, lock
  <2> QED  BY <2>1, FailPlans
<1>7. CASE ChipAccess
  BY <1>3, <1>7 DEF ChipAccess, lock, history
<1>8. CASE TaskCalls
  BY <1>8, CallPlans
<1>9. CASE TaskReturns
  BY <1>9, ReturnPlans
<1>10. CASE CardEvent
  <2>1. todo["intr"] = <<>> /\ Follows(todo'["intr"], FALSE, {}, FALSE, {}, "led", 400)
        /\ (\A u \in Threads : u # "intr" => todo'[u] = todo[u]) /\ UNCHANGED <<op, owner, depth, leaks>>
    BY <1>10, CardEventIs
  <2>2. Kind("intr") = "led"
    BY DEF Kind
  <2> QED  BY <2>1, <2>2, GivenPlans
<1>11. CASE Suspend \/ Sleep \/ WakeUp \/ Resume
  <2>1. PICK from, to, steps : /\ PmGoes(from, to, steps)
                               /\ Follows(steps, FALSE, {}, FALSE, {}, "pm", 400)
    BY <1>11, PmIs
  <2>2. steps \in Seq(Steps)
    BY <2>1 DEF Follows
  <2>3. todo["pm"] = <<>> /\ todo'["pm"] = steps /\ \A u \in Threads : u # "pm" => todo'[u] = todo[u]
    BY <2>1, <2>2, PmEffect
  <2>4. op'.kind = op.kind /\ op'.freq = op.freq /\ UNCHANGED <<owner, depth, leaks>>
    BY <1>11, PmFrame
  <2>5. Kind("pm") = "pm"
    BY DEF Kind
  <2> QED  BY <2>1, <2>3, <2>4, <2>5, GivenPlans
<1>12. CASE UNCHANGED vars
  BY <1>3, <1>12 DEF vars, lock, history
<1> QED
  BY <1>1, <1>2, <1>4, <1>5, <1>6, <1>7, <1>8, <1>9, <1>10, <1>11, <1>12 DEF Next, ThreadStep

-----------------------------------------------------------------------------
(***************************************************************************)
(* The chip, the window and what is saved                                  *)
(***************************************************************************)

LEMMA RequestIs ==
    ASSUME NEW e, Proper(e)
    PROVE  /\ Proper(Request(e)) /\ Request(e).kind = e.kind /\ Request(e).reg = e.reg
           /\ \A R : Written(R, Request(e)) = Written(R, e)
BY DEF Proper, Request, Written

\* The window with a request that it has just got
LEMMA IssueIs ==
    ASSUME NEW t \in Threads, Types, Plans, Issue(t)
    PROVE  /\ todo[t] # <<>> /\ Head(todo[t]).kind \in {"read", "write"} /\ Proper(Head(todo[t]))
           /\ haimr' = [busy |-> TRUE, step |-> Request(Head(todo[t])), value |-> {}]
           /\ Window(haimr')
           /\ overlap' = (overlap \/ polling \ {t} # {}) /\ t \notin polling
           /\ polling' = polling \cup {t} /\ power # "asleep"
           /\ UNCHANGED <<regs, owner, depth, todo, op, saved, power, ops, meets, limit, off,
                          restored, leaks>>
<1> DEFINE e == Head(todo[t])
<1>1. /\ todo[t] # <<>> /\ e.kind \in {"read", "write"} /\ power # "asleep"
      /\ haimr' = [busy |-> TRUE, step |-> Request(e), value |-> {}]
      /\ overlap' = (overlap \/ polling \ {t} # {}) /\ t \notin polling /\ polling' = polling \cup {t}
      /\ UNCHANGED <<regs, owner, depth, todo, op, saved, power, ops, meets, limit, off, restored,
           leaks>>
  <2>1. e.kind = "read" \/ e.kind = "write"
    BY DEF Issue, Head1
  <2> QED  BY <2>1 DEF Issue, Head1, PutInWindow, lock, counts
<1>2. Proper(e)
  BY <1>1, HeadIs DEF Plans
<1> HIDE DEF e
<1>3. Proper(Request(e)) /\ Request(e).kind = e.kind
  BY <1>2, RequestIs
<1>4. DOMAIN haimr' = {"busy", "step", "value"} /\ haimr'.busy = TRUE /\ haimr'.step = Request(e)
  BY <1>1
<1>5. Window(haimr')
  BY <1>1, <1>3, <1>4 DEF Window
<1> QED  BY <1>1, <1>2, <1>5 DEF e

LEMMA DoneIs ==
    ASSUME NEW w, NEW byte, DOMAIN w = {"busy", "step", "value"}, w.busy = FALSE, w.step = Done(byte)
    PROVE  Window(w)
<1>1. w.step.kind = "done"
  BY DEF Done
<1>2. Proper(w.step)
  BY <1>1 DEF Proper
<1> QED  BY <1>1, <1>2 DEF Window

LEMMA ResetIs ==
    /\ Chip(Reset) /\ Reset["PWR"] = {0, 1} /\ Reset["OE"] = {} /\ Reset["CLK_EN"] = {}
    /\ Raw(Reset) = 51000
    /\ Window([busy |-> FALSE, step |-> Done("any"), value |-> {}])
<1>1. Reset["DIV_N"] = {100} /\ Reset["CLK_DIV"] = {2} /\ Reset["PWR"] = {0, 1}
      /\ Reset["OE"] = {} /\ Reset["CLK_EN"] = {}
  BY Registers DEF Reset, SD_PWR_OFF
<1>2. \A r \in Regs : Reset[r] \subseteq Bits[r]
  BY Registers DEF Reset, SD_PWR_OFF
<1>3. DOMAIN Reset = Regs
  BY DEF Reset
<1>4. Chip(Reset)
  BY <1>1, <1>2, <1>3 DEF Chip
<1>5. Raw(Reset) = 51000
  BY <1>1, RawIs, Clocks
<1>6. Window([busy |-> FALSE, step |-> Done("any"), value |-> {}])
  <2> DEFINE w == [busy |-> FALSE, step |-> Done("any"), value |-> {}]
  <2>1. DOMAIN w = {"busy", "step", "value"} /\ w.busy = FALSE /\ w.step = Done("any")
    OBVIOUS
  <2> HIDE DEF w
  <2>2. Window(w)
    BY <2>1, DoneIs
  <2> QED  BY <2>2 DEF w
<1> QED  BY <1>1, <1>4, <1>5, <1>6

LEMMA ChipAccessIs ==
    ASSUME Hardware, ChipAccess
    PROVE  /\ Chip(regs') /\ Window(haimr')
           /\ regs' = Future /\ Future' = regs' /\ haimr.busy = TRUE /\ haimr'.busy = FALSE
<1>1. haimr.busy /\ Window(haimr) /\ Chip(regs)
  BY DEF ChipAccess, Hardware
<1>2. haimr.busy = TRUE /\ Proper(haimr.step) /\ DOMAIN haimr = {"busy", "step", "value"}
      /\ haimr.step.kind \in {"read", "write"}
  BY <1>1 DEF Window
<1>3. CASE haimr.step.kind = "read"
  <2>1. haimr' = [haimr EXCEPT !.busy = FALSE, !.value = regs[haimr.step.reg]] /\ regs' = regs
    BY <1>3 DEF ChipAccess
  <2>2. DOMAIN haimr' = {"busy", "step", "value"} /\ haimr'.busy = FALSE /\ haimr'.step = haimr.step
        /\ haimr'.value = regs[haimr.step.reg]
    BY <1>2, <2>1
  <2>3. haimr.step.reg \in Regs
    BY <1>2, <1>3, Registers DEF Proper, SavedRegs
  <2>4. regs[haimr.step.reg] \subseteq Bits[haimr.step.reg]
    BY <1>1, <2>3 DEF Chip
  <2>5. Window(haimr')
    <3>1. Proper(haimr'.step)
      BY <1>2, <2>2
    <3>2. haimr'.value \subseteq Bits[haimr'.step.reg]
      BY <2>2, <2>4
    <3> DEFINE w == haimr'
    <3>3. DOMAIN w = {"busy", "step", "value"} /\ w.busy = FALSE /\ Proper(w.step)
          /\ w.value \subseteq Bits[w.step.reg]
      BY <2>2, <3>1, <3>2
    <3> HIDE DEF w
    <3>4. Window(w)
      BY <3>3 DEF Window
    <3> QED  BY <3>4 DEF w
  <2>6. Future = regs /\ Future' = regs'
    BY <1>3, <2>2 DEF Future
  <2> QED  BY <1>1, <1>2, <2>1, <2>2, <2>5, <2>6
<1>4. CASE haimr.step.kind = "write"
  <2>1. haimr' = [haimr EXCEPT !.busy = FALSE, !.step = Done(haimr.step.byte)]
        /\ regs' = Written(regs, haimr.step)
    BY <1>4 DEF ChipAccess, Written
  <2>2. DOMAIN haimr' = {"busy", "step", "value"} /\ haimr'.busy = FALSE
        /\ haimr'.step = Done(haimr.step.byte)
    BY <1>2, <2>1
  <2>3. Window(haimr')
    BY <2>2, DoneIs
  <2>4. Future = regs' /\ Future' = regs'
    BY <1>2, <1>4, <2>1, <2>2 DEF Future
  <2>5. Chip(regs')
    BY <1>1, <1>2, <1>4, <2>1, ChipWritten
  <2> QED  BY <1>2, <2>2, <2>3, <2>4, <2>5
<1> QED  BY <1>2, <1>3, <1>4

LEMMA HardwareNext ==
    ASSUME Hardware, Types, Plans, [Next]_vars
    PROVE  Hardware'
<1>1. ASSUME UNCHANGED <<regs, haimr, saved>> PROVE Hardware'
  BY <1>1 DEF Hardware
<1>2. ASSUME NEW t \in Threads, LockStep(t) \/ UnlockStep(t) \/ PollWrite(t) \/ WriteFails(t)
                                \/ SkippedFails(t)
      PROVE  Hardware'
  <2>1. UNCHANGED <<regs, haimr, saved>>
    <3>1. CASE LockStep(t) \/ UnlockStep(t)
      BY <3>1 DEF LockStep, UnlockStep, window
    <3>2. CASE PollWrite(t)
      BY <3>2 DEF PollWrite
    <3>3. CASE WriteFails(t) \/ SkippedFails(t)
      BY <3>3 DEF WriteFails, SkippedFails, Fail
    <3> QED  BY <1>2, <3>1, <3>2, <3>3
  <2> QED  BY <1>1, <2>1
<1>3. ASSUME NEW t \in Threads, Issue(t) PROVE Hardware'
  <2>1. Window(haimr') /\ UNCHANGED <<regs, saved>>
    BY <1>3, IssueIs
  <2> QED  BY <2>1 DEF Hardware
<1>4. ASSUME NEW t \in Threads, SaveWindow(t) PROVE Hardware'
  <2>1. saved' = [saved EXCEPT !["haimr"] = haimr] /\ UNCHANGED <<regs, haimr>>
    BY <1>4 DEF SaveWindow, window
  <2>2. DOMAIN saved = {"CFG1", "OE", "haimr"} /\ Window(haimr)
    BY DEF Hardware
  <2>3. DOMAIN saved' = {"CFG1", "OE", "haimr"} /\ saved'["haimr"] = haimr
        /\ saved'["CFG1"] = saved["CFG1"] /\ saved'["OE"] = saved["OE"]
    BY <2>1, <2>2
  <2>4. Window(saved'["haimr"]) /\ Window(haimr') /\ Chip(regs')
    BY <2>1, <2>2, <2>3 DEF Hardware
  <2> QED  BY <2>3, <2>4 DEF Hardware
<1>5. ASSUME NEW t \in Threads, RestoreWindow(t) PROVE Hardware'
  <2>1. haimr' = saved["haimr"] /\ UNCHANGED <<regs, saved>>
    BY <1>5 DEF RestoreWindow, PutInWindow
  <2> QED  BY <2>1 DEF Hardware
<1>6. ASSUME NEW t \in Threads, PollRead(t) PROVE Hardware'
  <2> DEFINE e == Head(todo[t])
  <2>1. todo[t] # <<>> /\ e.kind = "read" /\ UNCHANGED <<regs, haimr>>
    BY <1>6 DEF PollRead, Head1
  <2>2. e.reg \in SavedRegs
    BY <2>1, HeadIs DEF Plans, Proper
  <2>3. PICK v \in IF ~haimr.busy /\ haimr.step = Request(e) THEN {haimr.value} ELSE SUBSET Bits[e.reg] :
            saved' = [saved EXCEPT ![e.reg] = v]
    BY <1>6, Zenon DEF PollRead
  <2>4. v \subseteq Bits[e.reg]
    <3>1. CASE ~haimr.busy /\ haimr.step = Request(e)
      <4>1. haimr.step.kind = "read" /\ haimr.step.reg = e.reg
        BY <2>1, <3>1 DEF Request
      <4>2. haimr.value \subseteq Bits[e.reg]
        BY <3>1, <4>1 DEF Hardware, Window
      <4> QED  BY <2>3, <3>1, <4>2
    <3>2. CASE ~(~haimr.busy /\ haimr.step = Request(e))
      BY <2>3, <3>2
    <3> QED  BY <3>1, <3>2
  <2> HIDE DEF e
  <2>5. DOMAIN saved = {"CFG1", "OE", "haimr"} /\ e.reg \in {"CFG1", "OE"}
    BY <2>2 DEF Hardware, SavedRegs
  <2>6. DOMAIN saved' = {"CFG1", "OE", "haimr"} /\ saved'[e.reg] = v
        /\ \A x \in {"CFG1", "OE", "haimr"} : x # e.reg => saved'[x] = saved[x]
    BY <2>3, <2>5
  <2>7. saved'["haimr"] = saved["haimr"]
    BY <2>5, <2>6
  <2>8. saved'["CFG1"] \subseteq Bits["CFG1"]
    BY <2>4, <2>5, <2>6 DEF Hardware
  <2>9. saved'["OE"] \subseteq Bits["OE"]
    BY <2>4, <2>5, <2>6 DEF Hardware
  <2> QED  BY <2>1, <2>6, <2>7, <2>8, <2>9 DEF Hardware
<1>7. CASE ChipAccess
  <2>1. saved' = saved
    BY <1>7 DEF ChipAccess
  <2> QED  BY <1>7, <2>1, ChipAccessIs DEF Hardware
<1>8. CASE TaskCalls
  <2>1. PICK kind, f, steps :
            /\ kind \in TaskKinds /\ f \in AllFreqs
            /\ Call(kind, f, steps) /\ Follows(steps, FALSE, {}, FALSE, Achieved(kind, f), kind, f)
    BY <1>8, CallIs
  <2> QED  BY <1>1, <2>1 DEF Call, window
<1>9. CASE TaskReturns
  BY <1>1, <1>9 DEF TaskReturns, window
<1>10. CASE CardEvent
  BY <1>1, <1>10, CardEventIs
<1>11. CASE Suspend \/ Sleep \/ WakeUp \/ Resume
  <2>1. saved' = saved
    BY <1>11, PmFrame
  <2>2. CASE WakeUp
    <3>1. UNCHANGED <<regs, haimr>>
          \/ (regs' = Reset /\ haimr' = [busy |-> FALSE, step |-> Done("any"), value |-> {}])
      BY <2>2 DEF WakeUp
    <3>2. Chip(regs') /\ Window(haimr')
      <4>1. CASE UNCHANGED <<regs, haimr>>
        BY <4>1 DEF Hardware
      <4>2. CASE regs' = Reset /\ haimr' = [busy |-> FALSE, step |-> Done("any"), value |-> {}]
        <5> DEFINE w == [busy |-> FALSE, step |-> Done("any"), value |-> {}]
        <5>1. Window(w) /\ haimr' = w /\ Chip(Reset)
          BY <4>2, ResetIs
        <5> HIDE DEF w
        <5> QED  BY <4>2, <5>1
      <4> QED  BY <3>1, <4>1, <4>2
    <3> QED  BY <2>1, <3>2 DEF Hardware
  <2>3. CASE ~WakeUp
    BY <1>1, <1>11, <2>3, PmFrame
  <2> QED  BY <2>2, <2>3
<1>12. CASE UNCHANGED vars
  BY <1>1, <1>12 DEF vars, window
<1> QED
  BY <1>2, <1>3, <1>4, <1>5, <1>6, <1>7, <1>8, <1>9, <1>10, <1>11, <1>12 DEF Next, ThreadStep

-----------------------------------------------------------------------------
(***************************************************************************)
(* Types, the course of the power state, and the limit                     *)
(***************************************************************************)

\* A step after which the thread goes on
Goes(t) ==
    \/ LockStep(t) \/ UnlockStep(t) \/ SaveWindow(t) \/ RestoreWindow(t)
    \/ PollRead(t) \/ PollWrite(t)

LEMMA GoesIs ==
    ASSUME Types, Polling, NEW t \in Threads, Goes(t)
    PROVE  /\ todo[t] # <<>> /\ Advance(t) /\ polling' = polling \ {t} /\ power # "asleep"
           /\ UNCHANGED <<regs, op, power, ops, meets, limit, off, restored, leaks>>
           /\ RestoreWindow(t) \/ UNCHANGED <<haimr, overlap>>
           /\ overlap' \in BOOLEAN /\ (overlap => overlap')
<1>1. Head(todo[t]).kind \notin {"read", "write"} => polling = polling \ {t}
  BY DEF Polling
<1>2. overlap \in BOOLEAN
  BY DEF Types
<1>3. CASE LockStep(t)
  BY <1>1, <1>2, <1>3 DEF LockStep, Head1, window, counts, history
<1>4. CASE UnlockStep(t)
  BY <1>1, <1>2, <1>4 DEF UnlockStep, Head1, window, counts, history
<1>5. CASE SaveWindow(t)
  BY <1>1, <1>2, <1>5 DEF SaveWindow, Head1, window, counts, history
<1>6. CASE RestoreWindow(t)
  <2>1. /\ todo[t] # <<>> /\ Head(todo[t]).kind = "restore" /\ Advance(t) /\ polling' = polling
        /\ power # "asleep" /\ overlap' = (overlap \/ polling \ {t} # {})
        /\ UNCHANGED <<regs, op, power, ops, meets, limit, off, restored, leaks>>
    BY <1>6 DEF RestoreWindow, PutInWindow, Head1, counts
  <2>2. overlap' \in BOOLEAN /\ (overlap => overlap')
    BY <1>2, <2>1, Zenon
  <2> QED  BY <1>1, <1>6, <2>1, <2>2
<1>7. CASE PollRead(t)
  BY <1>2, <1>7 DEF PollRead, Head1, counts, history
<1>8. CASE PollWrite(t)
  BY <1>2, <1>8 DEF PollWrite, Head1, counts, history
<1> QED  BY <1>3, <1>4, <1>5, <1>6, <1>7, <1>8 DEF Goes

LEMMA FailsIs ==
    ASSUME Types, NEW t \in Threads, WriteFails(t) \/ SkippedFails(t)
    PROVE  /\ todo[t] # <<>> /\ Head(todo[t]).kind = "write" /\ Fail(t)
           /\ polling' = polling \ {t} /\ power # "asleep"
           /\ UNCHANGED <<regs, haimr, power, ops, meets, limit, off, restored, overlap>>
<1>1. CASE WriteFails(t)
  BY <1>1 DEF WriteFails, Fail, Head1, counts
<1>2. CASE SkippedFails(t)
  BY <1>2 DEF SkippedFails, Fail, Head1, counts
<1> QED  BY <1>1, <1>2

LEMMA TypesNext ==
    ASSUME Hardware, Types, Polling, Plans, [Next]_vars
    PROVE  Types'
<1>1. ASSUME NEW t \in Threads, Goes(t) PROVE Types'
  <2>1. /\ todo[t] # <<>> /\ Advance(t) /\ polling' = polling \ {t}
        /\ UNCHANGED <<op, power, ops, meets, off, restored>> /\ overlap' \in BOOLEAN
    BY <1>1, GoesIs
  <2>2. todo' \in [Threads -> Seq(Steps)]
    BY <2>1, AdvanceIs
  <2> QED  BY <2>1, <2>2 DEF Types
<1>2. ASSUME NEW t \in Threads, Issue(t) PROVE Types'
  <2>1. /\ overlap' = (overlap \/ polling \ {t} # {}) /\ polling' = polling \cup {t}
        /\ UNCHANGED <<todo, op, power, ops, meets, off, restored>>
    BY <1>2, IssueIs
  <2>2. overlap' \in BOOLEAN
    BY <2>1, Zenon DEF Types
  <2> QED  BY <2>1, <2>2 DEF Types
<1>3. ASSUME NEW t \in Threads, WriteFails(t) \/ SkippedFails(t) PROVE Types'
  <2>1. /\ todo[t] # <<>> /\ Head(todo[t]).kind = "write" /\ Fail(t) /\ polling' = polling \ {t}
        /\ UNCHANGED <<power, ops, meets, off, restored, overlap>>
    BY <1>3, FailsIs
  <2>2. /\ todo' \in [Threads -> Seq(Steps)]
        /\ op' \in [kind : TaskKinds \cup {"none"}, freq : AllFreqs, failed : BOOLEAN, old : BOOLEAN]
    BY <2>1, FailIs DEF Plans
  <2> QED  BY <2>1, <2>2 DEF Types
<1>4. CASE ChipAccess
  BY <1>4 DEF ChipAccess, Types, counts, history
<1>5. CASE TaskCalls
  <2>1. PICK kind, f, steps :
            /\ kind \in TaskKinds /\ f \in AllFreqs
            /\ Call(kind, f, steps) /\ Follows(steps, FALSE, {}, FALSE, Achieved(kind, f), kind, f)
    BY <1>5, CallIs
  <2>2. steps \in Seq(Steps)
    BY <2>1 DEF Follows
  <2>3. /\ todo' \in [Threads -> Seq(Steps)]
        /\ op' \in [kind : TaskKinds \cup {"none"}, freq : AllFreqs, failed : BOOLEAN, old : BOOLEAN]
        /\ off' = (off /\ kind # "up") /\ ops' = ops + 1 /\ ops < MaxOps
        /\ UNCHANGED <<polling, power, meets, restored, overlap>>
    BY <2>1, <2>2, CallEffect
  <2>4. off' \in BOOLEAN /\ ops' \in Nat /\ ops' <= MaxOps
    BY <2>3, PowerAssumption DEF Types
  <2> QED  BY <2>3, <2>4 DEF Types
<1>6. CASE TaskReturns
  <2>1. /\ op' = NoOp /\ UNCHANGED <<todo, polling, power, ops, meets, overlap>>
        /\ off' = (off \/ (op.kind = "down" /\ ~op.failed /\ ~op.old))
        /\ restored' = (restored /\ ~(op.kind \in {"down", "up"} /\ ~op.failed /\ ~op.old))
    BY <1>6, Zenon DEF TaskReturns, window, counts
  <2>2. op' \in [kind : TaskKinds \cup {"none"}, freq : AllFreqs, failed : BOOLEAN, old : BOOLEAN]
    BY <2>1 DEF NoOp, AllFreqs
  <2>3. off' \in BOOLEAN /\ restored' \in BOOLEAN
    BY <2>1, Zenon DEF Types
  <2> QED  BY <2>1, <2>2, <2>3 DEF Types
<1>7. CASE CardEvent
  <2>1. /\ todo' \in [Threads -> Seq(Steps)] /\ meets' = meets + 1 /\ meets < MaxMeets
        /\ UNCHANGED <<polling, op, power, ops, off, restored, overlap>>
    BY <1>7, CardEventIs
  <2>2. meets' \in Nat /\ meets' <= MaxMeets
    BY <2>1, PowerAssumption DEF Types
  <2> QED  BY <2>1, <2>2 DEF Types
<1>8. CASE Suspend \/ Sleep \/ WakeUp \/ Resume
  <2>1. PICK from, to, steps : /\ PmGoes(from, to, steps)
                               /\ Follows(steps, FALSE, {}, FALSE, {}, "pm", 400)
    BY <1>8, PmIs
  <2>2. steps \in Seq(Steps)
    BY <2>1 DEF Follows
  <2>3. todo' \in [Threads -> Seq(Steps)]
    BY <2>1, <2>2, PmEffect
  <2>4. power' \in PowerStates
    BY <1>8 DEF Suspend, Sleep, WakeUp, Resume, PmGoes, PowerStates
  <2>5. /\ op' \in [kind : TaskKinds \cup {"none"}, freq : AllFreqs, failed : BOOLEAN, old : BOOLEAN]
        /\ UNCHANGED <<polling, ops, overlap>>
        /\ UNCHANGED <<meets, off, restored>>
           \/ (off' = FALSE /\ restored' = TRUE /\ meets' = meets + 1 /\ meets < MaxMeets)
    BY <1>8, PmFrame
  <2>6. off' \in BOOLEAN /\ restored' \in BOOLEAN
    BY <2>5 DEF Types
  <2>7. meets' \in Nat /\ meets' <= MaxMeets
    <3>1. meets \in Nat /\ meets <= MaxMeets /\ MaxMeets \in Nat
      BY PowerAssumption DEF Types
    <3>2. meets' = meets \/ (meets' = meets + 1 /\ meets < MaxMeets)
      BY <2>5
    <3> QED  BY <3>1, <3>2
  <2> QED  BY <2>3, <2>4, <2>5, <2>6, <2>7 DEF Types
<1>9. CASE UNCHANGED vars
  BY <1>9 DEF vars, Types, window, counts, history
<1> QED
  BY <1>1, <1>2, <1>3, <1>4, <1>5, <1>6, <1>7, <1>8, <1>9 DEF Next, ThreadStep, Goes

LEMMA PollingNext ==
    ASSUME Hardware, Types, Polling, Plans, [Next]_vars
    PROVE  Polling'
<1>0. polling \subseteq Threads
  BY DEF Types
<1>1. ASSUME NEW t \in Threads, polling' \subseteq polling \ {t},
             \A u \in Threads : u # t => todo'[u] = todo[u]
      PROVE  Polling'
  BY <1>0, <1>1 DEF Polling
<1>2. ASSUME NEW t \in Threads, Goes(t) PROVE Polling'
  BY <1>1, <1>2, GoesIs, AdvanceIs
<1>3. ASSUME NEW t \in Threads, Issue(t) PROVE Polling'
  BY <1>3, IssueIs DEF Polling
<1>4. ASSUME NEW t \in Threads, WriteFails(t) \/ SkippedFails(t) PROVE Polling'
  <2>1. /\ todo[t] # <<>> /\ Head(todo[t]).kind = "write" /\ Fail(t) /\ polling' = polling \ {t}
    BY <1>4, FailsIs
  <2>2. \A u \in Threads : u # t => todo'[u] = todo[u]
    BY <2>1, FailIs DEF Plans
  <2> QED  BY <1>1, <2>1, <2>2
<1>5. ASSUME NEW t \in Threads, todo[t] = <<>>, polling' = polling,
             \A u \in Threads : u # t => todo'[u] = todo[u]
      PROVE  Polling'
  <2>1. t \notin polling
    BY <1>5 DEF Polling
  <2> QED  BY <1>1, <1>5, <2>1
<1>6. CASE ChipAccess
  BY <1>6 DEF ChipAccess, Polling
<1>7. CASE TaskCalls
  <2>1. PICK kind, f, steps :
            /\ kind \in TaskKinds /\ f \in AllFreqs
            /\ Call(kind, f, steps) /\ Follows(steps, FALSE, {}, FALSE, Achieved(kind, f), kind, f)
    BY <1>7, CallIs
  <2>2. steps \in Seq(Steps) /\ "task" \in Threads
    BY <2>1 DEF Follows, Threads
  <2> QED  BY <1>5, <2>1, <2>2, CallEffect
<1>8. CASE TaskReturns
  BY <1>8 DEF TaskReturns, Polling, window
<1>9. CASE CardEvent
  <2>1. "intr" \in Threads
    BY DEF Threads
  <2> QED  BY <1>5, <1>9, <2>1, CardEventIs
<1>10. CASE Suspend \/ Sleep \/ WakeUp \/ Resume
  <2>1. PICK from, to, steps : /\ PmGoes(from, to, steps)
                               /\ Follows(steps, FALSE, {}, FALSE, {}, "pm", 400)
    BY <1>10, PmIs
  <2>2. steps \in Seq(Steps) /\ "pm" \in Threads
    BY <2>1 DEF Follows, Threads
  <2>3. polling' = polling
    BY <1>10, PmFrame
  <2> QED  BY <1>5, <2>1, <2>2, <2>3, PmEffect
<1>11. CASE UNCHANGED vars
  BY <1>11 DEF vars, Polling, window
<1> QED
  BY <1>2, <1>3, <1>4, <1>6, <1>7, <1>8, <1>9, <1>10, <1>11 DEF Next, ThreadStep, Goes

\* The last step of a thread leaves it at an empty plan only: nothing that
\* Course says of an empty one changes while there are steps.
LEMMA CourseNext ==
    ASSUME Hardware, Types, Polling, Course, Plans, [Next]_vars
    PROVE  Course'
<1>1. ASSUME NEW t \in Threads, todo[t] # <<>>, power # "asleep",
             \A u \in Threads : u # t => todo'[u] = todo[u],
             UNCHANGED <<power, restored, off>>, op'.kind = op.kind, op'.old = op.old
      PROVE  Course'
  <2>1. "pm" \in Threads /\ "task" \in Threads
    BY DEF Threads
  <2>2. (t # "pm" => todo'["pm"] = todo["pm"]) /\ (t # "task" => todo'["task"] = todo["task"])
    BY <1>1, <2>1
  <2>3. t = "pm" => power \notin {"on", "asleep"}
    BY <1>1 DEF Course
  <2>4. t = "task" => op.kind # "none"
    BY <1>1 DEF Course
  <2> QED  BY <1>1, <2>2, <2>3, <2>4 DEF Course, Fresh
<1>2. ASSUME NEW t \in Threads, Goes(t) PROVE Course'
  <2>1. todo[t] # <<>> /\ Advance(t) /\ power # "asleep" /\ UNCHANGED <<op, power, restored, off>>
    BY <1>2, GoesIs
  <2>2. \A u \in Threads : u # t => todo'[u] = todo[u]
    BY <2>1, AdvanceIs
  <2> QED  BY <1>1, <2>1, <2>2
<1>3. ASSUME NEW t \in Threads, Issue(t) PROVE Course'
  <2>1. todo[t] # <<>> /\ power # "asleep" /\ UNCHANGED <<todo, op, power, restored, off>>
    BY <1>3, IssueIs
  <2> QED  BY <1>1, <2>1
<1>4. ASSUME NEW t \in Threads, WriteFails(t) \/ SkippedFails(t) PROVE Course'
  <2>1. /\ todo[t] # <<>> /\ Head(todo[t]).kind = "write" /\ Fail(t) /\ power # "asleep"
        /\ UNCHANGED <<power, restored, off>>
    BY <1>4, FailsIs
  <2>2. (\A u \in Threads : u # t => todo'[u] = todo[u]) /\ op'.kind = op.kind /\ op'.old = op.old
    BY <2>1, FailIs DEF Plans
  <2> QED  BY <1>1, <2>1, <2>2
<1>5. CASE ChipAccess
  BY <1>5 DEF ChipAccess, Course, Fresh, history
<1>6. CASE TaskCalls
  <2>1. PICK kind, f, steps :
            /\ kind \in TaskKinds /\ f \in AllFreqs
            /\ Call(kind, f, steps) /\ Follows(steps, FALSE, {}, FALSE, Achieved(kind, f), kind, f)
    BY <1>6, CallIs
  <2>2. steps \in Seq(Steps) /\ "pm" \in Threads /\ kind # "none"
    BY <2>1 DEF Follows, Threads, TaskKinds
  <2>3. /\ todo'["pm"] = todo["pm"] /\ op.kind = "none" /\ power # "asleep"
        /\ op'.kind = kind /\ (op'.old <=> power # "on")
        /\ off' = (off /\ kind # "up") /\ UNCHANGED <<power, restored>>
    BY <2>1, <2>2, CallEffect
  <2>4. (off' => off) /\ (kind = "up" => ~off')
    BY <2>3, Zenon
  <2> QED  BY <2>2, <2>3, <2>4 DEF Course, Fresh
<1>7. CASE TaskReturns
  <2>1. /\ op' = NoOp /\ todo["task"] = <<>> /\ op.kind # "none" /\ UNCHANGED <<todo, power>>
        /\ off' = (off \/ (op.kind = "down" /\ ~op.failed /\ ~op.old))
        /\ restored' = (restored /\ ~(op.kind \in {"down", "up"} /\ ~op.failed /\ ~op.old))
    BY <1>7, Zenon DEF TaskReturns, window, counts
  <2>2. op'.kind = "none"
    BY <2>1 DEF NoOp
  <2>3. /\ off' => off \/ (op.kind = "down" /\ ~op.failed /\ ~op.old)
        /\ restored' => restored
        /\ restored => restored' \/ (op.kind \in {"down", "up"} /\ ~op.failed /\ ~op.old)
        /\ op.kind = "down" /\ ~op.failed /\ ~op.old => ~restored'
    BY <2>1, Zenon
  <2>4. ~restored' => power' = "on"
    BY <2>1, <2>3 DEF Course, Fresh
  <2>5. off' => ~restored'
    BY <2>3 DEF Course
  <2> QED  BY <2>1, <2>2, <2>4, <2>5 DEF Course, Fresh
<1>8. CASE CardEvent
  <2>1. "pm" \in Threads /\ "task" \in Threads
    BY DEF Threads
  <2>2. todo'["pm"] = todo["pm"] /\ todo'["task"] = todo["task"]
        /\ UNCHANGED <<op, power, off, restored>>
    BY <1>8, <2>1, CardEventIs
  <2> QED  BY <2>2 DEF Course, Fresh
<1>9. CASE Suspend \/ Sleep \/ WakeUp \/ Resume
  <2>1. PICK from, to, steps : /\ PmGoes(from, to, steps)
                               /\ Follows(steps, FALSE, {}, FALSE, {}, "pm", 400)
    BY <1>9, PmIs
  <2>2. steps \in Seq(Steps) /\ "task" \in Threads
    BY <2>1 DEF Follows, Threads
  <2>3. todo'["task"] = todo["task"]
    BY <2>1, <2>2, PmEffect
  <2>4. CASE Suspend
    <3>1. op'.old = TRUE /\ op'.kind = op.kind /\ off' = FALSE /\ restored' = TRUE
      BY <2>4, PmFrame
    <3>2. power' = "saving"
      BY <2>4 DEF Suspend, PmGoes
    <3> QED  BY <2>3, <3>1, <3>2 DEF Course, Fresh
  <2>5. CASE ~Suspend
    <3>1. op' = op /\ UNCHANGED <<off, restored>>
      BY <1>9, <2>5, PmFrame
    <3>2. power # "on"
      BY <1>9, <2>5 DEF Sleep, WakeUp, Resume, PmGoes
    <3>3. restored = TRUE /\ ~Fresh
      BY <3>2 DEF Course, Types
    <3>4. "pm" \in Threads /\ todo \in [Threads -> Seq(Steps)]
      BY DEF Threads, Types
    <3>5. power' \in {"on", "asleep"} => todo'["pm"] = <<>>
      <4>1. \/ PmGoes("saving", "asleep", <<>>)
            \/ power' \in {"init", "restore", "led"}
            \/ PmGoes("led", "on", <<>>)
        BY <1>9, <2>5 DEF Sleep, WakeUp, Resume, PmGoes
      <4>2. <<>> \in Seq(Steps)
        BY SplxIn
      <4> QED  BY <4>1, <4>2, PmEffect
    <3> QED  BY <2>3, <3>1, <3>3, <3>5 DEF Course, Fresh
  <2> QED  BY <2>4, <2>5
<1>10. CASE UNCHANGED vars
  BY <1>10 DEF vars, Course, Fresh, history
<1> QED
  BY <1>2, <1>3, <1>4, <1>5, <1>6, <1>7, <1>8, <1>9, <1>10 DEF Next, ThreadStep, Goes

LEMMA LimitsNext ==
    ASSUME Hardware, Types, Polling, Course, Limits, Plans, [Next]_vars
    PROVE  Limits'
<1>1. ASSUME UNCHANGED <<limit, power>>, op'.kind = op.kind, op'.freq = op.freq, op'.old = op.old
      PROVE  Limits'
  BY <1>1 DEF Limits
<1>2. ASSUME NEW t \in Threads, Goes(t) PROVE Limits'
  BY <1>1, <1>2, GoesIs
<1>3. ASSUME NEW t \in Threads, Issue(t) PROVE Limits'
  BY <1>1, <1>3, IssueIs
<1>4. ASSUME NEW t \in Threads, WriteFails(t) \/ SkippedFails(t) PROVE Limits'
  <2>1. /\ todo[t] # <<>> /\ Head(todo[t]).kind = "write" /\ Fail(t) /\ UNCHANGED <<power, limit>>
    BY <1>4, FailsIs
  <2>2. op'.kind = op.kind /\ op'.freq = op.freq /\ op'.old = op.old
    BY <2>1, FailIs DEF Plans
  <2> QED  BY <1>1, <2>1, <2>2
<1>5. CASE ChipAccess
  BY <1>1, <1>5 DEF ChipAccess, history
<1>6. \A f \in AllFreqs : Speed(f) \in Nat /\ 400 <= Speed(f) /\ Speed(f) <= 51000
  BY Speeds DEF AllFreqs
<1>7. limit \in Nat /\ 400 <= limit /\ limit <= 51000
  BY DEF Limits
<1>8. CASE TaskCalls
  <2>1. PICK kind, f, steps :
            /\ kind \in TaskKinds /\ f \in AllFreqs
            /\ Call(kind, f, steps) /\ Follows(steps, FALSE, {}, FALSE, Achieved(kind, f), kind, f)
    BY <1>8, CallIs
  <2>2. steps \in Seq(Steps)
    BY <2>1 DEF Follows
  <2>3. /\ power' = power /\ op'.kind = kind /\ op'.freq = f /\ (op'.old <=> power # "on")
        /\ limit' = IF kind = "clock" THEN Fastest(limit, Speed(f)) ELSE limit
    BY <2>1, <2>2, CallEffect
  <2>4. Speed(f) \in Nat /\ 400 <= Speed(f) /\ Speed(f) <= 51000
    BY <1>6, <2>1
  <2>5. /\ limit' \in Nat /\ limit' >= limit /\ limit' <= 51000
        /\ kind = "clock" => limit' >= Speed(f)
    <3>1. CASE kind = "clock"
      <4>1. limit' = Fastest(limit, Speed(f))
        BY <2>3, <3>1
      <4> DEFINE s == Speed(f)
      <4>2. s \in Nat /\ s <= 51000 /\ limit' = Fastest(limit, s)
        BY <2>4, <4>1
      <4> HIDE DEF s
      <4>3. limit' \in Nat /\ limit' >= limit /\ limit' >= s /\ limit' \in {limit, s}
        BY <1>7, <4>2, FastestIs
      <4>4. limit' <= 51000
        BY <1>7, <4>2, <4>3
      <4> QED  BY <4>3, <4>4 DEF s
    <3>2. CASE kind # "clock"
      BY <1>7, <2>3, <3>2
    <3> QED  BY <3>1, <3>2
  <2>6. 400 <= limit' /\ (limit = 51000 => limit' = 51000)
    BY <1>7, <2>5
  <2> QED  BY <2>3, <2>5, <2>6 DEF Limits
<1>9. CASE TaskReturns
  <2>1. /\ op' = NoOp /\ op.kind # "none" /\ power' = power
        /\ limit' = IF op.kind = "clock" /\ ~op.failed /\ ~op.old THEN Speed(op.freq) ELSE limit
    BY <1>9 DEF TaskReturns
  <2>2. op'.kind = "none"
    BY <2>1 DEF NoOp
  <2>3. CASE op.kind = "clock" /\ ~op.failed /\ ~op.old
    <3>1. limit' = Speed(op.freq) /\ op.freq \in AllFreqs
      BY <2>1, <2>3 DEF Types
    <3>2. power = "on"
      BY <2>1, <2>3 DEF Course, Fresh
    <3>3. limit' \in Nat /\ 400 <= limit' /\ limit' <= 51000
      BY <1>6, <3>1
    <3> QED  BY <2>1, <2>2, <3>2, <3>3 DEF Limits
  <2>4. CASE ~(op.kind = "clock" /\ ~op.failed /\ ~op.old)
    <3>1. limit' = limit
      BY <2>1, <2>4
    <3> QED  BY <2>1, <2>2, <3>1 DEF Limits
  <2> QED  BY <2>3, <2>4
<1>10. CASE CardEvent
  BY <1>1, <1>10, CardEventIs
<1>11. CASE Suspend \/ Sleep \/ WakeUp \/ Resume
  <2>1. op'.kind = op.kind /\ op'.freq = op.freq
    BY <1>11, PmFrame
  <2>2. CASE WakeUp
    <3>1. limit' = 51000 /\ power' = "init"
      BY <2>2 DEF WakeUp, PmGoes
    <3>2. op'.kind = "clock" => limit' >= Speed(op'.freq)
      BY <1>6, <2>1, <3>1 DEF Types
    <3>3. limit' \in Nat /\ 400 <= limit' /\ limit' <= 51000
      BY <3>1
    <3> QED  BY <3>1, <3>2, <3>3 DEF Limits
  <2>3. CASE ~WakeUp
    <3>1. limit' = limit
      BY <1>11, <2>3, PmFrame
    <3>2. \/ power' \in {"saving", "asleep"}
          \/ power \in {"init", "restore", "led"}
      BY <1>11, <2>3 DEF Suspend, Sleep, Resume, PmGoes
    <3>3. power' \notin {"saving", "asleep"} => limit = 51000
      BY <3>2 DEF Limits
    <3>4. op'.kind = "clock" => limit' >= Speed(op'.freq)
      BY <2>1, <3>1 DEF Limits
    <3> QED  BY <1>7, <3>1, <3>3, <3>4 DEF Limits
  <2> QED  BY <2>2, <2>3
<1>12. CASE UNCHANGED vars
  BY <1>1, <1>12 DEF vars, history
<1> QED
  BY <1>2, <1>3, <1>4, <1>5, <1>8, <1>9, <1>10, <1>11, <1>12 DEF Next, ThreadStep, Goes

-----------------------------------------------------------------------------
(***************************************************************************)
(* What the task thread knows                                              *)
(***************************************************************************)

LEMMA HoldsNothing == \A R : Holds(R, {})
BY DEF Holds

\* A write of the LED changes no register.
LEMMA MiscWritten ==
    ASSUME NEW R, Chip(R), NEW e, e.kind = "write", e.reg = "MISC", Proper(e)
    PROVE  \A r \in Regs : Written(R, e)[r] = R[r]
<1>1. "MISC" \in Regs /\ e.mask = {} /\ e.on = {}
  BY Registers DEF Proper
<1>2. /\ Written(R, e)[e.reg] = (R[e.reg] \ e.mask) \cup e.on
      /\ \A r \in Regs : r # e.reg => Written(R, e)[r] = R[r]
  <2>1. DOMAIN R = Regs /\ e.reg \in Regs
    BY <1>1 DEF Chip
  <2> QED  BY <2>1, WrittenParts
<1>3. Written(R, e)["MISC"] = R["MISC"]
  BY <1>1, <1>2
<1> QED  BY <1>2, <1>3

LEMMA HoldsAlike ==
    ASSUME NEW R, NEW W, \A r \in Regs : W[r] = R[r], NEW K, Holds(R, K)
    PROVE  Holds(W, K)
BY DEF Holds

LEMMA FutureIssue ==
    ASSUME NEW t \in Threads, Types, Plans, Issue(t)
    PROVE  Future' = IF Head(todo[t]).kind = "write" THEN Written(regs, Head(todo[t])) ELSE regs
<1> DEFINE e == Head(todo[t])
<1>1. /\ Proper(e) /\ regs' = regs
      /\ haimr' = [busy |-> TRUE, step |-> Request(e), value |-> {}]
  BY IssueIs
<1> HIDE DEF e
<1>2. haimr'.busy = TRUE /\ haimr'.step = Request(e)
  BY <1>1
<1>3. Request(e).kind = e.kind /\ Written(regs, Request(e)) = Written(regs, e)
  BY <1>1, RequestIs
<1>4. Future' = IF Request(e).kind = "write" THEN Written(regs, Request(e)) ELSE regs
  BY <1>1, <1>2 DEF Future, Written
<1> QED  BY <1>3, <1>4 DEF e

\* The first step of the task thread, and what is known before it
LEMMA KnowsHead ==
    ASSUME Types, Course, Knowledge, todo["task"] # <<>>
    PROVE  \E a \in BOOLEAN : \E K, c, M, L :
               /\ StepOK(Head(todo["task"]), a, K, c, M, op.kind, op.freq) /\ c \in BOOLEAN
               /\ KnowOK(Head(todo["task"]), K, M, op.kind, op.freq)
               /\ Follows(Tail(todo["task"]), c, M, FALSE, L, op.kind, op.freq)
               /\ op.failed \/ Achieved(op.kind, op.freq) \subseteq L
               /\ Fresh /\ ~overlap => Known(K)
<1> DEFINE e == Head(todo["task"])
<1>1. PICK a \in BOOLEAN : \E K, L : Knows(a, K, L)
  BY DEF Knowledge
<1>2. PICK K, L : Knows(a, K, L)
  BY <1>1
<1>3. /\ Follows(todo["task"], a, K, FALSE, L, op.kind, op.freq)
      /\ op.failed \/ Achieved(op.kind, op.freq) \subseteq L
      /\ Fresh /\ ~overlap => Known(K)
  BY <1>2 DEF Knows
<1>4. PICK c, M : /\ StepOK(e, a, K, c, M, op.kind, op.freq)
                  /\ Follows(Tail(todo["task"]), c, M, FALSE, L, op.kind, op.freq)
  BY <1>3, FollowsTail
<1>5. op.kind \in TaskKinds
  BY DEF Types, Course
<1>6. KnowOK(e, K, M, op.kind, op.freq) /\ LockOK(e, a, c, op.kind)
  BY <1>4, <1>5 DEF StepOK
<1>7. c \in BOOLEAN
  BY <1>6 DEF LockOK
<1> QED  BY <1>3, <1>4, <1>6, <1>7

\* Nothing that the task thread knows of changes.
LEMMA KnowledgeSame ==
    ASSUME Knowledge, todo'["task"] = todo["task"],
           op'.kind = op.kind, op'.freq = op.freq, op'.failed = op.failed, Fresh' => Fresh,
           overlap => overlap', "task" \in polling' <=> "task" \in polling,
           Fresh => UNCHANGED <<regs, haimr>>
    PROVE  Knowledge'
<1>1. PICK a \in BOOLEAN : \E K, L : Knows(a, K, L)
  BY DEF Knowledge
<1>2. PICK K, L : Knows(a, K, L)
  BY <1>1
<1>3. /\ Follows(todo["task"], a, K, FALSE, L, op.kind, op.freq)
      /\ op.failed \/ Achieved(op.kind, op.freq) \subseteq L
      /\ Fresh /\ ~overlap => Known(K)
  BY <1>2 DEF Knows
<1>4. Fresh' /\ ~overlap' => Known(K)'
  <2> SUFFICES ASSUME Fresh', ~overlap' PROVE Known(K)'
    OBVIOUS
  <2>1. Known(K) /\ UNCHANGED <<regs, haimr>>
    BY <1>3
  <2>2. Future' = Future
    BY <2>1 DEF Future, Written
  <2> QED  BY <2>1, <2>2 DEF Known
<1>5. Follows(todo'["task"], a, K, FALSE, L, op'.kind, op'.freq)
      /\ (op'.failed \/ Achieved(op'.kind, op'.freq) \subseteq L)
  BY <1>3
<1>6. Knows(a, K, L)'
  BY <1>4, <1>5 DEF Knows
<1> QED  BY <1>6 DEF Knowledge

LEMMA KnowsNew ==
    ASSUME NEW a \in BOOLEAN, NEW K, NEW L,
           Follows(todo'["task"], a, K, FALSE, L, op'.kind, op'.freq),
           op'.failed \/ Achieved(op'.kind, op'.freq) \subseteq L,
           Fresh' /\ ~overlap' => Known(K)'
    PROVE  Knowledge'
<1>1. Knows(a, K, L)'
  BY DEF Knows
<1> QED  BY <1>1 DEF Knowledge

\* Only the thread of setPowerState reads, saves and restores, and an operation
\* of the task thread has seen no sleep only while that thread has nothing to do.
LEMMA PmNotFresh ==
    ASSUME Course, todo["pm"] # <<>>
    PROVE  ~Fresh /\ power # "on" /\ restored
BY DEF Course

LEMMA KnowledgeGoes ==
    ASSUME Hardware, Types, Polling, Course, Plans, Knowledge, NEW t \in Threads, Goes(t)
    PROVE  Knowledge'
<1>1. /\ todo[t] # <<>> /\ Advance(t) /\ polling' = polling \ {t} /\ UNCHANGED <<regs, op>>
      /\ RestoreWindow(t) \/ (UNCHANGED <<haimr, overlap>> /\ (overlap => overlap'))
  BY GoesIs
<1>2. todo'[t] = Tail(todo[t]) /\ \A u \in Threads : u # t => todo'[u] = todo[u]
  BY <1>1, AdvanceIs
<1>3. RestoreWindow(t) => t = "pm"
  <2>1. RestoreWindow(t) => Head(todo[t]).kind = "restore"
    BY DEF RestoreWindow, Head1
  <2> QED  BY <1>1, <2>1, HeadIs DEF Plans
<1>4. overlap => overlap'
  BY <1>1, GoesIs
<1>5. Fresh' <=> Fresh
  BY <1>1 DEF Fresh
<1>6. CASE t # "task"
  <2>1. todo'["task"] = todo["task"]
    BY <1>2, <1>6 DEF Threads
  <2>2. Fresh => UNCHANGED <<regs, haimr>>
    BY <1>1, <1>3, PmNotFresh
  <2> QED  BY <1>1, <1>4, <1>5, <1>6, <2>1, <2>2, KnowledgeSame
<1>7. CASE t = "task"
  <2> DEFINE e == Head(todo["task"])
  <2>1. PICK a \in BOOLEAN : \E K, c, M, L :
               /\ StepOK(e, a, K, c, M, op.kind, op.freq) /\ c \in BOOLEAN
               /\ KnowOK(e, K, M, op.kind, op.freq)
               /\ Follows(Tail(todo["task"]), c, M, FALSE, L, op.kind, op.freq)
               /\ op.failed \/ Achieved(op.kind, op.freq) \subseteq L
               /\ Fresh /\ ~overlap => Known(K)
    BY <1>1, <1>7, KnowsHead
  <2>2. PICK K, c, M, L :
               /\ StepOK(e, a, K, c, M, op.kind, op.freq) /\ c \in BOOLEAN
               /\ KnowOK(e, K, M, op.kind, op.freq)
               /\ Follows(Tail(todo["task"]), c, M, FALSE, L, op.kind, op.freq)
               /\ op.failed \/ Achieved(op.kind, op.freq) \subseteq L
               /\ Fresh /\ ~overlap => Known(K)
    BY <2>1
  <2>3. \/ e.kind \in {"lock", "unlock"} /\ M \subseteq K
        \/ e.kind = "write" /\ M \subseteq After(K, e)
    BY <2>2 DEF KnowOK
  <2>4. UNCHANGED <<haimr, overlap>>
    BY <1>1, <1>3, <1>7
  <2>5. "task" \notin polling'
    BY <1>1, <1>7
  <2>6. ASSUME Fresh, ~overlap PROVE Holds(regs, M) /\ Holds(Future, M)
    <3>1. Known(K)
      BY <2>2, <2>6
    <3>2. CASE e.kind \in {"lock", "unlock"} /\ M \subseteq K
      <4>1. "task" \notin polling
        BY <3>2 DEF Polling
      <4>2. Holds(regs, K) /\ Holds(Future, K)
        BY <3>1, <4>1 DEF Known
      <4> QED  BY <3>2, <4>2, HoldsFewer
    <3>3. CASE e.kind = "write" /\ M \subseteq After(K, e)
      <4>1. "task" \in polling /\ ~haimr.busy
        BY <1>7, <3>3 DEF Goes, LockStep, UnlockStep, SaveWindow, RestoreWindow, PollRead,
             PollWrite, Head1
      <4>2. Future = regs
        BY <4>1 DEF Future
      <4>3. Holds(Future, After(K, e))
        BY <3>1, <4>1 DEF Known
      <4>4. Holds(Future, M)
        BY <3>3, <4>3, HoldsFewer
      <4> QED  BY <4>2, <4>4
    <3> QED  BY <2>3, <3>2, <3>3
  <2>7. Fresh' /\ ~overlap' => Known(M)'
    <3> SUFFICES ASSUME Fresh', ~overlap' PROVE Known(M)'
      OBVIOUS
    <3>1. Holds(regs, M) /\ Holds(Future, M)
      BY <1>5, <2>4, <2>6
    <3>2. Future' = Future /\ regs' = regs
      BY <1>1, <2>4 DEF Future, Written
    <3> QED  BY <2>5, <3>1, <3>2 DEF Known
  <2>8. Follows(todo'["task"], c, M, FALSE, L, op'.kind, op'.freq)
        /\ (op'.failed \/ Achieved(op'.kind, op'.freq) \subseteq L)
    BY <1>1, <1>2, <1>7, <2>2
  <2> QED  BY <2>2, <2>7, <2>8, KnowsNew
<1> QED  BY <1>6, <1>7

LEMMA KnowledgeIssue ==
    ASSUME Hardware, Types, Polling, Course, Plans, Knowledge, NEW t \in Threads, Issue(t)
    PROVE  Knowledge'
<1>1. /\ todo[t] # <<>> /\ Head(todo[t]).kind \in {"read", "write"} /\ Proper(Head(todo[t]))
      /\ overlap' = (overlap \/ polling \ {t} # {}) /\ t \notin polling
      /\ polling' = polling \cup {t}
      /\ UNCHANGED <<regs, todo, op>>
  BY IssueIs
<1>2. (overlap => overlap') /\ (~overlap' => polling \ {t} = {})
  BY <1>1, Zenon
<1>3. Fresh' <=> Fresh
  BY <1>1 DEF Fresh
<1>4. CASE t = "pm"
  <2>1. ~Fresh
    BY <1>1, <1>4, PmNotFresh
  <2> QED  BY <1>1, <1>2, <1>3, <1>4, <2>1, KnowledgeSame
<1>5. CASE t # "pm"
  <2> DEFINE e == Head(todo[t])
  <2>1. e.kind = "write" /\ Proper(e)
    BY <1>1, <1>5, HeadIs DEF Plans
  <2>2. Future' = Written(regs, e)
    BY <2>1, FutureIssue
  <2>3. PICK a \in BOOLEAN : \E K, L : Knows(a, K, L)
    BY DEF Knowledge
  <2>4. PICK K, L : Knows(a, K, L)
    BY <2>3
  <2>5. /\ Follows(todo["task"], a, K, FALSE, L, op.kind, op.freq)
        /\ op.failed \/ Achieved(op.kind, op.freq) \subseteq L
        /\ Fresh /\ ~overlap => Known(K)
    BY <2>4 DEF Knows
  <2>6. ASSUME Fresh', ~overlap' PROVE Known(K)'
    <3>1. Known(K) /\ polling \ {t} = {} /\ "task" \notin polling
      BY <1>1, <1>2, <1>3, <2>5, <2>6
    <3>2. Holds(regs, K) /\ Chip(regs)
      BY <3>1 DEF Known, Hardware
    <3>3. CASE t = "task"
      <4>1. Holds(Written(regs, e), After(K, e))
        BY <2>1, <3>2, HoldsAfter DEF Chip
      <4>2. "task" \in polling' /\ Head(todo'["task"]) = e
        BY <1>1, <3>3
      <4> HIDE DEF e
      <4> QED  BY <1>1, <2>2, <3>2, <4>1, <4>2 DEF Known
    <3>4. CASE t # "task"
      <4>1. t = "intr"
        BY <1>5, <3>4 DEF Threads
      <4>2. e.reg = "MISC"
        BY <1>1, <4>1, HeadIs DEF Plans
      <4>3. Holds(Written(regs, e), K)
        BY <2>1, <3>2, <4>2, MiscWritten, HoldsAlike
      <4>4. "task" \notin polling'
        BY <1>1, <3>1, <3>4
      <4> QED  BY <1>1, <2>2, <3>2, <4>3, <4>4 DEF Known
    <3> QED  BY <3>3, <3>4
  <2>7. Follows(todo'["task"], a, K, FALSE, L, op'.kind, op'.freq)
        /\ (op'.failed \/ Achieved(op'.kind, op'.freq) \subseteq L)
    BY <1>1, <2>5
  <2> QED  BY <2>6, <2>7, KnowsNew
<1> QED  BY <1>4, <1>5

LEMMA KnowledgeFails ==
    ASSUME Hardware, Types, Polling, Course, Plans, Knowledge, NEW t \in Threads,
           WriteFails(t) \/ SkippedFails(t)
    PROVE  Knowledge'
<1> DEFINE e == Head(todo[t])
<1>1. /\ todo[t] # <<>> /\ e.kind = "write" /\ Fail(t) /\ polling' = polling \ {t}
      /\ UNCHANGED <<regs, haimr, overlap>>
  BY FailsIs
<1>2. /\ \A u \in Threads : u # t => todo'[u] = todo[u]
      /\ \/ e.onfail = "ignore" /\ t = "pm" /\ todo'[t] = Tail(todo[t])
         \/ e.onfail \in {"unlock", "done"} /\ t # "intr" /\ todo'[t] = Splx
         \/ e.onfail = "return" /\ todo'[t] = <<>>
      /\ op'.kind = op.kind /\ op'.freq = op.freq /\ op'.old = op.old
      /\ op'.failed <=> (op.failed \/ (t = "task" /\ e.onfail \in {"unlock", "return"}))
      /\ op' \in [kind : TaskKinds \cup {"none"}, freq : AllFreqs, failed : BOOLEAN, old : BOOLEAN]
  BY <1>1, FailIs DEF Plans
<1>3. (Fresh' <=> Fresh) /\ op.failed \in BOOLEAN /\ op'.failed \in BOOLEAN
  BY <1>2 DEF Fresh, Types
<1> HIDE DEF e
<1>4. CASE t # "task"
  <2>1. op'.failed = op.failed
    BY <1>2, <1>3, <1>4
  <2>2. todo'["task"] = todo["task"]
    BY <1>2, <1>4 DEF Threads
  <2> QED  BY <1>1, <1>2, <1>3, <1>4, <2>1, <2>2, KnowledgeSame
<1>5. CASE t = "task" /\ e.onfail \in {"unlock", "return"}
  <2>1. op'.failed = TRUE /\ todo'["task"] \in {Splx, <<>>} /\ "task" \notin polling'
    BY <1>1, <1>2, <1>3, <1>5
  <2>2. Known({})'
    BY <2>1, HoldsNothing DEF Known
  <2>3. CASE todo'["task"] = Splx
    <3>1. op.kind # "led"
      BY DEF Types, TaskKinds
    <3>2. Follows(Splx, TRUE, {}, FALSE, {}, op.kind, op.freq)
      BY <3>1, FollowsSplx
    <3>3. Follows(todo'["task"], TRUE, {}, FALSE, {}, op'.kind, op'.freq)
      BY <1>2, <2>3, <3>2
    <3> QED  BY <2>1, <2>2, <3>3, KnowsNew
  <2>4. CASE todo'["task"] = <<>>
    <3> DEFINE b == FALSE
    <3>1. b \in BOOLEAN
      OBVIOUS
    <3> HIDE DEF b
    <3>2. Follows(<<>>, b, {}, b, {}, op'.kind, op'.freq)
      BY FollowsEmpty
    <3>3. Follows(todo'["task"], FALSE, {}, FALSE, {}, op'.kind, op'.freq)
      BY <2>4, <3>2 DEF b
    <3> QED  BY <2>1, <2>2, <3>3, KnowsNew
  <2> QED  BY <2>1, <2>3, <2>4
<1>6. CASE t = "task" /\ e.onfail \notin {"unlock", "return"}
  <2>1. e.onfail = "done" /\ todo'["task"] = Splx /\ op'.failed = op.failed /\ "task" \notin polling'
    BY <1>1, <1>2, <1>3, <1>6
  <2>2. PICK a \in BOOLEAN : \E K, c, M, L :
               /\ KnowOK(e, K, M, op.kind, op.freq)
               /\ Fresh /\ ~overlap => Known(K)
    BY <1>1, <1>6, KnowsHead DEF e
  <2>3. PICK K, M : /\ KnowOK(e, K, M, op.kind, op.freq)
                    /\ Fresh /\ ~overlap => Known(K)
    BY <2>2
  <2>0. PICK A : A = Achieved(op.kind, op.freq)
    OBVIOUS
  <2>4. A \subseteq K /\ Harmless(e, A)
    BY <1>1, <2>0, <2>1, <2>3 DEF KnowOK
  <2>5. A \subseteq After(K, e)
    BY <2>4 DEF Harmless, After
  <2>6. ASSUME Fresh', ~overlap' PROVE Known(A)'
    <3>1. Known(K)
      BY <1>1, <1>3, <2>3, <2>6
    <3>2. Future' = Future /\ regs' = regs
      BY <1>1 DEF Future, Written
    <3>3. CASE "task" \in polling
      <4>1. Holds(Future, After(K, e)) /\ (haimr.busy => Holds(regs, K))
        BY <1>6, <3>1, <3>3 DEF Known, e
      <4>2. Holds(Future, A)
        BY <2>5, <4>1, HoldsFewer
      <4>3. Holds(regs, A)
        <5>1. CASE haimr.busy
          BY <2>4, <4>1, <5>1, HoldsFewer
        <5>2. CASE ~haimr.busy
          <6>1. Future = regs
            BY <5>2 DEF Future
          <6> QED  BY <4>2, <6>1
        <5> QED  BY <5>1, <5>2
      <4> QED  BY <2>1, <3>2, <4>2, <4>3 DEF Known
    <3>4. CASE "task" \notin polling
      <4>1. Holds(regs, K) /\ Holds(Future, K)
        BY <3>1, <3>4 DEF Known
      <4>2. Holds(regs, A) /\ Holds(Future, A)
        BY <2>4, <4>1, HoldsFewer
      <4> QED  BY <2>1, <3>2, <4>2 DEF Known
    <3> QED  BY <3>3, <3>4
  <2>7. op.kind # "led"
    BY DEF Types, TaskKinds
  <2>8. Follows(Splx, TRUE, A, FALSE, A, op.kind, op.freq)
    BY <2>7, FollowsSplx
  <2>9. Follows(todo'["task"], TRUE, A, FALSE, A, op'.kind, op'.freq)
    BY <1>2, <2>1, <2>8
  <2>10. Achieved(op'.kind, op'.freq) \subseteq A
    BY <1>2, <2>0
  <2> QED  BY <2>6, <2>9, <2>10, KnowsNew
<1> QED  BY <1>4, <1>5, <1>6

LEMMA KnowledgeNext ==
    ASSUME Hardware, Types, Polling, Course, Plans, Knowledge, [Next]_vars
    PROVE  Knowledge'
<1>1. ASSUME NEW t \in Threads, Goes(t) PROVE Knowledge'
  BY <1>1, KnowledgeGoes
<1>2. ASSUME NEW t \in Threads, Issue(t) PROVE Knowledge'
  BY <1>2, KnowledgeIssue
<1>3. ASSUME NEW t \in Threads, WriteFails(t) \/ SkippedFails(t) PROVE Knowledge'
  BY <1>3, KnowledgeFails
<1>4. CASE ChipAccess
  <2>1. regs' = Future /\ Future' = regs' /\ haimr'.busy = FALSE
        /\ UNCHANGED <<polling, todo, op, overlap>>
    BY <1>4, ChipAccessIs DEF ChipAccess, history
  <2>2. PICK a \in BOOLEAN : \E K, L : Knows(a, K, L)
    BY DEF Knowledge
  <2>3. PICK K, L : Knows(a, K, L)
    BY <2>2
  <2>4. /\ Follows(todo["task"], a, K, FALSE, L, op.kind, op.freq)
        /\ op.failed \/ Achieved(op.kind, op.freq) \subseteq L
        /\ Fresh /\ ~overlap => Known(K)
    BY <2>3 DEF Knows
  <2>5. Known(K) => Known(K)'
    BY <2>1 DEF Known
  <2>6. Fresh' /\ ~overlap' => Known(K)'
    BY <2>1, <2>4, <2>5 DEF Fresh
  <2>7. Follows(todo'["task"], a, K, FALSE, L, op'.kind, op'.freq)
        /\ (op'.failed \/ Achieved(op'.kind, op'.freq) \subseteq L)
    BY <2>1, <2>4
  <2> QED  BY <2>6, <2>7, KnowsNew
<1>5. CASE TaskCalls
  <2>1. PICK kind, f, steps :
            /\ kind \in TaskKinds /\ f \in AllFreqs
            /\ Call(kind, f, steps) /\ Follows(steps, FALSE, {}, FALSE, Achieved(kind, f), kind, f)
    BY <1>5, CallIs
  <2>2. steps \in Seq(Steps)
    BY <2>1 DEF Follows
  <2>3. /\ todo["task"] = <<>> /\ todo'["task"] = steps /\ op'.kind = kind /\ op'.freq = f
        /\ polling' = polling
    BY <2>1, <2>2, CallEffect
  <2>4. "task" \notin polling'
    BY <2>3 DEF Polling
  <2>5. Known({})'
    BY <2>4, HoldsNothing DEF Known
  <2>6. Follows(todo'["task"], FALSE, {}, FALSE, Achieved(kind, f), op'.kind, op'.freq)
        /\ Achieved(op'.kind, op'.freq) \subseteq Achieved(kind, f)
    BY <2>1, <2>3
  <2> QED  BY <2>5, <2>6, KnowsNew
<1>6. CASE TaskReturns
  <2>1. op' = NoOp /\ todo'["task"] = <<>>
    BY <1>6 DEF TaskReturns
  <2>2. op'.kind = "none" /\ ~Fresh' /\ Achieved(op'.kind, op'.freq) = {}
    BY <2>1 DEF NoOp, Fresh, Achieved
  <2> DEFINE b == FALSE
  <2>3. b \in BOOLEAN
    OBVIOUS
  <2> HIDE DEF b
  <2>4. Follows(<<>>, b, {}, b, {}, op'.kind, op'.freq)
    BY FollowsEmpty
  <2>5. Follows(todo'["task"], FALSE, {}, FALSE, {}, op'.kind, op'.freq)
    BY <2>1, <2>4 DEF b
  <2> QED  BY <2>2, <2>5, KnowsNew
<1>7. CASE CardEvent
  <2>1. /\ \A u \in Threads : u # "intr" => todo'[u] = todo[u]
        /\ UNCHANGED <<regs, haimr, polling, op, overlap>>
    BY <1>7, CardEventIs
  <2>2. todo'["task"] = todo["task"] /\ (Fresh' <=> Fresh)
    BY <2>1 DEF Threads, Fresh
  <2> QED  BY <2>1, <2>2, KnowledgeSame
<1>8. CASE Suspend \/ Sleep \/ WakeUp \/ Resume
  <2>1. PICK from, to, steps : /\ PmGoes(from, to, steps)
                               /\ Follows(steps, FALSE, {}, FALSE, {}, "pm", 400)
    BY <1>8, PmIs
  <2>2. steps \in Seq(Steps) /\ "task" \in Threads
    BY <2>1 DEF Follows, Threads
  <2>3. todo'["task"] = todo["task"]
    BY <2>1, <2>2, PmEffect
  <2>4. /\ UNCHANGED <<polling, overlap>> /\ op'.kind = op.kind /\ op'.freq = op.freq
        /\ op'.failed = op.failed /\ (Suspend => op'.old = TRUE) /\ (Suspend \/ op' = op)
        /\ WakeUp \/ UNCHANGED <<regs, haimr>>
    BY <1>8, PmFrame
  <2>5. Fresh' => Fresh
    BY <2>4 DEF Fresh
  <2>6. Fresh => UNCHANGED <<regs, haimr>>
    <3>1. WakeUp => power # "on"
      BY DEF WakeUp, PmGoes
    <3> QED  BY <2>4, <3>1 DEF Course
  <2> QED  BY <2>3, <2>4, <2>5, <2>6, KnowledgeSame
<1>9. CASE UNCHANGED vars
  <2>1. UNCHANGED <<regs, haimr, todo, polling, op, overlap>>
    BY <1>9 DEF vars, window, history
  <2> QED  BY <2>1, KnowledgeSame DEF Fresh
<1> QED
  BY <1>1, <1>2, <1>3, <1>4, <1>5, <1>6, <1>7, <1>8, <1>9 DEF Next, ThreadStep, Goes

-----------------------------------------------------------------------------
(***************************************************************************)
(* The registers are safe                                                  *)
(***************************************************************************)

LEMMA FutureChip ==
    ASSUME Hardware
    PROVE  Chip(Future)
<1>1. Chip(regs) /\ Proper(haimr.step)
  BY DEF Hardware, Window
<1>2. CASE haimr.busy /\ haimr.step.kind = "write"
  <2>1. Future = Written(regs, haimr.step)
    BY <1>2 DEF Future
  <2> QED  BY <1>1, <1>2, <2>1, ChipWritten
<1>3. CASE ~(haimr.busy /\ haimr.step.kind = "write")
  <2>1. Future = regs
    BY <1>3 DEF Future
  <2> QED  BY <1>1, <2>1
<1> QED  BY <1>2, <1>3

\* Nothing that is claimed of the registers changes.
LEMMA SafeSame ==
    ASSUME Safe, UNCHANGED <<regs, haimr, limit, power>>,
           off' => off, overlap => overlap', restored => restored'
    PROVE  Safe'
<1>1. Future' = Future
  BY DEF Future, Written
<1>2. Undisturbed' => Undisturbed
  BY DEF Undisturbed
<1>3. /\ OutputOK(regs)' <=> OutputOK(regs)
      /\ OutputOK(Future)' <=> OutputOK(Future)
      /\ OffOK(regs)' <=> OffOK(regs)
      /\ OffOK(Future)' <=> OffOK(Future)
      /\ SpeedOK(regs)' <=> SpeedOK(regs)
      /\ SpeedOK(Future)' <=> SpeedOK(Future)
  BY <1>1 DEF OutputOK, OffOK, SpeedOK
<1> QED  BY <1>2, <1>3 DEF Safe

\* Nothing is claimed after a sleep until the system is up again.
LEMMA SafeAsleep ==
    ASSUME restored' = TRUE, power' # "on"
    PROVE  Safe'
BY DEF Safe, Undisturbed

LEMMA Alike ==
    ASSUME NEW R, NEW W, \A r \in Regs : W[r] = R[r]
    PROVE  /\ OutputOK(R) => OutputOK(W)
           /\ OffOK(R) => OffOK(W)
           /\ SpeedOK(R) => SpeedOK(W)
<1>1. /\ W["OE"] = R["OE"] /\ W["PWR"] = R["PWR"] /\ W["CLK_EN"] = R["CLK_EN"]
      /\ W["CLK_CTL"] = R["CLK_CTL"] /\ W["CFG1"] = R["CFG1"]
      /\ W["DIV_N"] = R["DIV_N"] /\ W["CLK_DIV"] = R["CLK_DIV"]
  BY Registers
<1>2. Raw(W) = Raw(R) /\ Bus(W) = Bus(R)
  BY <1>1 DEF Raw, Bus
<1> QED  BY <1>1, <1>2 DEF OutputOK, OffOK, SpeedOK

\* At the highest limit every clock is slow enough.
LEMMA SpeedAtMost ==
    ASSUME NEW R, Chip(R), limit = 51000
    PROVE  SpeedOK(R)
<1>1. Raw(R) \in Nat /\ Raw(R) <= 51000 /\ Bus(R) <= 51000
  BY RawRange
<1>2. Fastest(51000, 10250) = 51000
  BY DEF Fastest
<1> QED  BY <1>1, <1>2 DEF SpeedOK

\* With a higher limit what was slow enough still is.
LEMMA SpeedHigher ==
    ASSUME NEW R, Chip(R), NEW l \in Nat, NEW m \in Nat, l <= m,
           Bus(R) <= l, Raw(R) <= Fastest(l, 10250)
    PROVE  Bus(R) <= m /\ Raw(R) <= Fastest(m, 10250)
<1>1. Raw(R) \in Nat /\ Bus(R) \in Nat
  BY RawRange
<1>2. Fastest(l, 10250) \in {l, 10250} /\ Fastest(m, 10250) >= m /\ Fastest(m, 10250) >= 10250
      /\ Fastest(m, 10250) \in Nat
  BY DEF Fastest
<1> QED  BY <1>1, <1>2

\* The clock that rtsx_bus_clock achieves
LEMMA SpeedDone ==
    ASSUME NEW R, Chip(R), NEW f \in AllFreqs, Holds(R, Achieved("clock", f))
    PROVE  Bus(R) <= Speed(f) /\ Raw(R) <= Fastest(Speed(f), 10250)
<1>1. Div128(f) \in Achieved("clock", f) /\ RowDiv(f) \in Achieved("clock", f)
      /\ RowN(f) \in Achieved("clock", f)
  BY DEF Achieved
<1>2. R["CFG1"] \cap {"div128"} = IF f = 400 THEN {"div128"} ELSE {}
  BY <1>1, Facts DEF Holds
<1>3. R["CLK_DIV"] \cap {2, 4, 8} = {Row(f).div} /\ R["DIV_N"] \cap {80, 100} = {Row(f).n}
  BY <1>1, Facts DEF Holds
<1>4. PICK n \in {80, 100} : R["DIV_N"] = {n}
  BY DEF Chip
<1>5. PICK d \in {2, 4, 8} : R["CLK_DIV"] = {d}
  BY DEF Chip
<1>6. n = Row(f).n /\ d = Row(f).div
  BY <1>3, <1>4, <1>5
<1>7. Raw(R) = Ssc(Row(f).n, Row(f).div)
  BY <1>4, <1>5, <1>6, RawIs
<1>8. Bus(R) = 400 \/ Bus(R) = Raw(R)
  BY DEF Bus
<1>9. CASE f = 400
  <2>1. Raw(R) = 10250
    BY <1>7, <1>9, Rows, Clocks
  <2>2. Bus(R) = 400
    <3>1. "div128" \in R["CFG1"]
      BY <1>2, <1>9
    <3> QED  BY <3>1 DEF Bus
  <2>3. Speed(f) = 400
    BY <1>9, Speeds
  <2>4. Fastest(400, 10250) = 10250
    BY DEF Fastest
  <2> QED  BY <2>1, <2>2, <2>3, <2>4
<1>10. CASE f = 25000
  <2>1. Raw(R) = 25500
    BY <1>7, <1>10, Rows, Clocks
  <2>2. Speed(f) = 25500
    BY <1>10, Speeds
  <2>3. Fastest(25500, 10250) = 25500
    BY DEF Fastest
  <2> QED  BY <1>8, <2>1, <2>2, <2>3
<1>11. CASE f = 50000
  <2>1. Raw(R) = 51000
    BY <1>7, <1>11, Rows, Clocks
  <2>2. Speed(f) = 51000
    BY <1>11, Speeds
  <2>3. Fastest(51000, 10250) = 51000
    BY DEF Fastest
  <2> QED  BY <1>8, <2>1, <2>2, <2>3
<1> QED  BY <1>9, <1>10, <1>11 DEF AllFreqs

\* What rtsx_bus_power achieves
LEMMA PowerDone ==
    ASSUME NEW R, Chip(R), NEW f
    PROVE  /\ Holds(R, Achieved("down", f)) => OffOK(R) /\ OutputOK(R)
           /\ Holds(R, Achieved("up", f)) => OutputOK(R)
<1>1. R["OE"] \subseteq {"out"} /\ R["PWR"] \subseteq {0, 1} /\ R["CLK_EN"] \subseteq {"sd"}
  BY Registers DEF Chip
<1>2. ASSUME Holds(R, Achieved("down", f)) PROVE OffOK(R) /\ OutputOK(R)
  <2>1. NoClock \in Achieved("down", f) /\ NoOut \in Achieved("down", f)
        /\ NoPower \in Achieved("down", f)
    BY DEF Achieved
  <2>2. R["OE"] \cap {"out"} = {} /\ R["PWR"] \cap {0, 1} = {0, 1} /\ R["CLK_EN"] \cap {"sd"} = {}
    BY <1>2, <2>1, Facts DEF Holds
  <2>3. R["OE"] = {} /\ R["PWR"] = {0, 1} /\ R["CLK_EN"] = {}
    BY <1>1, <2>2
  <2> QED  BY <2>3 DEF OffOK, OutputOK, SD_PWR_OFF
<1>3. ASSUME Holds(R, Achieved("up", f)) PROVE OutputOK(R)
  <2>1. Power \in Achieved("up", f)
    BY DEF Achieved
  <2>2. R["PWR"] \cap {0, 1} = {}
    BY <1>3, <2>1, Facts DEF Holds
  <2>3. R["PWR"] = {}
    BY <1>1, <2>2
  <2> QED  BY <2>3 DEF OutputOK
<1> QED  BY <1>2, <1>3

\* The task thread puts a write in the window.
LEMMA SafeTaskIssue ==
    ASSUME Hardware, Types, Polling, Course, Limits, Plans, Knowledge, Safe, Issue("task")
    PROVE  Safe'
<1> DEFINE e == Head(todo["task"])
<1>0. "task" \in Threads
  BY DEF Threads
<1>1. /\ todo["task"] # <<>> /\ overlap' = (overlap \/ polling \ {"task"} # {}) /\ "task" \notin polling
      /\ UNCHANGED <<regs, op, power, limit, off, restored>>
  BY <1>0, IssueIs
<1>2. e.kind = "write" /\ Proper(e)
  BY <1>0, <1>1, IssueIs, HeadIs DEF Plans
<1>3. Future' = Written(regs, e)
  BY <1>0, <1>2, FutureIssue
<1>4. (overlap => overlap') /\ op.kind # "none" /\ Chip(regs)
  BY <1>1, Zenon DEF Course, Hardware
<1>5. PICK a \in BOOLEAN : \E K, c, M, L :
             /\ KnowOK(e, K, M, op.kind, op.freq)
             /\ Fresh /\ ~overlap => Known(K)
  BY <1>1, KnowsHead
<1>6. PICK K, M : /\ KnowOK(e, K, M, op.kind, op.freq)
                  /\ Fresh /\ ~overlap => Known(K)
  BY <1>5
<1>7. PICK W : W = Written(regs, e)
  OBVIOUS
<1>8. PICK k, f : k = op.kind /\ f = op.freq
  OBVIOUS
<1>9. Allowed(e, K, k, f)
  BY <1>2, <1>6, <1>8 DEF KnowOK
<1>10. Fresh /\ ~overlap => Holds(regs, K)
  BY <1>1, <1>6 DEF Known
<1> HIDE DEF e
<1>11. Future' = W /\ Chip(W)
  BY <1>2, <1>3, <1>4, <1>7, ChipWritten
<1>12. ASSUME Undisturbed' PROVE (OutputOK(regs) /\ OutputOK(Future))'
  <2>1. Undisturbed /\ ~overlap /\ ~restored
    BY <1>1, <1>4, <1>12 DEF Undisturbed
  <2>2. Fresh
    BY <1>4, <2>1 DEF Course, Fresh
  <2>3. OutputOK(regs) /\ Holds(regs, K)
    BY <1>10, <2>1, <2>2 DEF Safe
  <2>4. OutputOK(W)
    BY <1>2, <1>4, <1>7, <1>9, <2>3, OutputWritten
  <2> QED  BY <1>1, <1>11, <2>3, <2>4 DEF OutputOK
<1>13. ASSUME Undisturbed', off' PROVE (OffOK(regs) /\ OffOK(Future))'
  <2>1. Undisturbed /\ ~overlap /\ ~restored /\ off
    BY <1>1, <1>4, <1>13 DEF Undisturbed
  <2>2. Fresh /\ k # "up"
    BY <1>4, <1>8, <2>1 DEF Course, Fresh
  <2>3. OffOK(regs) /\ Holds(regs, K)
    BY <1>10, <2>1, <2>2 DEF Safe
  <2>4. OffOK(W)
    BY <1>2, <1>4, <1>7, <1>9, <2>2, <2>3, OutputWritten
  <2> QED  BY <1>1, <1>11, <2>3, <2>4 DEF OffOK
<1>14. ASSUME ~overlap', power' = "on" PROVE (SpeedOK(regs) /\ SpeedOK(Future))'
  <2>1. ~overlap /\ power = "on"
    BY <1>1, <1>4, <1>14
  <2>2. SpeedOK(regs)
    BY <2>1 DEF Safe
  <2>3. SpeedOK(W)
    <3>1. CASE Fresh
      <4>1. Holds(regs, K)
        BY <1>10, <2>1, <3>1
      <4>2. Ceiling(k, f) /\ f \in AllFreqs
        BY <1>8 DEF Ceiling, Limits, Types
      <4> QED  BY <1>2, <1>4, <1>7, <1>9, <2>2, <4>1, <4>2, SpeedWritten
    <3>2. CASE ~Fresh
      <4>1. limit = 51000
        BY <1>4, <2>1, <3>2 DEF Fresh, Limits
      <4> QED  BY <1>11, <4>1, SpeedAtMost
    <3> QED  BY <3>1, <3>2
  <2> QED  BY <1>1, <1>11, <2>2, <2>3 DEF SpeedOK
<1> QED  BY <1>12, <1>13, <1>14 DEF Safe

LEMMA SafeReturn ==
    ASSUME Hardware, Types, Polling, Course, Limits, Knowledge, Safe, TaskReturns
    PROVE  Safe'
<1>1. /\ todo["task"] = <<>> /\ op.kind # "none" /\ UNCHANGED <<regs, haimr, power, overlap>>
      /\ limit' = IF op.kind = "clock" /\ ~op.failed /\ ~op.old THEN Speed(op.freq) ELSE limit
      /\ off' = (off \/ (op.kind = "down" /\ ~op.failed /\ ~op.old))
      /\ restored' = (restored /\ ~(op.kind \in {"down", "up"} /\ ~op.failed /\ ~op.old))
  BY Zenon DEF TaskReturns, window
<1>2. PICK k, f : k = op.kind /\ f = op.freq
  OBVIOUS
<1>3. /\ off' => off \/ (k = "down" /\ ~op.failed /\ ~op.old)
      /\ restored => restored' \/ (k \in {"down", "up"} /\ ~op.failed /\ ~op.old)
  BY <1>1, <1>2, Zenon
<1>4. Future' = Future /\ Chip(regs) /\ Chip(Future)
  BY <1>1, FutureChip DEF Future, Written, Hardware
<1>5. ASSUME ~overlap, ~op.failed, ~op.old
      PROVE  Holds(regs, Achieved(k, f)) /\ Holds(Future, Achieved(k, f))
  <2>1. PICK a \in BOOLEAN : \E K, L : Knows(a, K, L)
    BY DEF Knowledge
  <2>2. PICK K, L : Knows(a, K, L)
    BY <2>1
  <2>3. Follows(<<>>, a, K, FALSE, L, k, f) /\ Achieved(k, f) \subseteq L /\ Known(K)
    BY <1>1, <1>2, <1>5, <2>2 DEF Knows, Fresh
  <2>4. K = L
    <3> DEFINE b == FALSE
    <3>1. Follows(<<>>, a, K, b, L, k, f)
      BY <2>3
    <3> HIDE DEF b
    <3> QED  BY <3>1, FollowsEmpty
  <2>5. "task" \notin polling
    BY <1>1 DEF Polling
  <2>6. Holds(regs, L) /\ Holds(Future, L)
    BY <2>3, <2>4, <2>5 DEF Known
  <2> QED  BY <2>3, <2>6, HoldsFewer
<1>6. ASSUME Undisturbed' PROVE (OutputOK(regs) /\ OutputOK(Future))'
  <2>1. ~overlap /\ ~restored'
    BY <1>1, <1>6 DEF Undisturbed
  <2>2. OutputOK(regs) /\ OutputOK(Future)
    <3>1. CASE ~restored
      BY <2>1, <3>1 DEF Safe, Undisturbed
    <3>2. CASE restored
      <4>1. k \in {"down", "up"} /\ ~op.failed /\ ~op.old
        BY <1>3, <2>1, <3>2
      <4>2. Holds(regs, Achieved(k, f)) /\ Holds(Future, Achieved(k, f))
        BY <1>5, <2>1, <4>1
      <4>3. CASE k = "down"
        BY <1>4, <4>2, <4>3, PowerDone
      <4>4. CASE k = "up"
        BY <1>4, <4>2, <4>4, PowerDone
      <4> QED  BY <4>1, <4>3, <4>4
    <3> QED  BY <3>1, <3>2
  <2> QED  BY <1>1, <1>4, <2>2 DEF OutputOK
<1>7. ASSUME Undisturbed', off' PROVE (OffOK(regs) /\ OffOK(Future))'
  <2>1. ~overlap /\ ~restored'
    BY <1>1, <1>7 DEF Undisturbed
  <2>2. OffOK(regs) /\ OffOK(Future)
    <3>1. CASE k = "down" /\ ~op.failed /\ ~op.old
      <4>1. Holds(regs, Achieved(k, f)) /\ Holds(Future, Achieved(k, f))
        BY <1>5, <2>1, <3>1
      <4> QED  BY <1>4, <3>1, <4>1, PowerDone
    <3>2. CASE ~(k = "down" /\ ~op.failed /\ ~op.old)
      <4>1. off
        BY <1>3, <1>7, <3>2
      <4>2. ~restored
        BY <4>1 DEF Course
      <4> QED  BY <2>1, <4>1, <4>2 DEF Safe, Undisturbed
    <3> QED  BY <3>1, <3>2
  <2> QED  BY <1>1, <1>4, <2>2 DEF OffOK
<1>8. ASSUME ~overlap', power' = "on" PROVE (SpeedOK(regs) /\ SpeedOK(Future))'
  <2>1. ~overlap /\ power = "on"
    BY <1>1, <1>8
  <2>2. CASE k = "clock" /\ ~op.failed /\ ~op.old
    <3>1. Holds(regs, Achieved("clock", f)) /\ Holds(Future, Achieved("clock", f)) /\ f \in AllFreqs
      BY <1>2, <1>5, <2>1, <2>2 DEF Types
    <3>2. /\ Bus(regs) <= Speed(f) /\ Raw(regs) <= Fastest(Speed(f), 10250)
          /\ Bus(Future) <= Speed(f) /\ Raw(Future) <= Fastest(Speed(f), 10250)
      BY <1>4, <3>1, SpeedDone
    <3>3. limit' = Speed(f)
      BY <1>1, <1>2, <2>2
    <3> QED  BY <1>1, <1>4, <3>2, <3>3 DEF SpeedOK
  <2>3. CASE ~(k = "clock" /\ ~op.failed /\ ~op.old)
    <3>1. limit' = limit
      BY <1>1, <1>2, <2>3
    <3>2. SpeedOK(regs) /\ SpeedOK(Future)
      BY <2>1 DEF Safe
    <3> QED  BY <1>1, <1>4, <3>1, <3>2 DEF SpeedOK
  <2> QED  BY <2>2, <2>3
<1> QED  BY <1>6, <1>7, <1>8 DEF Safe

LEMMA SafeNext ==
    ASSUME Hardware, Types, Polling, Course, Limits, Plans, Knowledge, Safe, [Next]_vars
    PROVE  Safe'
<1>1. ASSUME NEW t \in Threads, Goes(t) PROVE Safe'
  <2>1. /\ todo[t] # <<>> /\ UNCHANGED <<regs, power, limit, off, restored>>
        /\ RestoreWindow(t) \/ (UNCHANGED <<haimr, overlap>> /\ (overlap => overlap'))
    BY <1>1, GoesIs
  <2>2. CASE RestoreWindow(t)
    <3>1. t = "pm"
      <4>1. Head(todo[t]).kind = "restore"
        BY <2>2 DEF RestoreWindow, Head1
      <4> QED  BY <2>1, <4>1, HeadIs DEF Plans
    <3>2. power # "on" /\ restored = TRUE
      BY <2>1, <3>1, PmNotFresh DEF Types
    <3> QED  BY <2>1, <3>2, SafeAsleep
  <2>3. CASE ~RestoreWindow(t)
    BY <2>1, <2>3, SafeSame
  <2> QED  BY <2>2, <2>3
<1>2. ASSUME NEW t \in Threads, Issue(t) PROVE Safe'
  <2>1. CASE t = "task"
    BY <1>2, <2>1, SafeTaskIssue
  <2>2. CASE t = "pm"
    <3>1. todo["pm"] # <<>> /\ UNCHANGED <<power, restored>>
      BY <1>2, <2>2, IssueIs
    <3>2. power # "on" /\ restored = TRUE
      BY <3>1, PmNotFresh DEF Types
    <3> QED  BY <3>1, <3>2, SafeAsleep
  <2>3. CASE t = "intr"
    <3> DEFINE e == Head(todo[t])
    <3>1. /\ todo[t] # <<>> /\ overlap' = (overlap \/ polling \ {t} # {})
          /\ UNCHANGED <<regs, power, limit, off, restored>>
      BY <1>2, IssueIs
    <3>2. e.kind = "write" /\ e.reg = "MISC" /\ Proper(e)
      BY <2>3, <3>1, HeadIs DEF Plans
    <3>3. Future' = Written(regs, e)
      BY <1>2, <3>2, FutureIssue
    <3>4. PICK W : W = Written(regs, e)
      OBVIOUS
    <3> HIDE DEF e
    <3>5. \A r \in Regs : W[r] = regs[r]
      BY <3>2, <3>4, MiscWritten DEF Hardware
    <3>6. /\ OutputOK(regs) => OutputOK(W)
          /\ OffOK(regs) => OffOK(W)
          /\ SpeedOK(regs) => SpeedOK(W)
      BY <3>5, Alike
    <3>7. Future' = W
      BY <3>3, <3>4
    <3>8. (overlap => overlap') /\ (Undisturbed' => Undisturbed)
      <4>1. overlap => overlap'
        BY <3>1, Zenon
      <4> QED  BY <3>1, <4>1 DEF Undisturbed
    <3>9. Undisturbed' => (OutputOK(regs) /\ OutputOK(Future))'
      BY <3>1, <3>6, <3>7, <3>8 DEF Safe, OutputOK
    <3>10. Undisturbed' /\ off' => (OffOK(regs) /\ OffOK(Future))'
      BY <3>1, <3>6, <3>7, <3>8 DEF Safe, OffOK
    <3>11. ~overlap' /\ power' = "on" => (SpeedOK(regs) /\ SpeedOK(Future))'
      BY <3>1, <3>6, <3>7, <3>8 DEF Safe, SpeedOK
    <3> QED  BY <3>9, <3>10, <3>11 DEF Safe
  <2> QED  BY <2>1, <2>2, <2>3 DEF Threads
<1>3. ASSUME NEW t \in Threads, WriteFails(t) \/ SkippedFails(t) PROVE Safe'
  BY <1>3, FailsIs, SafeSame
<1>4. CASE ChipAccess
  <2>1. regs' = Future /\ Future' = regs' /\ UNCHANGED <<power, limit, off, restored, overlap>>
    BY <1>4, ChipAccessIs DEF ChipAccess, history
  <2>2. Undisturbed' <=> Undisturbed
    BY <2>1 DEF Undisturbed
  <2>3. /\ OutputOK(Future) => (OutputOK(regs) /\ OutputOK(Future))'
        /\ OffOK(Future) => (OffOK(regs) /\ OffOK(Future))'
        /\ SpeedOK(Future) => (SpeedOK(regs) /\ SpeedOK(Future))'
    BY <2>1 DEF OutputOK, OffOK, SpeedOK
  <2> QED  BY <2>1, <2>2, <2>3 DEF Safe
<1>5. CASE TaskCalls
  <2>1. PICK kind, f, steps :
            /\ kind \in TaskKinds /\ f \in AllFreqs
            /\ Call(kind, f, steps) /\ Follows(steps, FALSE, {}, FALSE, Achieved(kind, f), kind, f)
    BY <1>5, CallIs
  <2>2. steps \in Seq(Steps)
    BY <2>1 DEF Follows
  <2>3. /\ UNCHANGED <<regs, haimr, power, overlap, restored>> /\ off' = (off /\ kind # "up")
        /\ limit' = IF kind = "clock" THEN Fastest(limit, Speed(f)) ELSE limit
    BY <2>1, <2>2, CallEffect
  <2>4. limit \in Nat /\ limit' \in Nat /\ limit <= limit'
    <3>1. limit \in Nat /\ Speed(f) \in Nat
      <4>1. f \in AllFreqs
        BY <2>1
      <4> QED  BY <4>1, Speeds DEF Limits, AllFreqs
    <3>2. PICK s \in Nat : s = Speed(f)
      BY <3>1
    <3>3. limit' = Fastest(limit, s) \/ limit' = limit
      BY <2>3, <3>2
    <3>4. Fastest(limit, s) \in Nat /\ limit <= Fastest(limit, s)
      BY <3>1, FastestIs
    <3> QED  BY <3>1, <3>3, <3>4
  <2>5. Future' = Future /\ Chip(regs) /\ Chip(Future)
    BY <2>3, FutureChip DEF Future, Written, Hardware
  <2>6. (Undisturbed' <=> Undisturbed) /\ (off' => off)
    BY <2>3, Zenon DEF Undisturbed
  <2>7. PICK l \in Nat, m \in Nat : l = limit /\ m = limit' /\ l <= m
    BY <2>4
  <2>8. SpeedOK(regs) /\ SpeedOK(Future) => (SpeedOK(regs) /\ SpeedOK(Future))'
    <3> SUFFICES ASSUME SpeedOK(regs), SpeedOK(Future) PROVE (SpeedOK(regs) /\ SpeedOK(Future))'
      OBVIOUS
    <3>1. /\ Bus(regs) <= l /\ Raw(regs) <= Fastest(l, 10250)
          /\ Bus(Future) <= l /\ Raw(Future) <= Fastest(l, 10250)
      BY <2>7 DEF SpeedOK
    <3>2. /\ Bus(regs) <= m /\ Raw(regs) <= Fastest(m, 10250)
          /\ Bus(Future) <= m /\ Raw(Future) <= Fastest(m, 10250)
      BY <2>5, <2>7, <3>1, SpeedHigher
    <3> QED  BY <2>3, <2>5, <2>7, <3>2 DEF SpeedOK
  <2>9. /\ OutputOK(regs) /\ OutputOK(Future) => (OutputOK(regs) /\ OutputOK(Future))'
        /\ OffOK(regs) /\ OffOK(Future) => (OffOK(regs) /\ OffOK(Future))'
    BY <2>3, <2>5 DEF OutputOK, OffOK
  <2> QED  BY <2>3, <2>6, <2>8, <2>9 DEF Safe
<1>6. CASE TaskReturns
  BY <1>6, SafeReturn
<1>7. CASE CardEvent
  BY <1>7, CardEventIs, SafeSame
<1>8. CASE Suspend \/ Sleep \/ WakeUp \/ Resume
  <2>1. CASE Suspend
    <3>1. restored' = TRUE /\ power' = "saving"
      BY <2>1, PmFrame DEF Suspend, PmGoes
    <3> QED  BY <3>1, SafeAsleep
  <2>2. CASE ~Suspend
    <3>1. power # "on"
      BY <1>8, <2>2 DEF Sleep, WakeUp, Resume, PmGoes
    <3>5. restored' = restored
      BY <1>8, <2>2, PmFrame
    <3>2. restored' = TRUE
      BY <3>1, <3>5 DEF Course, Types
    <3>3. CASE power' # "on"
      BY <3>2, <3>3, SafeAsleep
    <3>4. CASE power' = "on"
      <4>1. PmGoes("led", "on", <<>>) /\ Resume
        BY <1>8, <2>2, <3>4 DEF Sleep, WakeUp, Resume, PmGoes
      <4>2. power = "led" /\ UNCHANGED <<regs, haimr, limit>>
        BY <4>1 DEF PmGoes, Resume, window, history
      <4>3. limit' = 51000 /\ limit = 51000
        BY <4>2 DEF Limits
      <4>4. Future' = Future /\ Chip(regs) /\ Chip(Future)
        BY <4>2, FutureChip DEF Future, Written, Hardware
      <4>5. SpeedOK(regs) /\ SpeedOK(Future)
        BY <4>3, <4>4, SpeedAtMost
      <4>6. (SpeedOK(regs) /\ SpeedOK(Future))'
        BY <4>2, <4>3, <4>4, <4>5 DEF SpeedOK
      <4> QED  BY <3>2, <4>6 DEF Safe, Undisturbed
    <3> QED  BY <3>3, <3>4
  <2> QED  BY <1>8, <2>1, <2>2
<1>9. CASE UNCHANGED vars
  <2>1. UNCHANGED <<regs, haimr, limit, power, off, overlap, restored>>
    BY <1>9 DEF vars, window, history
  <2> QED  BY <2>1, SafeSame
<1> QED
  BY <1>1, <1>2, <1>3, <1>4, <1>5, <1>6, <1>7, <1>8, <1>9 DEF Next, ThreadStep, Goes

-----------------------------------------------------------------------------
(***************************************************************************)
(* The theorems                                                            *)
(***************************************************************************)

LEMMA InitIInv == Init => IInv
<1> SUFFICES ASSUME Init PROVE IInv
  OBVIOUS
<1> DEFINE w == [busy |-> FALSE, step |-> Done("any"), value |-> {}]
<1>1. /\ regs = Reset /\ haimr = w /\ owner = "none" /\ depth = 0
      /\ todo = [t \in Threads |-> <<>>] /\ polling = {} /\ op = NoOp
      /\ saved = [CFG1 |-> {}, OE |-> {}, haimr |-> haimr] /\ power = "on" /\ ops = 0 /\ meets = 0
      /\ limit = 51000 /\ off = FALSE /\ restored = FALSE /\ leaks = 0 /\ overlap = FALSE
  BY DEF Init
<1>2. Window(w) /\ w.busy = FALSE
  BY ResetIs
<1> HIDE DEF w
<1>3. Hardware
  <2>1. DOMAIN saved = {"CFG1", "OE", "haimr"} /\ saved["haimr"] = haimr
        /\ saved["CFG1"] = {} /\ saved["OE"] = {}
    BY <1>1
  <2> QED  BY <1>1, <1>2, <2>1, ResetIs DEF Hardware
<1>4. Locking
  BY <1>1 DEF Locking
<1>5. todo \in [Threads -> Seq(Steps)] /\ \A t \in Threads : todo[t] = <<>>
  <2> DEFINE S == Seq(Steps)
  <2>1. <<>> \in S
    BY SplxIn
  <2> HIDE DEF S
  <2>2. todo \in [Threads -> S] /\ \A t \in Threads : todo[t] = <<>>
    BY <1>1, <2>1
  <2> QED  BY <2>2 DEF S
<1>6. op \in [kind : TaskKinds \cup {"none"}, freq : AllFreqs, failed : BOOLEAN, old : BOOLEAN]
      /\ op.kind = "none" /\ op.failed = FALSE
  BY <1>1 DEF NoOp, AllFreqs
<1>7. Types
  <2>1. ops \in Nat /\ meets \in Nat /\ ops <= MaxOps /\ meets <= MaxMeets
    BY <1>1, PowerAssumption
  <2>2. power \in PowerStates
    BY <1>1 DEF PowerStates
  <2>3. polling \subseteq Threads
    BY <1>1
  <2>4. off \in BOOLEAN /\ restored \in BOOLEAN /\ overlap \in BOOLEAN
    <3>1. off = FALSE /\ restored = FALSE /\ overlap = FALSE
      BY SMT DEF Init
    <3> QED  BY <3>1
  <2> QED  BY <1>5, <1>6, <2>1, <2>2, <2>3, <2>4 DEF Types
<1>8. Polling
  BY <1>1 DEF Polling
<1>9. "pm" \in Threads /\ "task" \in Threads
  BY DEF Threads
<1>10. Course
  BY <1>1, <1>5, <1>6, <1>9 DEF Course, Fresh
<1>11. Limits
  BY <1>1, <1>6 DEF Limits
<1>12. \A k, f : Follows(<<>>, FALSE, {}, FALSE, {}, k, f)
  <2> DEFINE b == FALSE
  <2> HIDE DEF b
  <2>1. \A k, f : Follows(<<>>, b, {}, b, {}, k, f)
    BY FollowsEmpty
  <2> QED  BY <2>1 DEF b
<1>13. Plans
  <2> SUFFICES ASSUME NEW t \in Threads PROVE Plan(t)
    BY DEF Plans
  <2>1. Holder(t) = 0 /\ Owed(t) = 0
    BY <1>1 DEF Holder, Owed, Threads
  <2>2. Follows(todo[t], FALSE, {}, FALSE, {}, Kind(t), Freq(t))
    BY <1>5, <1>12
  <2>3. Holder(t) = Owed(t) + 0
    BY <2>1
  <2> QED  BY <2>2, <2>3 DEF Plan
<1>14. Knowledge
  <2>1. Follows(todo["task"], FALSE, {}, FALSE, {}, op.kind, op.freq)
    BY <1>5, <1>9, <1>12
  <2>2. Achieved(op.kind, op.freq) = {} /\ ~Fresh
    BY <1>6 DEF Achieved, Fresh
  <2>3. Knows(FALSE, {}, {})
    BY <2>1, <2>2 DEF Knows
  <2> QED  BY <2>3 DEF Knowledge
<1>15. Safe
  <2>1. Future = regs
    BY <1>1, <1>2 DEF Future
  <2>2. OutputOK(regs) /\ off = FALSE
    BY <1>1, ResetIs DEF OutputOK
  <2>3. SpeedOK(regs)
    BY <1>1, ResetIs, SpeedAtMost
  <2> QED  BY <2>1, <2>2, <2>3 DEF Safe
<1> QED
  BY <1>3, <1>4, <1>7, <1>8, <1>10, <1>11, <1>13, <1>14, <1>15 DEF IInv

LEMMA NextIInv == IInv /\ [Next]_vars => IInv'
BY HardwareNext, PlansNext, TypesNext, PollingNext, CourseNext, LimitsNext, KnowledgeNext, SafeNext
   DEF IInv

LEMMA Invariance == Spec => []IInv
BY InitIInv, NextIInv, PTL DEF Spec

\* Every variable has its type, and who polls has something to do.
THEOREM TypeCorrect == Spec => []TypeOK
<1>1. IInv => TypeOK
  <2> SUFFICES ASSUME IInv PROVE TypeOK
    OBVIOUS
  <2>1. /\ \A r \in Regs : regs[r] \subseteq Bits[r]
        /\ saved.CFG1 \subseteq Bits["CFG1"] /\ saved.OE \subseteq Bits["OE"]
    BY DEF IInv, Hardware, Chip
  <2>2. owner \in Threads \cup {"none"} /\ depth \in Nat /\ (depth = 0) = (owner = "none")
    BY DEF IInv, Locking
  <2>3. polling \subseteq {t \in Threads : todo[t] # <<>>}
    BY DEF IInv, Types, Polling
  <2>4. /\ op.kind \in {"none", "down", "up", "clock", "stop", "width"}
        /\ power \in {"on", "saving", "asleep", "init", "restore", "led"}
        /\ ops <= MaxOps /\ meets <= MaxMeets
    BY DEF IInv, Types, TaskKinds, PowerStates
  <2> QED  BY <2>1, <2>2, <2>3, <2>4 DEF TypeOK
<1> QED  BY <1>1, Invariance, PTL

\* The outputs to the card are never driven while it has less than full power:
\* rtsx_bus_power_off and rtsx_bus_power_on write in this order, and stop at the
\* first access that fails.
THEOREM OutputsArePowered == Spec => []OutputNeedsPower
<1>1. IInv => OutputNeedsPower
  BY DEF IInv, Safe, OutputOK, OutputNeedsPower
<1> QED  BY <1>1, Invariance, PTL

\* However rtsx_bus_clock is stopped, and whichever frequencies come after each
\* other, the bus is never faster than both the old clock and the new one.
THEOREM ClockIsBounded == Spec => []NeverFaster
<1>1. IInv => NeverFaster
  <2> SUFFICES ASSUME IInv, Undisturbed PROVE BusSpeed <= limit
    BY DEF NeverFaster
  <2>1. ~overlap /\ power = "on"
    BY DEF IInv, Course, Undisturbed
  <2>2. SpeedOK(regs)
    BY <2>1 DEF IInv, Safe
  <2>3. BusSpeed = Bus(regs)
    BY DEF BusSpeed, Bus, Raw
  <2> QED  BY <2>2, <2>3 DEF SpeedOK
<1> QED  BY <1>1, Invariance, PTL

\* A card whose power was switched off with success stays without power, clock
\* and outputs until rtsx_bus_power is called again.
THEOREM OffStaysOff == Spec => []OffIsOff
<1>1. IInv => OffIsOff
  BY DEF IInv, Safe, OffOK, OffIsOff
<1> QED  BY <1>1, Invariance, PTL

\* Every way out of an operation gives back the levels of the lock that it took,
\* but for the returns from rtsx_bus_clock that skip splx.
THEOREM LocksAreReturned == Spec => []LocksReturned
<1>1. IInv => \A t \in Threads : todo[t] = <<>> =>
                  (IF owner = t THEN depth ELSE 0) = (IF t = "task" THEN leaks ELSE 0)
  <2> SUFFICES ASSUME IInv, NEW t \in Threads, todo[t] = <<>>
               PROVE  (IF owner = t THEN depth ELSE 0) = (IF t = "task" THEN leaks ELSE 0)
    OBVIOUS
  <2>1. Plan(t) /\ Locking
    BY DEF IInv, Plans
  <2>2. Holder(t) = Owed(t) + 0
    BY <2>1, PlanDone
  <2>3. Holder(t) \in Nat /\ Owed(t) \in Nat
    BY <2>1, HolderIs
  <2>4. Holder(t) = Owed(t)
    BY <2>2, <2>3
  <2> QED  BY <2>4 DEF Holder, Owed
<1>2. IInv /\ TypeOK => LocksReturned
  BY <1>1 DEF LocksReturned
<1> QED  BY <1>2, Invariance, TypeCorrect, PTL
===============================================================================
