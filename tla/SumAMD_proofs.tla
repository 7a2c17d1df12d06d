----------------------------- MODULE SumAMD_proofs -----------------------------
(***************************************************************************)
(* Proofs about SumAMD: the barriers keep the items of a group within one  *)
(* level of the tree of additions, so that they do not race, and the sum   *)
(* has every input element once, for every size of the input and every     *)
(* group size of the device.                                               *)
(*                                                                         *)
(* A power of two is recognised by its divisors: all but 1 are even.  So   *)
(* the group size, which divides the number of threads, is one as well and *)
(* halves down to 1 without a remainder.                                   *)
(***************************************************************************)
EXTENDS SumAMD, WellFoundedInduction, SequenceTheorems, TLAPS

Halves(p) == p \in Nat \ {0} /\ \A d, q \in 1 .. p : p = d * q /\ d # 1 => d % 2 = 0

Instructions == [op : {"fill", "barrier", "load", "store", "write"}, h : Nat]

\* The kernel p goes on at i with the rounds from s on.
GoesOn(p, i, s) ==
  i \in 1 .. Len(p) /\ p[i] = IF s = 0 THEN Instr("write", 0) ELSE Instr("load", s)

\* At i it has a round of stride h.
RoundAt(p, i, h) ==
  /\ Halves(h)
  /\ p[i] = Instr("load", h) /\ p[i + 1] = Instr("store", h) /\ p[i + 2] = Barrier
  /\ GoesOn(p, i + 3, h \div 2)

\* From first on it has nothing but rounds, each behind a barrier, and the
\* write of the result, its last instruction.
HasRounds(p, first) ==
  \A i \in first .. Len(p) :
    \/ /\ RoundAt(p, i, p[i].h)
       /\ i = first \/ p[i - 1] = Barrier
    \/ i > first /\ RoundAt(p, i - 1, p[i].h)
    \/ i > first + 1 /\ RoundAt(p, i - 2, p[i - 2].h)
    \/ /\ i = Len(p) /\ p[i] = Instr("write", 0)
       /\ i = first \/ p[i - 1] = Barrier

KernelShape(p, size) ==
  /\ p \in Seq(Instructions)
  /\ p[1] = Instr("fill", 0) /\ p[2] = Barrier /\ GoesOn(p, 3, size \div 2)
  /\ HasRounds(p, 3)

\* The input elements below group b whose items are t modulo m.
Part(b, t, m) ==
  {e \in 0 .. mInputSize - 1 :
     LET u == e \div 2 - b * groupSize IN u \in Local /\ u % m = t}

Sized ==
  /\ mInputSize \in Nat \ {0} /\ mBufferSize = RoundUpPow2(mInputSize)
  /\ groupSize \in 1 .. GROUP_SIZE
  /\ program = BuildKernel(groupSize)
  /\ mInputBuffer = [a \in 0 .. mBufferSize - 1 |-> IF a < mInputSize THEN {a} ELSE {}]

Typed ==
  /\ at \in [Local -> Nat \ {0}]
  /\ DOMAIN sdata = Local /\ DOMAIN reg = Local /\ DOMAIN mOutputBuffer = 0 .. mBufferSize - 1
  /\ state \in {"init", "threw", "running", "returned"}

\* An accepted kernel has groups of a power of two, which cover the buffer.
Accepted ==
  /\ Halves(groupSize) /\ KernelShape(program, groupSize)
  /\ numBlocks \in Nat /\ globalThreads \div groupSize = numBlocks
  /\ mBufferSize = 2 * (groupSize * numBlocks) /\ mInputSize <= mBufferSize
  /\ bid \in 0 .. numBlocks - 1

\* Nobody is past a barrier that somebody has not reached.
InStep ==
  \A t \in Local :
    /\ at[t] <= Len(program) + 1
    /\ \A u \in Local, j \in 1 .. Len(program) :
         program[j] = Barrier /\ at[t] > j => at[u] >= j

\* What an item has in local memory and in its register, by where it is.
Holds(t, m) == m <= groupSize /\ (t < m => sdata[t] = Part(bid, t, m))
InRound(t, i, h) ==
  /\ at[t] = i => Holds(t, 2 * h)
  /\ at[t] = i + 1 => Holds(t, 2 * h) /\ (t < h => reg[t] = Part(bid, t, h))
  /\ at[t] = i + 2 => Holds(t, h) /\ (t >= h => Holds(t, 2 * h))
SumOf(t) ==
  /\ at[t] = 2 => Holds(t, groupSize)
  /\ \A i \in 3 .. Len(program) :
       RoundAt(program, i, program[i].h) => InRound(t, i, program[i].h)
  /\ at[t] = Len(program) => Holds(t, 1)
  /\ at[t] > Len(program) /\ t = 0 => mOutputBuffer[bid] = Part(bid, 0, 1)

Written == \A b \in 0 .. bid - 1 : mOutputBuffer[b] = Part(b, 0, 1)

Started == Accepted /\ InStep /\ Written /\ \A t \in Local : SumOf(t)
SumInv ==
  /\ Sized /\ Typed
  /\ IF state \in {"init", "threw"} THEN bid = 0 /\ \A t \in Local : at[t] = 1 ELSE Started
  /\ SumComplete
-----------------------------------------------------------------------------
(* Powers of two *)

\* A set of natural numbers has a least one: induction as the absence of a
\* first counterexample.
LEMMA Least ==
  ASSUME NEW T, T \subseteq Nat, T # {}
  PROVE  \E m \in T : \A n \in T : m <= n
<1>1. PICK m \in T : \A n \in T : ~ (<<n, m>> \in OpToRel(<, Nat))
  BY NatLessThanWellFounded, WFMin
<1>2. \A n \in T : ~ (n < m)
  BY <1>1 DEF OpToRel
<1> QED
  BY <1>2

\* PowerOfTwo satisfies its recursive definition.
PowersTo(f, n) == DOMAIN f = 0 .. n /\ f[0] = 1 /\ \A k \in 1 .. n : f[k] = 2 * f[k - 1]

\* The recursion can be followed up to every n.
LEMMA PowersToExist ==
  ASSUME NEW n \in Nat
  PROVE  \E f : PowersTo(f, n)
<1> DEFINE Bad == {m \in Nat : ~ \E f : PowersTo(f, m)}
<1> SUFFICES ASSUME Bad # {} PROVE FALSE
  OBVIOUS
<1>1. PICK m \in Bad : \A k \in Bad : m <= k
  <2>1. Bad \subseteq Nat
    OBVIOUS
  <2> HIDE DEF Bad
  <2> QED
    BY <2>1, Least
<1>2. m \in Nat /\ ~ \E f : PowersTo(f, m)
  BY <1>1
<1>3. CASE m = 0
  <2>1. PowersTo([k \in 0 .. 0 |-> 1], 0)
    BY DEF PowersTo
  <2> QED
    BY <1>2, <1>3, <2>1
<1>4. CASE m # 0
  <2>1. m - 1 \in Nat /\ m - 1 \notin Bad
    BY <1>1, <1>2, <1>4
  <2>2. PICK f : PowersTo(f, m - 1)
    BY <2>1
  <2> DEFINE g == [k \in 0 .. m |-> IF k = m THEN 2 * f[m - 1] ELSE f[k]]
  <2>3. DOMAIN g = 0 .. m /\ g[0] = 1 /\ g[m] = 2 * f[m - 1] /\ g[m - 1] = f[m - 1]
    BY <1>2, <1>4, <2>2 DEF PowersTo
  <2>4. ASSUME NEW k \in 1 .. m PROVE g[k] = 2 * g[k - 1]
    <3>1. CASE k = m
      BY <2>3, <3>1
    <3>2. CASE k # m
      <4>1. k \in 1 .. m - 1 /\ k \in 0 .. m /\ k - 1 \in 0 .. m /\ k - 1 # m
        BY <1>2, <3>2
      <4>2. g[k] = f[k] /\ g[k - 1] = f[k - 1]
        BY <3>2, <4>1
      <4> QED
        BY <2>2, <4>1, <4>2 DEF PowersTo
    <3> QED
      BY <3>1, <3>2
  <2>5. PowersTo(g, m)
    BY <2>3, <2>4 DEF PowersTo
  <2> QED
    BY <1>2, <2>5
<1> QED
  BY <1>3, <1>4

\* and it has one value at every number.
LEMMA PowersToAgree ==
  ASSUME NEW n \in Nat, NEW m \in 0 .. n, NEW f, NEW g, PowersTo(f, m), PowersTo(g, n)
  PROVE  \A k \in 0 .. m : f[k] = g[k]
<1> DEFINE Bad == {k \in 0 .. m : f[k] # g[k]}
<1> SUFFICES ASSUME Bad # {} PROVE FALSE
  OBVIOUS
<1>1. PICK k \in Bad : \A j \in Bad : k <= j
  <2>1. Bad \subseteq Nat
    OBVIOUS
  <2> HIDE DEF Bad
  <2> QED
    BY <2>1, Least
<1>2. k \in 0 .. m /\ f[k] # g[k]
  BY <1>1
<1>3. CASE k = 0
  BY <1>2, <1>3 DEF PowersTo
<1>4. CASE k # 0
  <2>1. k \in 1 .. m /\ k \in 1 .. n /\ k - 1 \in 0 .. m /\ k - 1 \notin Bad
    BY <1>1, <1>2, <1>4
  <2>2. f[k - 1] = g[k - 1]
    BY <2>1
  <2> QED
    BY <1>2, <2>1, <2>2 DEF PowersTo
<1> QED
  BY <1>3, <1>4

\* PowerOfTwo is the function its definition says.
LEMMA PowerOfTwoDef ==
  PowerOfTwo = [k \in Nat |-> IF k = 0 THEN 1 ELSE 2 * PowerOfTwo[k - 1]]
<1> DEFINE upTo(n) == CHOOSE f : PowersTo(f, n)
           f == [n \in Nat |-> upTo(n)[n]]
           Step(p) == [k \in Nat |-> IF k = 0 THEN 1 ELSE 2 * p[k - 1]]
<1>1. ASSUME NEW n \in Nat PROVE PowersTo(upTo(n), n)
  BY PowersToExist
<1> HIDE DEF upTo
<1>2. f[0] = 1
  BY <1>1 DEF PowersTo
<1>3. ASSUME NEW k \in Nat \ {0} PROVE f[k] = 2 * f[k - 1]
  <2>1. k - 1 \in Nat /\ k - 1 \in 0 .. k /\ k \in 1 .. k
    OBVIOUS
  <2>2. upTo(k - 1)[k - 1] = upTo(k)[k - 1]
    <3>1. PowersTo(upTo(k - 1), k - 1) /\ PowersTo(upTo(k), k)
      BY <1>1, <2>1
    <3>2. \A j \in 0 .. k - 1 : upTo(k - 1)[j] = upTo(k)[j]
      BY <2>1, <3>1, PowersToAgree
    <3> QED
      BY <2>1, <3>2
  <2>3. upTo(k)[k] = 2 * upTo(k)[k - 1]
    BY <1>1, <2>1 DEF PowersTo
  <2> QED
    BY <2>1, <2>2, <2>3
<1>4. PICK g : g = f
  OBVIOUS
<1>5. g = Step(g)
  <2>1. g = [k \in Nat |-> g[k]]
    BY <1>4
  <2>2. \A k \in Nat : g[k] = IF k = 0 THEN 1 ELSE 2 * g[k - 1]
    BY <1>2, <1>3, <1>4
  <2> QED
    BY <2>1, <2>2
<1>6. PowerOfTwo = CHOOSE p : p = Step(p)
  BY DEF PowerOfTwo
<1> QED
  BY <1>5, <1>6

\* A power of two other than 1 halves without a remainder into a power of two.
LEMMA HalvesDown ==
  ASSUME NEW p, Halves(p), p # 1
  PROVE  p = 2 * (p \div 2) /\ Halves(p \div 2)
<1>1. p \in Nat \ {0} /\ p % 2 = 0
  BY DEF Halves
<1>2. p = 2 * (p \div 2) /\ p \div 2 \in Nat \ {0}
  BY <1>1
<1>3. ASSUME NEW d \in 1 .. p \div 2, NEW q \in 1 .. p \div 2, p \div 2 = d * q, d # 1
      PROVE  d % 2 = 0
  <2>1. d \in 1 .. p /\ 2 * q \in 1 .. p /\ p = d * (2 * q)
    BY <1>2, <1>3
  <2> QED
    BY <1>3, <2>1 DEF Halves
<1> QED
  BY <1>2, <1>3 DEF Halves

\* What divides a power of two is one.
LEMMA DivisorHalves ==
  ASSUME NEW p, Halves(p), NEW d \in Nat, NEW q \in Nat, p = d * q
  PROVE  Halves(d)
<1>1. d \in Nat \ {0} /\ q \in Nat \ {0} /\ d <= p
  BY DEF Halves
<1>2. ASSUME NEW a \in 1 .. d, NEW b \in 1 .. d, d = a * b, a # 1 PROVE a % 2 = 0
  <2>1. p = a * (b * q)
    BY <1>1, <1>2
  <2>2. PICK c \in Nat : c = b * q
    BY <1>1
  <2>3. p = a * c /\ a \in Nat \ {0} /\ p \in Nat \ {0}
    BY <1>1, <2>1, <2>2 DEF Halves
  <2>4. a \in 1 .. p /\ c \in 1 .. p
    BY <2>2, <2>3
  <2> QED
    BY <1>2, <2>3, <2>4 DEF Halves
<1> QED
  BY <1>1, <1>2 DEF Halves

\* Twice a power of two is one.
LEMMA DoubleHalves ==
  ASSUME NEW p, Halves(p)
  PROVE  Halves(2 * p)
<1>0. p \in Nat \ {0}
  BY DEF Halves
<1>1. ASSUME NEW d \in 1 .. 2 * p, NEW q \in 1 .. 2 * p, 2 * p = d * q, d # 1 PROVE d % 2 = 0
  <2> SUFFICES ASSUME d % 2 # 0 PROVE FALSE
    OBVIOUS
  <2>1. PICK a \in Nat : d = 2 * a + 1
    <3>1. d = 2 * (d \div 2) + 1 /\ d \div 2 \in Nat
      BY <1>0
    <3> QED
      BY <3>1
  <2>2. 2 * p = 2 * (a * q) + q
    BY <1>0, <1>1, <2>1
  <2>3. PICK b \in Int : b = p - a * q
    BY <1>0
  <2>4. q = 2 * b
    BY <1>0, <2>2, <2>3
  <2>5. b \in Nat \ {0} /\ p = d * b
    BY <1>0, <1>1, <2>1, <2>4
  <2>6. d \in 1 .. p /\ b \in 1 .. p
    BY <1>0, <2>5
  <2> QED
    BY <1>1, <2>5, <2>6 DEF Halves
<1> QED
  BY <1>0, <1>1 DEF Halves

\* The sizes that RoundUpPow2 and nextPow2 return are recognised by their divisors.
LEMMA PowersHalve == \A k \in Nat : Halves(PowerOfTwo[k])
<1> DEFINE Bad == {k \in Nat : ~ Halves(PowerOfTwo[k])}
<1> SUFFICES ASSUME Bad # {} PROVE FALSE
  OBVIOUS
<1>1. PICK k \in Bad : \A j \in Bad : k <= j
  <2>1. Bad \subseteq Nat
    OBVIOUS
  <2> HIDE DEF Bad
  <2> QED
    BY <2>1, Least
<1>2. k \in Nat /\ ~ Halves(PowerOfTwo[k])
  BY <1>1
<1>3. CASE k = 0
  <2>1. PowerOfTwo[k] = 1
    BY <1>3, PowerOfTwoDef
  <2>2. Halves(1)
    BY DEF Halves
  <2> QED
    BY <1>2, <2>1, <2>2
<1>4. CASE k # 0
  <2>1. k - 1 \in Nat /\ k - 1 \notin Bad
    BY <1>1, <1>2, <1>4
  <2>2. PowerOfTwo[k] = 2 * PowerOfTwo[k - 1]
    BY <1>2, <1>4, PowerOfTwoDef
  <2> QED
    BY <1>2, <2>1, <2>2, DoubleHalves
<1> QED
  BY <1>3, <1>4

\* What the buffer size is rounded up to: a power of two that is not below, or
\* 0 when a word has none.
LEMMA RoundUp ==
  ASSUME NEW n \in Nat \ {0}, NEW p, p = RoundUpPow2(n)
  PROVE  p = 0 \/ (Halves(p) /\ n <= p /\ RoundUpPow2(p) = p)
<1>1. \A q \in PowersOfTwo : Halves(q) /\ q \in Nat \ {0}
  <2>1. \A k \in 0 .. WordBits - 1 : k \in Nat
    BY WordBitsAssumption
  <2>2. \A q \in PowersOfTwo : Halves(q)
    BY <2>1, PowersHalve DEF PowersOfTwo
  <2> QED
    BY <2>2 DEF Halves
<1>2. CASE n \in PowersOfTwo
  BY <1>1, <1>2 DEF RoundUpPow2, isPow2
<1>3. CASE n \notin PowersOfTwo /\ n <= PowerOfTwo[WordBits - 1]
  <2>1. WordBits - 1 \in 0 .. WordBits - 1
    BY WordBitsAssumption
  <2>2. PowerOfTwo[WordBits - 1] \in PowersOfTwo
    BY <2>1 DEF PowersOfTwo
  <2> DEFINE Above == {q \in PowersOfTwo : q >= n}
  <2>3. Above # {} /\ Above \subseteq Nat
    BY <1>1, <1>3, <2>2
  <2>4. PICK m \in Above : \A q \in Above : m <= q
    <3> HIDE DEF Above
    <3> QED
      BY <2>3, Least
  <2>5. m \in PowersOfTwo /\ m >= n /\ \A q \in PowersOfTwo : q >= n => m <= q
    BY <2>4
  <2>6. p = nextPow2(n)
    BY <1>3 DEF RoundUpPow2, isPow2
  <2>7. ~ (n = 0 \/ n > PowerOfTwo[WordBits - 1])
    BY <1>1, <1>3, <2>2
  <2>8. p = CHOOSE r \in PowersOfTwo : r >= n /\ \A q \in PowersOfTwo : q >= n => r <= q
    BY <2>6, <2>7 DEF nextPow2
  <2>9. p \in PowersOfTwo /\ p >= n
    BY <2>5, <2>8
  <2> QED
    BY <1>1, <2>9 DEF RoundUpPow2, isPow2
<1>4. CASE n \notin PowersOfTwo /\ ~ (n <= PowerOfTwo[WordBits - 1])
  <2>1. PowerOfTwo[WordBits - 1] \in Nat
    BY WordBitsAssumption, PowersHalve DEF Halves
  <2>2. n > PowerOfTwo[WordBits - 1]
    BY <1>4, <2>1
  <2> QED
    BY <1>4, <2>2 DEF RoundUpPow2, isPow2, nextPow2
<1> QED
  BY <1>2, <1>3, <1>4
-----------------------------------------------------------------------------
(* The kernel *)

\* From the assumption on the sizes.
LEMMA GroupSizeType == GROUP_SIZE \in Nat \ {0}
<1>1. GROUP_SIZE \in InputSizes \cup KernelGroupSizes \cup {GROUP_SIZE}
  OBVIOUS
<1> QED
  BY <1>1, SizesAssumption

\* What a concatenation of instructions has where.
LEMMA Joined ==
  ASSUME NEW a \in Seq(Instructions), NEW b \in Seq(Instructions), NEW k \in Nat, Len(a) = k
  PROVE  /\ a \o b \in Seq(Instructions) /\ Len(b) \in Nat /\ Len(a \o b) = k + Len(b)
         /\ \A j \in 1 .. Len(a \o b) : (a \o b)[j] = IF j <= k THEN a[j] ELSE b[j - k]
OBVIOUS

\* Rounds satisfies its recursive definition.
RoundsTo(f, n) ==
  /\ f = [s \in 0 .. n |-> f[s]]
  /\ \A s \in 0 .. n : f[s] = IF s = 0 THEN <<Instr("write", 0)>> ELSE Level(s) \o f[s \div 2]

\* The loop can be followed down from every n.
LEMMA RoundsToExist ==
  ASSUME NEW n \in Nat
  PROVE  \E f : RoundsTo(f, n)
<1> DEFINE Bad == {m \in Nat : ~ \E f : RoundsTo(f, m)}
<1> SUFFICES ASSUME Bad # {} PROVE FALSE
  OBVIOUS
<1>1. PICK m \in Bad : \A k \in Bad : m <= k
  <2>1. Bad \subseteq Nat
    OBVIOUS
  <2> HIDE DEF Bad
  <2> QED
    BY <2>1, Least
<1>2. m \in Nat /\ ~ \E f : RoundsTo(f, m)
  BY <1>1
<1>3. CASE m = 0
  <2>1. RoundsTo([s \in 0 .. 0 |-> <<Instr("write", 0)>>], 0)
    BY DEF RoundsTo
  <2> QED
    BY <1>2, <1>3, <2>1
<1>4. CASE m # 0
  <2>1. m - 1 \in Nat /\ m - 1 \notin Bad
    BY <1>1, <1>2, <1>4
  <2>2. PICK f : RoundsTo(f, m - 1)
    BY <2>1
  <2> DEFINE g == [s \in 0 .. m |-> IF s = m THEN Level(m) \o f[m \div 2] ELSE f[s]]
  <2>3. ASSUME NEW s \in 0 .. m
        PROVE  g[s] = IF s = 0 THEN <<Instr("write", 0)>> ELSE Level(s) \o g[s \div 2]
    <3>1. s = m \/ s \in 0 .. m - 1
      BY <1>2
    <3>2. CASE s = m
      <4>1. m \div 2 \in 0 .. m /\ m \div 2 # m
        BY <1>2, <1>4
      <4>2. g[m \div 2] = f[m \div 2]
        BY <4>1
      <4> QED
        BY <1>4, <3>2, <4>2
    <3>3. CASE s \in 0 .. m - 1
      <4>1. s \div 2 \in 0 .. m /\ s \div 2 # m /\ s # m
        BY <1>2, <3>3
      <4>2. g[s \div 2] = f[s \div 2] /\ g[s] = f[s]
        BY <4>1
      <4> QED
        BY <2>2, <3>3, <4>2 DEF RoundsTo
    <3> QED
      BY <3>1, <3>2, <3>3
  <2>4. RoundsTo(g, m)
    <3>1. g = [s \in 0 .. m |-> g[s]]
      OBVIOUS
    <3> HIDE DEF g
    <3> QED
      BY <2>3, <3>1 DEF RoundsTo
  <2> QED
    BY <1>2, <2>4
<1> QED
  BY <1>3, <1>4

\* Rounds is the function its definition says.
LEMMA RoundsDef == RoundsTo(Rounds, GROUP_SIZE)
<1> DEFINE Step(f) == [s \in 0 .. GROUP_SIZE |->
                         IF s = 0 THEN <<Instr("write", 0)>> ELSE Level(s) \o f[s \div 2]]
           rounds == CHOOSE f : f = Step(f)
<1>1. PICK f : RoundsTo(f, GROUP_SIZE)
  BY GroupSizeType, RoundsToExist
<1>2. f = Step(f)
  BY <1>1 DEF RoundsTo
<1>3. rounds = Step(rounds)
  BY <1>2
<1>4. Rounds = rounds
  BY DEF Rounds
<1> HIDE DEF rounds
<1>5. PICK g : g = rounds
  OBVIOUS
<1>6. RoundsTo(g, GROUP_SIZE)
  BY <1>3, <1>5 DEF RoundsTo
<1> QED
  BY <1>4, <1>5, <1>6

\* A round keeps its form behind other instructions.
LEMMA RoundShifts ==
  ASSUME NEW p \in Seq(Instructions), NEW q \in Seq(Instructions), NEW k \in Nat,
         Len(p) = k + Len(q), \A j \in 1 .. Len(q) : p[j + k] = q[j],
         NEW i \in 1 .. Len(q), NEW h, RoundAt(q, i, h)
  PROVE  RoundAt(p, i + k, h)
<1>1. i + 3 \in 1 .. Len(q) /\ Len(q) \in Nat
  BY DEF RoundAt, GoesOn
<1>2. i + 1 \in 1 .. Len(q) /\ i + 2 \in 1 .. Len(q)
  BY <1>1
<1>3. p[i + k] = q[i] /\ p[(i + 1) + k] = q[i + 1] /\ p[(i + 2) + k] = q[i + 2]
      /\ p[(i + 3) + k] = q[i + 3]
  BY <1>1, <1>2
<1>4. (i + 1) + k = (i + k) + 1 /\ (i + 2) + k = (i + k) + 2 /\ (i + 3) + k = (i + k) + 3
  OBVIOUS
<1>5. (i + k) + 3 \in 1 .. Len(p)
  BY <1>1
<1> QED
  BY <1>3, <1>4, <1>5 DEF RoundAt, GoesOn

\* Rounds stay rounds behind a barrier.
LEMMA RoundsBehind ==
  ASSUME NEW p \in Seq(Instructions), NEW q \in Seq(Instructions), NEW k \in Nat \ {0},
         Len(p) = k + Len(q), \A j \in 1 .. Len(q) : p[j + k] = q[j],
         HasRounds(q, 1), p[k] = Barrier
  PROVE  HasRounds(p, k + 1)
<1>1. ASSUME NEW i \in k + 1 .. Len(p)
      PROVE  \/ /\ RoundAt(p, i, p[i].h)
                /\ i = k + 1 \/ p[i - 1] = Barrier
             \/ i > k + 1 /\ RoundAt(p, i - 1, p[i].h)
             \/ i > k + 2 /\ RoundAt(p, i - 2, p[i - 2].h)
             \/ /\ i = Len(p) /\ p[i] = Instr("write", 0)
                /\ i = k + 1 \/ p[i - 1] = Barrier
  <2>1. PICK j \in 1 .. Len(q) : i = j + k
    <3>1. i - k \in 1 .. Len(q) /\ i = (i - k) + k
      BY <1>1
    <3> QED
      BY <3>1
  <2>2. p[i] = q[j]
    BY <2>1
  <2>3. j # 1 => p[i - 1] = q[j - 1]
    <3>1. j # 1 => j - 1 \in 1 .. Len(q) /\ i - 1 = (j - 1) + k
      BY <2>1
    <3> QED
      BY <3>1
  <2>4. j > 2 => p[i - 2] = q[j - 2]
    <3>1. j > 2 => j - 2 \in 1 .. Len(q) /\ i - 2 = (j - 2) + k
      BY <2>1
    <3> QED
      BY <3>1
  <2>5. CASE RoundAt(q, j, q[j].h) /\ (j = 1 \/ q[j - 1] = Barrier)
    <3>1. RoundAt(p, i, p[i].h)
      BY <2>1, <2>2, <2>5, RoundShifts
    <3> QED
      BY <2>1, <2>3, <2>5, <3>1
  <2>6. CASE j > 1 /\ RoundAt(q, j - 1, q[j].h)
    <3>1. j - 1 \in 1 .. Len(q) /\ (j - 1) + k = i - 1 /\ i > k + 1
      BY <2>1, <2>6
    <3>2. RoundAt(p, (j - 1) + k, q[j].h)
      BY <2>6, <3>1, RoundShifts
    <3> QED
      BY <2>2, <3>1, <3>2
  <2>7. CASE j > 2 /\ RoundAt(q, j - 2, q[j - 2].h)
    <3>1. j - 2 \in 1 .. Len(q) /\ (j - 2) + k = i - 2 /\ i > k + 2
      BY <2>1, <2>7
    <3>2. RoundAt(p, (j - 2) + k, q[j - 2].h)
      BY <2>7, <3>1, RoundShifts
    <3> QED
      BY <2>4, <2>7, <3>1, <3>2
  <2>8. CASE j = Len(q) /\ q[j] = Instr("write", 0) /\ (j = 1 \/ q[j - 1] = Barrier)
    BY <2>1, <2>2, <2>3, <2>8
  <2>9. \/ RoundAt(q, j, q[j].h) /\ (j = 1 \/ q[j - 1] = Barrier)
        \/ j > 1 /\ RoundAt(q, j - 1, q[j].h)
        \/ j > 2 /\ RoundAt(q, j - 2, q[j - 2].h)
        \/ j = Len(q) /\ q[j] = Instr("write", 0) /\ (j = 1 \/ q[j - 1] = Barrier)
    BY DEF HasRounds
  <2> QED
    BY <2>5, <2>6, <2>7, <2>8, <2>9
<1> QED
  BY <1>1 DEF HasRounds

\* What a level consists of.
LEMMA LevelType ==
  ASSUME NEW h \in Nat
  PROVE  /\ Level(h) \in Seq(Instructions) /\ Len(Level(h)) = 3
         /\ Level(h)[1] = Instr("load", h) /\ Level(h)[2] = Instr("store", h)
         /\ Level(h)[3] = Barrier
BY DEF Level, Instr, Barrier, Instructions

\* A level in front of the rounds that halve its stride makes rounds again.
LEMMA RoundInFront ==
  ASSUME NEW q \in Seq(Instructions), NEW h, Halves(h), GoesOn(q, 1, h \div 2), HasRounds(q, 1),
         NEW p, p = Level(h) \o q
  PROVE  p \in Seq(Instructions) /\ GoesOn(p, 1, h) /\ HasRounds(p, 1)
<1>0. h \in Nat \ {0}
  BY DEF Halves
<1>1. /\ p \in Seq(Instructions) /\ Len(q) \in Nat /\ Len(p) = 3 + Len(q)
      /\ \A j \in 1 .. Len(p) : p[j] = IF j <= 3 THEN Level(h)[j] ELSE q[j - 3]
  <2>1. Level(h) \in Seq(Instructions) /\ Len(Level(h)) = 3
    BY <1>0, LevelType
  <2>2. PICK a : a = Level(h)
    OBVIOUS
  <2>3. PICK k \in Nat : k = 3
    OBVIOUS
  <2>4. a \in Seq(Instructions) /\ q \in Seq(Instructions) /\ Len(a) = k
    BY <2>1, <2>2, <2>3
  <2>5. /\ a \o q \in Seq(Instructions) /\ Len(q) \in Nat /\ Len(a \o q) = k + Len(q)
        /\ \A j \in 1 .. Len(a \o q) : (a \o q)[j] = IF j <= k THEN a[j] ELSE q[j - k]
    BY ONLY k \in Nat, <2>4, Joined, Zenon
  <2>6. p = a \o q
    BY <2>2
  <2> QED
    BY ONLY <2>2, <2>3, <2>5, <2>6, Zenon
<1>2. 1 \in 1 .. Len(q)
  BY DEF GoesOn
<1>3. /\ p[1] = Instr("load", h) /\ p[2] = Instr("store", h) /\ p[3] = Barrier
      /\ 1 \in 1 .. Len(p) /\ 4 \in 1 .. Len(p) /\ p[4] = q[1]
  BY <1>0, <1>1, <1>2, LevelType
<1>4. ASSUME NEW j \in 1 .. Len(q) PROVE p[j + 3] = q[j]
  BY <1>1
<1>5. HasRounds(p, 4)
  <2>1. 3 \in Nat \ {0} /\ 3 + 1 = 4
    OBVIOUS
  <2> QED
    BY <1>1, <1>3, <1>4, <2>1, RoundsBehind
<1>6. p[1].h = h /\ p[2].h = h
  BY <1>3 DEF Instr
<1>7. RoundAt(p, 1, h)
  BY <1>3 DEF RoundAt, GoesOn
<1>8. ASSUME NEW i \in 1 .. Len(p)
      PROVE  \/ /\ RoundAt(p, i, p[i].h)
                /\ i = 1 \/ p[i - 1] = Barrier
             \/ i > 1 /\ RoundAt(p, i - 1, p[i].h)
             \/ i > 1 + 1 /\ RoundAt(p, i - 2, p[i - 2].h)
             \/ /\ i = Len(p) /\ p[i] = Instr("write", 0)
                /\ i = 1 \/ p[i - 1] = Barrier
  <2>1. CASE i = 1
    BY <1>6, <1>7, <2>1
  <2>2. CASE i = 2
    BY <1>6, <1>7, <2>2
  <2>3. CASE i = 3
    BY <1>6, <1>7, <2>3
  <2>4. CASE i \in 4 .. Len(p)
    <3>1. \/ /\ RoundAt(p, i, p[i].h)
             /\ i = 4 \/ p[i - 1] = Barrier
          \/ i > 4 /\ RoundAt(p, i - 1, p[i].h)
          \/ i > 4 + 1 /\ RoundAt(p, i - 2, p[i - 2].h)
          \/ /\ i = Len(p) /\ p[i] = Instr("write", 0)
             /\ i = 4 \/ p[i - 1] = Barrier
      BY <1>5, <2>4 DEF HasRounds
    <3>2. i = 4 => p[i - 1] = Barrier
      BY <1>3
    <3>3. (i > 4 => i > 1) /\ (i > 4 + 1 => i > 1 + 1)
      BY <2>4
    <3> QED
      BY <3>1, <3>2, <3>3
  <2> QED
    BY <1>1, <2>1, <2>2, <2>3, <2>4
<1>9. HasRounds(p, 1)
  BY <1>8 DEF HasRounds
<1> QED
  BY <1>0, <1>1, <1>3, <1>9 DEF GoesOn

\* The loop from a power of two on consists of rounds.
LEMMA RoundsShape ==
  ASSUME NEW s \in 0 .. GROUP_SIZE, s = 0 \/ Halves(s)
  PROVE  Rounds[s] \in Seq(Instructions) /\ GoesOn(Rounds[s], 1, s) /\ HasRounds(Rounds[s], 1)
<1> DEFINE Good(n) == /\ Rounds[n] \in Seq(Instructions)
                      /\ GoesOn(Rounds[n], 1, n) /\ HasRounds(Rounds[n], 1)
           Bad == {n \in 0 .. GROUP_SIZE : (n = 0 \/ Halves(n)) /\ ~ Good(n)}
<1> SUFFICES ASSUME Bad # {} PROVE FALSE
  OBVIOUS
<1>1. PICK n \in Bad : \A k \in Bad : n <= k
  <2>1. Bad \subseteq Nat
    OBVIOUS
  <2> HIDE DEF Bad
  <2> QED
    BY <2>1, Least
<1>2. n \in 0 .. GROUP_SIZE /\ (n = 0 \/ Halves(n)) /\ ~ Good(n)
  BY <1>1
<1>3. Rounds[n] = IF n = 0 THEN <<Instr("write", 0)>> ELSE Level(n) \o Rounds[n \div 2]
  BY <1>2, RoundsDef DEF RoundsTo
<1>4. CASE n = 0
  <2>1. PICK p : p = <<Instr("write", 0)>>
    OBVIOUS
  <2>2. p \in Seq(Instructions) /\ Len(p) = 1 /\ p[1] = Instr("write", 0)
    BY <2>1 DEF Instr, Instructions
  <2>3. GoesOn(p, 1, 0) /\ HasRounds(p, 1)
    BY <2>2 DEF GoesOn, HasRounds
  <2> QED
    BY <1>2, <1>3, <1>4, <2>1, <2>2, <2>3
<1>5. CASE n # 0
  <2>1. Halves(n) /\ n \in Nat \ {0}
    BY <1>2, <1>5
  <2>2. n \div 2 \in 0 .. GROUP_SIZE /\ n \div 2 < n
    BY <1>2, <2>1, GroupSizeType
  <2>3. n \div 2 = 0 \/ Halves(n \div 2)
    <3>1. n = 1 => n \div 2 = 0
      OBVIOUS
    <3> QED
      BY <2>1, <3>1, HalvesDown
  <2>4. n \div 2 \notin Bad
    BY <1>1, <1>2, <2>2
  <2>5. Good(n \div 2)
    BY <2>2, <2>3, <2>4
  <2> HIDE DEF Bad
  <2>6. Good(n)
    BY <1>3, <1>5, <2>1, <2>5, RoundInFront
  <2> QED
    BY <1>2, <2>6
<1> QED
  BY <1>4, <1>5

\* So does the kernel, behind the fill and its barrier.
LEMMA KernelHasShape ==
  ASSUME Sized, Halves(groupSize)
  PROVE  KernelShape(program, groupSize)
<1> DEFINE s == groupSize \div 2
           q == Rounds[s]
           front == <<Instr("fill", 0), Barrier>>
<1>1. s \in 0 .. GROUP_SIZE /\ (s = 0 \/ Halves(s))
  <2>1. groupSize \in Nat \ {0} /\ groupSize <= GROUP_SIZE
    BY GroupSizeType DEF Sized
  <2>2. s \in 0 .. GROUP_SIZE
    BY <2>1, GroupSizeType
  <2>3. groupSize = 1 => s = 0
    OBVIOUS
  <2> QED
    BY <2>2, <2>3, HalvesDown
<1>2. q \in Seq(Instructions) /\ GoesOn(q, 1, s) /\ HasRounds(q, 1)
  BY <1>1, RoundsShape
<1>3. program = front \o q
  BY DEF Sized, BuildKernel
<1>4. /\ front \in Seq(Instructions) /\ Len(front) = 2
      /\ front[1] = Instr("fill", 0) /\ front[2] = Barrier
  BY DEF Instr, Barrier, Instructions
<1> HIDE DEF q, s, front
<1>5. /\ program \in Seq(Instructions) /\ Len(q) \in Nat /\ Len(program) = 2 + Len(q)
      /\ \A j \in 1 .. Len(program) : program[j] = IF j <= 2 THEN front[j] ELSE q[j - 2]
  <2>1. PICK k \in Nat : k = 2
    OBVIOUS
  <2>2. front \in Seq(Instructions) /\ q \in Seq(Instructions) /\ Len(front) = k
    BY <1>2, <1>4, <2>1
  <2>3. /\ front \o q \in Seq(Instructions) /\ Len(q) \in Nat /\ Len(front \o q) = k + Len(q)
        /\ \A j \in 1 .. Len(front \o q) :
             (front \o q)[j] = IF j <= k THEN front[j] ELSE q[j - k]
    BY ONLY k \in Nat, <2>2, Joined, Zenon
  <2> QED
    BY ONLY <1>3, <2>1, <2>3, Zenon
<1>6. 1 \in 1 .. Len(q)
  BY <1>2 DEF GoesOn
<1>7. /\ program[1] = Instr("fill", 0) /\ program[2] = Barrier
      /\ 3 \in 1 .. Len(program) /\ program[3] = q[1]
  BY <1>4, <1>5, <1>6
<1>8. ASSUME NEW j \in 1 .. Len(q) PROVE program[j + 2] = q[j]
  BY <1>5
<1>9. HasRounds(program, 3)
  <2>1. 2 \in Nat \ {0} /\ 2 + 1 = 3
    OBVIOUS
  <2> QED
    BY <1>2, <1>5, <1>7, <1>8, <2>1, RoundsBehind
<1> QED
  BY <1>2, <1>5, <1>7, <1>9 DEF KernelShape, GoesOn, s

\* Of any size, the kernel begins with the fill.
LEMMA RoundsType ==
  ASSUME NEW s \in 0 .. GROUP_SIZE
  PROVE  Rounds[s] \in Seq(Instructions)
<1> DEFINE Bad == {n \in 0 .. GROUP_SIZE : Rounds[n] \notin Seq(Instructions)}
<1> SUFFICES ASSUME Bad # {} PROVE FALSE
  OBVIOUS
<1>1. PICK n \in Bad : \A k \in Bad : n <= k
  <2>1. Bad \subseteq Nat
    OBVIOUS
  <2> HIDE DEF Bad
  <2> QED
    BY <2>1, Least
<1>2. n \in 0 .. GROUP_SIZE /\ Rounds[n] \notin Seq(Instructions)
  BY <1>1
<1>3. Rounds[n] = IF n = 0 THEN <<Instr("write", 0)>> ELSE Level(n) \o Rounds[n \div 2]
  BY <1>2, RoundsDef DEF RoundsTo
<1>4. CASE n = 0
  BY <1>2, <1>3, <1>4 DEF Instr, Instructions
<1>5. CASE n # 0
  <2>1. n \div 2 \in 0 .. GROUP_SIZE /\ n \div 2 < n /\ n \in Nat
    BY <1>2, <1>5, GroupSizeType
  <2>2. n \div 2 \notin Bad
    BY <1>1, <1>2, <2>1
  <2>3. Rounds[n \div 2] \in Seq(Instructions)
    BY <2>1, <2>2
  <2>4. Level(n) \in Seq(Instructions)
    BY <2>1, LevelType
  <2> HIDE DEF Bad
  <2> QED
    BY <1>2, <1>3, <1>5, <2>3, <2>4
<1> QED
  BY <1>4, <1>5

\* Whatever the group size, the kernel starts with the fill.
LEMMA FirstFills ==
  ASSUME Sized
  PROVE  program[1].op = "fill"
<1> DEFINE q == Rounds[groupSize \div 2]
           front == <<Instr("fill", 0), Barrier>>
<1>1. groupSize \div 2 \in 0 .. GROUP_SIZE
  BY GroupSizeType DEF Sized
<1>2. q \in Seq(Instructions)
  BY <1>1, RoundsType
<1>3. front \in Seq(Instructions) /\ front[1].op = "fill" /\ Len(front) = 2
  BY DEF Instr, Barrier, Instructions
<1>4. program = front \o q
  BY DEF Sized, BuildKernel
<1> HIDE DEF q, front
<1>5. PICK k \in Nat : k = 2
  OBVIOUS
<1>6. Len(front \o q) = k + Len(q) /\ Len(q) \in Nat
      /\ \A j \in 1 .. Len(front \o q) : (front \o q)[j] = IF j <= k THEN front[j] ELSE q[j - k]
  <2>1. Len(front) = k
    BY <1>3, <1>5
  <2> QED
    BY ONLY k \in Nat, <1>2, <1>3, <2>1, Joined, Zenon
<1>7. (front \o q)[1] = front[1]
  BY ONLY k \in Nat, <1>5, <1>6
<1> QED
  BY <1>3, <1>4, <1>7
-----------------------------------------------------------------------------
(* The sums *)

\* Quotient and remainder are the ones that division by m leaves,
LEMMA ModIs ==
  ASSUME NEW a \in Nat, NEW m \in Nat \ {0}, NEW q \in Nat, NEW r \in 0 .. m - 1, a = q * m + r
  PROVE  a \div m = q /\ a % m = r
BY SMTT(30)

\* and every number has them.
LEMMA DivIs ==
  ASSUME NEW a \in Nat, NEW m \in Nat \ {0}
  PROVE  \E q \in Nat, r \in 0 .. m - 1 : a = q * m + r /\ a \div m = q /\ a % m = r
BY SMTT(30)

\* An element that is t modulo h is t or t + h modulo 2 * h,
LEMMA ModSplits ==
  ASSUME NEW x \in Nat, NEW h \in Nat \ {0}, NEW t \in 0 .. h - 1
  PROVE  x % h = t <=> x % (2 * h) \in {t, t + h}
<1>1. PICK q \in Nat, r \in 0 .. h - 1 : x = q * h + r /\ x % h = r
  BY DivIs
<1>2. PICK k \in Nat : q = 2 * k \/ q = 2 * k + 1
  <2>1. q \div 2 \in Nat /\ (q = 2 * (q \div 2) \/ q = 2 * (q \div 2) + 1)
    OBVIOUS
  <2> QED
    BY <2>1
<1>3. PICK m \in Nat \ {0} : m = 2 * h
  OBVIOUS
<1>4. CASE q = 2 * k
  <2>1. x = k * m + r /\ r \in 0 .. m - 1
    BY <1>1, <1>3, <1>4
  <2>2. x % m = r
    BY <2>1, ModIs
  <2> QED
    BY <1>1, <1>3, <2>2
<1>5. CASE q = 2 * k + 1
  <2>1. x = k * m + (r + h) /\ r + h \in 0 .. m - 1
    BY <1>1, <1>3, <1>5
  <2>2. x % m = r + h
    BY <2>1, ModIs
  <2> QED
    BY <1>1, <1>3, <2>2
<1> QED
  BY <1>2, <1>4, <1>5

\* so one addition of the tree joins two disjoint parts.
LEMMA PartsAdd ==
  ASSUME Sized, NEW b \in Nat, NEW h \in Nat \ {0}, NEW t \in 0 .. h - 1
  PROVE  Plus(Part(b, t, 2 * h), Part(b, t + h, 2 * h)) = Part(b, t, h)
<1>0. \A u \in Local : u \in Nat
  BY DEF Local
<1>1. \A u \in Local : u % h = t <=> u % (2 * h) \in {t, t + h}
  BY <1>0, ModSplits
<1>2. t # t + h
  OBVIOUS
<1>3. Part(b, t, 2 * h) \cap Part(b, t + h, 2 * h) = {}
  BY <1>2 DEF Part
<1>4. Part(b, t, 2 * h) \cup Part(b, t + h, 2 * h) = Part(b, t, h)
  BY <1>1 DEF Part
<1> QED
  BY <1>3, <1>4 DEF Plus

\* The host accepts a kernel of whole groups only.
LEMMA LaunchAccepted ==
  ASSUME Sized, NDRangeAccepted(globalThreads, groupSize)
  PROVE  /\ Halves(groupSize)
         /\ numBlocks \in Nat \ {0} /\ globalThreads \div groupSize = numBlocks
         /\ mBufferSize = 2 * (groupSize * numBlocks) /\ mInputSize <= mBufferSize
<1>0. groupSize \in Nat \ {0}
  BY GroupSizeType DEF Sized
<1>1. mBufferSize # 0
  BY DEF NDRangeAccepted, globalThreads, AMDGlobalThreads, RoundUpPow2, isPow2
<1>2. Halves(mBufferSize) /\ mInputSize <= mBufferSize /\ RoundUpPow2(mBufferSize) = mBufferSize
  BY <1>1, RoundUp DEF Sized
<1>3. globalThreads = mBufferSize \div 2 /\ globalThreads > 0 /\ globalThreads % groupSize = 0
  BY <1>2 DEF NDRangeAccepted, globalThreads, AMDGlobalThreads
<1>4. mBufferSize # 1
  BY <1>3
<1>5. mBufferSize = 2 * globalThreads /\ Halves(globalThreads)
  BY <1>2, <1>3, <1>4, HalvesDown
<1>6. globalThreads \in Nat \ {0}
  BY <1>5 DEF Halves
<1>7. PICK q \in Nat, r \in 0 .. groupSize - 1 :
        /\ globalThreads = q * groupSize + r
        /\ globalThreads \div groupSize = q /\ globalThreads % groupSize = r
  BY <1>0, <1>6, DivIs
<1>8. r = 0
  BY <1>3, <1>7
<1>9. globalThreads = groupSize * q
  BY <1>0, <1>7, <1>8
<1>10. Halves(groupSize) /\ q # 0
  BY <1>0, <1>5, <1>6, <1>9, DivisorHalves
<1>11. numBlocks = q
  <2>1. PICK m \in Nat \ {0} : m = groupSize * MULTIPLY
    BY <1>0 DEF MULTIPLY
  <2>2. mBufferSize = q * m + 0 /\ 0 \in 0 .. m - 1 /\ mBufferSize \in Nat
    BY <1>0, <1>5, <1>9, <2>1 DEF MULTIPLY
  <2>3. mBufferSize \div m = q
    BY <2>2, ModIs
  <2> QED
    BY <2>1, <2>3 DEF numBlocks
<1> QED
  BY <1>2, <1>5, <1>7, <1>9, <1>10, <1>11

\* What an item finds in the input belongs to it.
LEMMA FillIsPart ==
  ASSUME Sized, Accepted, NEW t \in Local
  PROVE  Sum(mInputBuffer, FillReads(t)) = Part(bid, t, groupSize)
<1>0. groupSize \in Nat \ {0} /\ t \in Nat /\ t < groupSize /\ bid \in Nat
      /\ mInputSize \in Nat \ {0} /\ numBlocks \in Nat
  BY GroupSizeType DEF Sized, Accepted, Local
<1>1. PICK v \in Nat : v = bid * groupSize + t
  BY <1>0
<1>2. FillReads(t) = {2 * v, 2 * v + 1}
  BY <1>1 DEF FillReads
<1>3. v < groupSize * numBlocks
  <2>1. bid + 1 <= numBlocks
    BY <1>0 DEF Accepted
  <2>2. (bid + 1) * groupSize <= numBlocks * groupSize
    BY <1>0, <2>1, SMTT(30)
  <2> QED
    BY <1>0, <1>1, <2>2
<1>4. 2 * v \in 0 .. mBufferSize - 1 /\ 2 * v + 1 \in 0 .. mBufferSize - 1
  <2>1. PICK w \in Nat : w = groupSize * numBlocks
    BY <1>0
  <2>2. mBufferSize = 2 * w /\ v < w
    BY <1>3, <2>1 DEF Accepted
  <2> QED
    BY <2>2
<1>5. \A a \in FillReads(t) : Fetch(mInputBuffer, a) = IF a < mInputSize THEN {a} ELSE {}
  BY <1>2, <1>4 DEF Fetch, Sized
<1>6. \A a, c \in FillReads(t) :
        a # c => Fetch(mInputBuffer, a) \cap Fetch(mInputBuffer, c) = {}
  BY <1>5
<1>7. Sum(mInputBuffer, FillReads(t)) = UNION {Fetch(mInputBuffer, a) : a \in FillReads(t)}
  BY <1>6 DEF Sum
<1>8. \A e : e \in Sum(mInputBuffer, FillReads(t)) <=> e \in FillReads(t) /\ e < mInputSize
  BY <1>5, <1>7
<1>9. ASSUME NEW e \in 0 .. mInputSize - 1
      PROVE  e \in Part(bid, t, groupSize) <=> e \in {2 * v, 2 * v + 1}
  <2>1. e \in Nat /\ (e \div 2 = v <=> e \in {2 * v, 2 * v + 1})
    BY <1>0
  <2>2. PICK u \in Int : u = e \div 2 - bid * groupSize
    BY <1>0, <2>1
  <2>3. e \div 2 = v <=> u = t
    BY <1>0, <1>1, <2>1, <2>2
  <2>4. u \in Local /\ u % groupSize = t <=> u = t
    <3>1. \A x \in Local : x % groupSize = x
      <4>1. ASSUME NEW x \in Local PROVE x % groupSize = x
        <5>1. x \in Nat /\ x \in 0 .. groupSize - 1 /\ 0 \in Nat /\ x = 0 * groupSize + x
          BY <1>0 DEF Local
        <5> QED
          BY <1>0, <5>1, ModIs
      <4> QED
        BY <4>1
    <3> QED
      BY <3>1
  <2>5. e \in Part(bid, t, groupSize) <=> u \in Local /\ u % groupSize = t
    BY <2>2 DEF Part
  <2> QED
    BY <2>1, <2>3, <2>4, <2>5
<1>10. \A e : e \in FillReads(t) /\ e < mInputSize => e \in 0 .. mInputSize - 1
  BY <1>0, <1>2
<1>11. \A e \in Part(bid, t, groupSize) : e \in 0 .. mInputSize - 1 /\ e < mInputSize
  BY <1>0 DEF Part
<1>12. \A e : e \in Part(bid, t, groupSize) <=> e \in FillReads(t) /\ e < mInputSize
  BY <1>2, <1>9, <1>10, <1>11
<1> QED
  BY <1>8, <1>12

\* The parts of all the groups are the whole input.
LEMMA GroupsCover ==
  ASSUME Sized, Accepted, DOMAIN mOutputBuffer = 0 .. mBufferSize - 1,
         \A b \in 0 .. numBlocks - 1 : mOutputBuffer[b] = Part(b, 0, 1)
  PROVE  Sum(mOutputBuffer, 0 .. numBlocks - 1) = 0 .. mInputSize - 1
<1>0. groupSize \in Nat \ {0} /\ mInputSize \in Nat \ {0} /\ numBlocks \in Nat
  BY GroupSizeType DEF Sized, Accepted
<1>1. numBlocks <= mBufferSize /\ mBufferSize \in Nat
  <2>1. numBlocks <= groupSize * numBlocks
    BY <1>0, SMTT(30)
  <2>2. PICK w \in Nat : w = groupSize * numBlocks
    BY <1>0
  <2>3. mBufferSize = 2 * w
    BY <2>2 DEF Accepted
  <2> QED
    BY <1>0, <2>1, <2>2, <2>3
<1>2. \A b \in 0 .. numBlocks - 1 : Fetch(mOutputBuffer, b) = Part(b, 0, 1)
  BY <1>0, <1>1 DEF Fetch
<1> DEFINE Block(e) == (e \div 2) \div groupSize
<1>3. ASSUME NEW e \in 0 .. mInputSize - 1
      PROVE  /\ Block(e) \in 0 .. numBlocks - 1
             /\ \A b \in 0 .. numBlocks - 1 : e \in Part(b, 0, 1) <=> b = Block(e)
  <2>1. e \in Nat /\ e \div 2 \in Nat /\ 2 * (e \div 2) <= e /\ e < mInputSize
    BY <1>0
  <2>2. PICK x \in Nat : x = e \div 2
    BY <2>1
  <2>3. PICK q \in Nat, r \in 0 .. groupSize - 1 :
          x = q * groupSize + r /\ x \div groupSize = q
    BY <1>0, <2>2, DivIs
  <2>4. Block(e) = q
    BY <2>2, <2>3
  <2>5. x < groupSize * numBlocks
    <3>1. PICK w \in Nat : w = groupSize * numBlocks
      BY <1>0
    <3>2. mBufferSize = 2 * w /\ mInputSize <= mBufferSize
      BY <3>1 DEF Accepted
    <3> QED
      BY <1>0, <2>1, <2>2, <3>1, <3>2
  <2>6. q < numBlocks
    <3> SUFFICES ASSUME q >= numBlocks PROVE FALSE
      BY <1>0
    <3>1. q * groupSize >= numBlocks * groupSize
      BY <1>0, SMTT(30)
    <3> QED
      BY <1>0, <2>3, <2>5, <3>1
  <2>7. ASSUME NEW b \in 0 .. numBlocks - 1
        PROVE  e \in Part(b, 0, 1) <=> b = q
    <3>0. b \in Nat
      BY <1>0
    <3>1. PICK u \in Int : u = x - b * groupSize
      BY <1>0, <3>0
    <3>2. u \in Nat => u % 1 = 0
      OBVIOUS
    <3>3. e \in Part(b, 0, 1) <=> u \in Local
      BY <2>2, <3>1, <3>2 DEF Part, Local
    <3>4. b = q => u \in Local
      BY <1>0, <2>3, <3>1 DEF Local
    <3>5. ASSUME u \in Local PROVE b = q
      <4>1. u \in 0 .. groupSize - 1 /\ x = b * groupSize + u
        BY <1>0, <3>0, <3>1, <3>5 DEF Local
      <4>2. x \div groupSize = b
        BY <1>0, <3>0, <4>1, ModIs
      <4> QED
        BY <2>3, <4>2
    <3> QED
      BY <3>3, <3>4, <3>5
  <2> QED
    BY <1>0, <2>4, <2>6, <2>7
<1> HIDE DEF Block
<1>4. \A b \in 0 .. numBlocks - 1 : Part(b, 0, 1) \subseteq 0 .. mInputSize - 1
  BY DEF Part
<1>5. \A b, c \in 0 .. numBlocks - 1 : b # c => Part(b, 0, 1) \cap Part(c, 0, 1) = {}
  BY <1>3, <1>4
<1>6. \A b, c \in 0 .. numBlocks - 1 :
        b # c => Fetch(mOutputBuffer, b) \cap Fetch(mOutputBuffer, c) = {}
  BY <1>2, <1>5
<1>7. Sum(mOutputBuffer, 0 .. numBlocks - 1)
        = UNION {Fetch(mOutputBuffer, b) : b \in 0 .. numBlocks - 1}
  BY <1>6 DEF Sum
<1>8. \A e : e \in Sum(mOutputBuffer, 0 .. numBlocks - 1)
               <=> \E b \in 0 .. numBlocks - 1 : e \in Part(b, 0, 1)
  BY <1>2, <1>7
<1> QED
  BY <1>3, <1>4, <1>8
-----------------------------------------------------------------------------
(* Where an item is in the kernel *)

\* How the kernel starts.
LEMMA Lengths ==
  ASSUME KernelShape(program, groupSize)
  PROVE  /\ Len(program) \in Nat /\ Len(program) >= 3
         /\ program[1].op = "fill" /\ program[2].op = "barrier" /\ program[2] = Barrier
         /\ Barrier.op = "barrier"
BY DEF KernelShape, GoesOn, Instr, Barrier

\* What a round consists of.
LEMMA RoundIs ==
  ASSUME KernelShape(program, groupSize), NEW i \in 3 .. Len(program), NEW h,
         RoundAt(program, i, h)
  PROVE  /\ h \in Nat \ {0} /\ Halves(h) /\ i + 3 \in 3 .. Len(program)
         /\ program[i].op = "load" /\ program[i].h = h
         /\ program[i + 1].op = "store" /\ program[i + 1].h = h
         /\ program[i + 2].op = "barrier" /\ program[i + 2] = Barrier
BY DEF RoundAt, GoesOn, Halves, Instr, Barrier

\* Each instruction of the rounds is one of four.
LEMMA OpIs ==
  ASSUME KernelShape(program, groupSize), NEW i \in 3 .. Len(program)
  PROVE  \/ program[i].op = "load" /\ RoundAt(program, i, program[i].h) /\ program[i - 1] = Barrier
         \/ program[i].op = "store" /\ i - 1 \in 3 .. Len(program)
              /\ RoundAt(program, i - 1, program[i].h)
         \/ program[i].op = "barrier" /\ i - 2 \in 3 .. Len(program)
              /\ RoundAt(program, i - 2, program[i - 2].h)
         \/ program[i].op = "write" /\ i = Len(program) /\ program[i - 1] = Barrier
<1>0. Len(program) \in Nat /\ Len(program) >= 3 /\ program[2] = Barrier
  BY Lengths
<1>1. i = 3 => program[i - 1] = Barrier
  BY <1>0
<1>2. \/ RoundAt(program, i, program[i].h) /\ (i = 3 \/ program[i - 1] = Barrier)
      \/ i > 3 /\ RoundAt(program, i - 1, program[i].h)
      \/ i > 3 + 1 /\ RoundAt(program, i - 2, program[i - 2].h)
      \/ i = Len(program) /\ program[i] = Instr("write", 0) /\ (i = 3 \/ program[i - 1] = Barrier)
  BY DEF KernelShape, HasRounds
<1>3. CASE RoundAt(program, i, program[i].h) /\ (i = 3 \/ program[i - 1] = Barrier)
  BY <1>1, <1>3, RoundIs
<1>4. CASE i > 3 /\ RoundAt(program, i - 1, program[i].h)
  <2>1. i - 1 \in 3 .. Len(program) /\ (i - 1) + 1 = i
    BY <1>0, <1>4
  <2>2. program[(i - 1) + 1].op = "store"
    BY <1>4, <2>1, RoundIs
  <2> QED
    BY <1>4, <2>1, <2>2
<1>5. CASE i > 3 + 1 /\ RoundAt(program, i - 2, program[i - 2].h)
  <2>1. i - 2 \in 3 .. Len(program) /\ (i - 2) + 2 = i
    BY <1>0, <1>5
  <2>2. program[(i - 2) + 2].op = "barrier"
    BY <1>5, <2>1, RoundIs
  <2> QED
    BY <1>5, <2>1, <2>2
<1>6. CASE i = Len(program) /\ program[i] = Instr("write", 0) /\ (i = 3 \/ program[i - 1] = Barrier)
  BY <1>1, <1>6 DEF Instr
<1> QED
  BY <1>2, <1>3, <1>4, <1>5, <1>6

\* Only the first instruction fills; the others but the first barrier are in the rounds.
LEMMA FillIsFirst ==
  ASSUME KernelShape(program, groupSize), NEW i \in 1 .. Len(program)
  PROVE  /\ program[i].op = "fill" => i = 1
         /\ program[i].op \notin {"fill", "barrier"} => i \in 3 .. Len(program)
         /\ program[i].op = "barrier" => program[i] = Barrier /\ i # 1
<1>1. CASE i \in {1, 2}
  BY <1>1, Lengths
<1>2. CASE i \in 3 .. Len(program)
  <2>1. program[i].op # "fill"
    BY <1>2, OpIs
  <2>2. ASSUME program[i].op = "barrier" PROVE program[i] = Barrier
    <3>1. PICK k : k = i - 2
      OBVIOUS
    <3>2. k \in 3 .. Len(program) /\ RoundAt(program, k, program[k].h)
      BY <1>2, <2>2, <3>1, OpIs
    <3>3. program[k + 2] = Barrier
      BY <3>2, RoundIs
    <3>4. k + 2 = i
      BY <1>2, <3>1
    <3> QED
      BY <3>3, <3>4
  <2> QED
    BY <1>2, <2>1, <2>2
<1> QED
  BY <1>1, <1>2, Lengths

\* Items around one that is between two barriers.
LEMMA NearBy ==
  ASSUME KernelShape(program, groupSize), Typed, InStep, NEW t \in Local, NEW u \in Local,
         NEW i \in 3 .. Len(program), NEW h, RoundAt(program, i, h), program[i - 1] = Barrier,
         at[t] \in {i, i + 1}
  PROVE  at[u] \in {i - 1, i, i + 1, i + 2}
<1>1. i - 1 \in 1 .. Len(program) /\ i + 2 \in 1 .. Len(program) /\ program[i + 2] = Barrier
  BY Lengths, RoundIs
<1>2. at[t] \in Nat /\ at[u] \in Nat
  BY DEF Typed
<1>3. at[u] >= i - 1
  BY <1>1, <1>2 DEF InStep
<1>4. at[u] > i + 2 => at[t] >= i + 2
  BY <1>1 DEF InStep
<1> QED
  BY <1>2, <1>3, <1>4

\* An item that waits at a barrier has what the next round, or the write, needs.
LEMMA Waits ==
  ASSUME Accepted, NEW t \in Local, NEW m \in 1 .. Len(program), SumOf(t),
         at[t] = m, program[m].op = "barrier"
  PROVE  \E s : Halves(s) /\ Holds(t, s) /\ GoesOn(program, m + 1, s \div 2)
<1>0. KernelShape(program, groupSize) /\ Halves(groupSize)
  BY DEF Accepted
<1>1. CASE m = 2
  <2>1. Holds(t, groupSize) /\ GoesOn(program, m + 1, groupSize \div 2)
    BY <1>0, <1>1 DEF SumOf, KernelShape
  <2> QED
    BY <1>0, <2>1
<1>2. CASE m # 2
  <2>1. m \in 3 .. Len(program)
    BY <1>0, <1>2, Lengths, FillIsFirst
  <2>2. m - 2 \in 3 .. Len(program) /\ RoundAt(program, m - 2, program[m - 2].h)
    BY <1>0, <2>1, OpIs
  <2>3. PICK h : h = program[m - 2].h
    OBVIOUS
  <2>4. InRound(t, m - 2, h) /\ (m - 2) + 2 = m /\ (m - 2) + 3 = m + 1
    BY <2>2, <2>3 DEF SumOf
  <2>5. Halves(h) /\ GoesOn(program, m + 1, h \div 2)
    BY <2>2, <2>3, <2>4 DEF RoundAt
  <2>6. Holds(t, h)
    BY <2>4 DEF InRound
  <2> QED
    BY <2>5, <2>6
<1> QED
  BY <1>1, <1>2

\* The next round has half of the stride.
LEMMA NextRound ==
  ASSUME NEW p, NEW i, NEW s, NEW h, Halves(s), GoesOn(p, i, s \div 2), p[i].op = "load",
         p[i].h = h
  PROVE  s = 2 * h
<1>1. s \div 2 # 0 /\ h = s \div 2
  BY DEF GoesOn, Instr
<1>2. s # 1
  BY <1>1
<1> QED
  BY <1>1, <1>2, HalvesDown

\* The other operand of an addition is there, and nobody has changed it.
LEMMA Operand ==
  ASSUME Accepted, Typed, InStep, NEW t \in Local, NEW u \in Local, SumOf(u),
         NEW i \in 3 .. Len(program), NEW h, RoundAt(program, i, h), program[i - 1] = Barrier,
         at[t] = i, u >= h, u < 2 * h
  PROVE  sdata[u] = Part(bid, u, 2 * h)
<1>0. KernelShape(program, groupSize)
  BY DEF Accepted
<1>1. program[i].op = "load" /\ program[i].h = h
  BY <1>0, RoundIs
<1>2. InRound(u, i, h)
  BY <1>1 DEF SumOf
<1>3. Holds(u, 2 * h)
  <2>1. CASE at[u] = i - 1
    <3>1. i - 1 \in 1 .. Len(program) /\ program[i - 1].op = "barrier" /\ (i - 1) + 1 = i
      BY <1>0, Lengths
    <3>2. PICK s : Halves(s) /\ Holds(u, s) /\ GoesOn(program, i, s \div 2)
      BY <2>1, <3>1, Waits
    <3>3. s = 2 * h
      BY <1>1, <3>2, NextRound
    <3> QED
      BY <3>2, <3>3
  <2>2. CASE at[u] \in {i, i + 1}
    BY <1>2, <2>2 DEF InRound
  <2>3. CASE at[u] = i + 2
    BY <1>2, <2>3 DEF InRound
  <2>4. at[u] \in {i - 1, i, i + 1, i + 2}
    BY <1>0, NearBy
  <2> QED
    BY <2>1, <2>2, <2>3, <2>4
<1> QED
  BY <1>3 DEF Holds
-----------------------------------------------------------------------------
(* Every step keeps the invariant *)

\* A step of an item moves that one on and leaves the plan alone.
Moves(t) ==
  /\ at[t] \in 1 .. Len(program) /\ Advance(t)
  /\ UNCHANGED <<plan, bid, state, result>>

\* What the state of a group is defined on.
LEMMA LocalIs ==
  ASSUME Sized, Typed
  PROVE  /\ DOMAIN at = Local /\ 0 \in Local /\ Local \subseteq Nat
         /\ \A t \in Local : at[t] \in Nat \ {0}
BY GroupSizeType DEF Sized, Typed, Local

\* What the plan of the sum defines is kept with it.
LEMMA PlanKept ==
  ASSUME Sized, UNCHANGED plan
  PROVE  /\ Sized' /\ Local' = Local /\ Len(program)' = Len(program)
         /\ numBlocks' = numBlocks /\ globalThreads' = globalThreads
         /\ \A b, t, m : Part(b, t, m)' = Part(b, t, m)
<1>1. Sized'
  BY DEF Sized, plan
<1>2. Local' = Local /\ Len(program)' = Len(program)
  BY DEF plan, Local
<1>3. numBlocks' = numBlocks /\ globalThreads' = globalThreads
  BY DEF plan, numBlocks, globalThreads
<1>4. \A b, t, m : Part(b, t, m)' = Part(b, t, m)
  BY <1>2 DEF plan, Part
<1> QED
  BY <1>1, <1>2, <1>3, <1>4

\* So is what made OpenCL accept the kernel.
LEMMA AcceptedKept ==
  ASSUME Sized, Accepted, UNCHANGED plan, bid' \in 0 .. numBlocks - 1
  PROVE  Accepted'
<1>1. numBlocks' = numBlocks /\ globalThreads' = globalThreads
  BY PlanKept
<1> QED
  BY <1>1 DEF Accepted, plan

\* An item that moves keeps the types.
LEMMA TypedMoves ==
  ASSUME Sized, Typed, NEW t \in Local, Moves(t),
         DOMAIN sdata' = Local, DOMAIN reg' = Local, DOMAIN mOutputBuffer' = 0 .. mBufferSize - 1
  PROVE  /\ Typed' /\ at'[t] = at[t] + 1
         /\ \A u \in Local : u # t => at'[u] = at[u]
<1>1. at' = [at EXCEPT ![t] = at[t] + 1] /\ at \in [Local -> Nat \ {0}] /\ at[t] + 1 \in Nat \ {0}
  BY DEF Moves, Advance, Typed
<1>2. /\ at' \in [Local -> Nat \ {0}] /\ at'[t] = at[t] + 1
      /\ \A u \in Local : u # t => at'[u] = at[u]
  BY <1>1
<1>3. Local' = Local
  BY PlanKept DEF Moves
<1> QED
  BY <1>2, <1>3 DEF Typed, Moves, plan

\* Only a barrier that all have reached is passed.
LEMMA InStepMoves ==
  ASSUME Sized, Typed, Accepted, InStep, NEW t \in Local, Moves(t),
         at'[t] = at[t] + 1, \A u \in Local : u # t => at'[u] = at[u],
         program[at[t]] = Barrier => \A u \in Local : at[u] >= at[t]
  PROVE  InStep'
<1>0. /\ Local' = Local /\ program' = program /\ Len(program) \in Nat
      /\ \A x \in Local : at[x] \in Nat
  BY PlanKept, LocalIs, Lengths DEF Moves, plan, Accepted
<1>1. ASSUME NEW x \in Local PROVE at'[x] <= Len(program) + 1
  BY <1>0 DEF Moves, InStep
<1>2. ASSUME NEW x \in Local, NEW y \in Local, NEW j \in 1 .. Len(program),
             program[j] = Barrier, at'[x] > j
      PROVE  at'[y] >= j
  <2>1. at'[y] >= at[y]
    BY <1>0
  <2>2. at[y] >= j
    <3>1. CASE x = t
      <4>1. at[t] = j \/ at[t] > j
        BY <1>0, <1>2, <3>1
      <4> QED
        BY <1>2, <4>1 DEF InStep
    <3>2. CASE x # t
      BY <1>2, <3>2 DEF InStep
    <3> QED
      BY <3>1, <3>2
  <2> QED
    BY <1>0, <2>1, <2>2
<1> QED
  BY <1>0, <1>1, <1>2 DEF InStep

\* An item that a step leaves alone keeps what it holds.
LEMMA SumOfKept ==
  ASSUME Sized, Accepted, UNCHANGED <<plan, bid>>, NEW u \in Local, SumOf(u),
         at'[u] = at[u], sdata'[u] = sdata[u], reg'[u] = reg[u],
         u = 0 => mOutputBuffer'[bid] = mOutputBuffer[bid]
  PROVE  SumOf(u)'
<1>1. /\ program' = program /\ groupSize' = groupSize /\ bid' = bid /\ Len(program)' = Len(program)
      /\ \A b, t, m : Part(b, t, m)' = Part(b, t, m)
  BY PlanKept DEF plan
<1>2. \A m : Holds(u, m) => Holds(u, m)'
  BY <1>1 DEF Holds
<1>3. \A i, h : InRound(u, i, h) => InRound(u, i, h)'
  BY <1>1, <1>2 DEF InRound
<1>4. \A i, h : RoundAt(program, i, h)' <=> RoundAt(program, i, h)
  BY <1>1 DEF RoundAt, GoesOn
<1>5. \A i \in 3 .. Len(program) :
        RoundAt(program, i, program[i].h) => InRound(u, i, program[i].h)
  BY DEF SumOf
<1>6. \A i \in 3 .. Len(program)' :
        RoundAt(program, i, program[i].h)' => InRound(u, i, program[i].h)'
  BY <1>1, <1>3, <1>4, <1>5
<1>7. (at[u] = 2 => Holds(u, groupSize))'
  BY <1>1, <1>2 DEF SumOf
<1>8. (at[u] = Len(program) => Holds(u, 1))'
  BY <1>1, <1>2 DEF SumOf
<1>9. (at[u] > Len(program) /\ u = 0 => mOutputBuffer[bid] = Part(bid, 0, 1))'
  <2>1. Part(bid, 0, 1)' = Part(bid, 0, 1)
    BY <1>1
  <2> QED
    BY <1>1, <2>1 DEF SumOf
<1> QED
  BY <1>6, <1>7, <1>8, <1>9 DEF SumOf

\* An item that arrives at a load or a store of a round, or at its barrier,
\* is in no other round.
LEMMA InThisRound ==
  ASSUME Sized, Accepted, UNCHANGED <<plan, bid>>, NEW t \in Local, NEW h,
         NEW i \in 3 .. Len(program), RoundAt(program, i, h), at'[t] \in {i, i + 1, i + 2},
         InRound(t, i, h)'
  PROVE  SumOf(t)'
<1>0. KernelShape(program, groupSize)
  BY DEF Accepted
<1>1. /\ program' = program /\ Len(program)' = Len(program)
      /\ \A j, k : RoundAt(program, j, k)' <=> RoundAt(program, j, k)
  BY PlanKept DEF plan, RoundAt, GoesOn
<1>2. Len(program) \in Nat /\ i + 3 <= Len(program) /\ i >= 3
  <2>1. Len(program) \in Nat /\ i + 3 \in 3 .. Len(program)
    BY <1>0, Lengths, RoundIs
  <2> QED
    BY <2>1
<1>3. at'[t] # 2 /\ at'[t] # Len(program) /\ ~ (at'[t] > Len(program))
  BY <1>2
<1>4. /\ program[i].op = "load" /\ program[i].h = h
      /\ program[i + 1].op = "store" /\ program[i + 2].op = "barrier"
  BY <1>0, RoundIs
<1>5. ASSUME NEW j \in 3 .. Len(program), RoundAt(program, j, program[j].h)
      PROVE  InRound(t, j, program[j].h)'
  <2>1. CASE i = j
    BY <1>1, <1>4, <2>1
  <2>2. CASE i # j
    <3>1. program[j].op = "load" /\ program[j + 1].op = "store" /\ program[j + 2].op = "barrier"
      BY <1>0, <1>5, RoundIs
    <3>2. at'[t] \notin {j, j + 1, j + 2}
      <4>1. CASE at'[t] = i
        <5>1. i # j + 1 /\ i # j + 2
          BY <1>4, <3>1
        <5> QED
          BY <2>2, <4>1, <5>1
      <4>2. CASE at'[t] = i + 1
        <5>1. i + 1 # j /\ i + 1 # j + 2
          BY <1>4, <3>1
        <5> QED
          BY <2>2, <4>2, <5>1
      <4>3. CASE at'[t] = i + 2
        <5>1. i + 2 # j /\ i + 2 # j + 1
          BY <1>4, <3>1
        <5> QED
          BY <2>2, <4>3, <5>1
      <4> QED
        BY <4>1, <4>2, <4>3
    <3> QED
      BY <3>2 DEF InRound
  <2> QED
    BY <2>1, <2>2
<1> QED
  BY <1>1, <1>3, <1>5 DEF SumOf

\* An item behind a barrier has what it had before it.
LEMMA Arrives ==
  ASSUME Sized, Accepted, UNCHANGED <<plan, bid>>, NEW t \in Local, NEW s, Halves(s),
         NEW m \in 3 .. Len(program), at'[t] = m, GoesOn(program, m, s \div 2), Holds(t, s)'
  PROVE  SumOf(t)'
<1>0. KernelShape(program, groupSize)
  BY DEF Accepted
<1>1. /\ program' = program /\ Len(program)' = Len(program)
      /\ \A j, k : RoundAt(program, j, k)' <=> RoundAt(program, j, k)
  BY PlanKept DEF plan, RoundAt, GoesOn
<1>2. CASE s \div 2 # 0
  <2>1. PICK h : h = s \div 2
    OBVIOUS
  <2>2. program[m].op = "load" /\ program[m].h = h
    BY <1>2, <2>1 DEF GoesOn, Instr
  <2>3. RoundAt(program, m, h)
    BY <1>0, <2>2, OpIs
  <2>4. s = 2 * h
    BY <2>2, NextRound
  <2>5. InRound(t, m, h)'
    BY <2>4 DEF InRound
  <2> QED
    BY <2>3, <2>5, InThisRound
<1>3. CASE s \div 2 = 0
  <2>1. program[m].op = "write"
    BY <1>3 DEF GoesOn, Instr
  <2>2. m = Len(program) /\ m # 2 /\ ~ (m > Len(program))
    BY <1>0, <2>1, OpIs
  <2>3. s = 1
    <3>1. s # 1 => s = 2 * (s \div 2)
      BY HalvesDown
    <3>2. s # 0
      BY DEF Halves
    <3> QED
      BY <1>3, <3>1, <3>2
  <2>4. ASSUME NEW j \in 3 .. Len(program), RoundAt(program, j, program[j].h)
        PROVE  InRound(t, j, program[j].h)'
    <3>1. j + 3 <= Len(program) /\ Len(program) \in Nat
      BY <1>0, <2>4, RoundIs, Lengths
    <3>2. at'[t] \notin {j, j + 1, j + 2}
      BY <2>2, <3>1
    <3> QED
      BY <3>2 DEF InRound
  <2> QED
    BY <1>1, <2>2, <2>3, <2>4 DEF SumOf
<1> QED
  BY <1>2, <1>3
-----------------------------------------------------------------------------
Running == Sized /\ Typed /\ Started /\ state = "running"

\* The fill leaves every item with the sum of its two input elements.
LEMMA FillStep ==
  ASSUME Running, NEW t \in Local, Fill(t)
  PROVE  Typed' /\ Started'
<1>0. Sized /\ Typed /\ Accepted /\ InStep /\ Written /\ KernelShape(program, groupSize)
  BY DEF Running, Started, Accepted
<1>1. at[t] \in 1 .. Len(program) /\ program[at[t]].op = "fill" /\ at[t] = 1
  BY <1>0, LocalIs, Lengths, FillIsFirst DEF Fill, Executes
<1>2. /\ Moves(t) /\ reg' = reg /\ mOutputBuffer' = mOutputBuffer
      /\ UNCHANGED <<plan, bid, state, result>>
  BY <1>1 DEF Fill, Moves
<1>3. /\ DOMAIN sdata' = Local /\ sdata'[t] = Part(bid, t, groupSize)
      /\ \A u \in Local : u # t => sdata'[u] = sdata[u]
  BY <1>0, FillIsPart DEF Fill, Typed
<1>4. Typed' /\ at'[t] = at[t] + 1 /\ \A u \in Local : u # t => at'[u] = at[u]
  BY <1>0, <1>2, <1>3, TypedMoves DEF Typed
<1>5. program[at[t]] # Barrier
  BY <1>1, <1>0, Lengths
<1>6. InStep'
  BY <1>0, <1>2, <1>4, <1>5, InStepMoves
<1>7. Local' = Local /\ Accepted' /\ \A b, x, m : Part(b, x, m)' = Part(b, x, m)
  BY <1>0, <1>2, PlanKept, AcceptedKept DEF Accepted
<1>8. ASSUME NEW u \in Local, u # t PROVE SumOf(u)'
  <2>1. SumOf(u) /\ at'[u] = at[u] /\ sdata'[u] = sdata[u] /\ reg'[u] = reg[u]
    BY <1>2, <1>3, <1>4, <1>8 DEF Running, Started
  <2> QED
    BY <1>0, <1>2, <2>1, SumOfKept
<1>9. SumOf(t)'
  <2>1. at'[t] = 2 /\ Len(program)' = Len(program) /\ Len(program) \in Nat /\ Len(program) >= 3
    BY <1>0, <1>1, <1>2, <1>4, PlanKept, Lengths
  <2>2. Holds(t, groupSize)'
    <3>1. groupSize' = groupSize /\ bid' = bid /\ groupSize \in Nat
      BY <1>0, <1>2, GroupSizeType DEF plan, Sized
    <3> QED
      BY <1>3, <1>7, <3>1 DEF Holds
  <2>3. \A h : \A i \in 3 .. Len(program) : InRound(t, i, h)'
    BY <2>1 DEF InRound
  <2> QED
    BY <2>1, <2>2, <2>3 DEF SumOf
<1>10. Written'
  BY <1>0, <1>2, <1>7 DEF Written
<1> QED
  BY <1>4, <1>6, <1>7, <1>8, <1>9, <1>10 DEF Started

\* A load has its partner's part of the level before: the barrier kept it there.
LEMMA LoadStep ==
  ASSUME Running, NEW t \in Local, Load(t)
  PROVE  Typed' /\ Started'
<1>0. Sized /\ Typed /\ Accepted /\ InStep /\ Written /\ KernelShape(program, groupSize)
  BY DEF Running, Started, Accepted
<1>1. PICK i \in 3 .. Len(program), h \in Nat \ {0} :
        /\ at[t] = i /\ program[i].op = "load" /\ program[i].h = h
        /\ RoundAt(program, i, h) /\ program[i - 1] = Barrier
  <2>1. at[t] \in 1 .. Len(program) /\ program[at[t]].op = "load"
    BY <1>0, LocalIs DEF Load, Executes
  <2>2. at[t] \in 3 .. Len(program)
    BY <1>0, <2>1, FillIsFirst
  <2>3. RoundAt(program, at[t], program[at[t]].h) /\ program[at[t] - 1] = Barrier
    BY <1>0, <2>1, <2>2, OpIs
  <2>4. program[at[t]].h \in Nat \ {0}
    BY <1>0, <2>2, <2>3, RoundIs
  <2> QED
    BY <2>1, <2>2, <2>3, <2>4
<1>2. /\ Moves(t) /\ sdata' = sdata /\ mOutputBuffer' = mOutputBuffer
      /\ UNCHANGED <<plan, bid, state, result>>
  <2>1. at[t] \in 1 .. Len(program)
    BY <1>1
  <2> QED
    BY <2>1 DEF Load, Moves
<1>3. /\ DOMAIN reg' = Local /\ \A u \in Local : u # t => reg'[u] = reg[u]
      /\ t < h => reg'[t] = Plus(sdata[t], Fetch(sdata, t + h))
  BY <1>0, <1>1 DEF Load, Typed, Busy, Stride
<1>4. Typed' /\ at'[t] = at[t] + 1 /\ \A u \in Local : u # t => at'[u] = at[u]
  BY <1>0, <1>2, <1>3, TypedMoves DEF Typed
<1>5. program[at[t]] # Barrier
  BY <1>0, <1>1, Lengths
<1>6. InStep'
  BY <1>0, <1>2, <1>4, <1>5, InStepMoves
<1>7. Local' = Local /\ Accepted' /\ \A b, x, m : Part(b, x, m)' = Part(b, x, m)
  BY <1>0, <1>2, PlanKept, AcceptedKept DEF Accepted
<1>8. ASSUME NEW u \in Local, u # t PROVE SumOf(u)'
  <2>1. SumOf(u) /\ at'[u] = at[u] /\ sdata'[u] = sdata[u] /\ reg'[u] = reg[u]
    BY <1>2, <1>3, <1>4, <1>8 DEF Running, Started
  <2> QED
    BY <1>0, <1>2, <2>1, SumOfKept
<1>9. SumOf(t)'
  <2>0. groupSize' = groupSize /\ bid' = bid /\ groupSize \in Nat /\ t \in Nat
    BY <1>0, <1>2, GroupSizeType, LocalIs DEF plan, Sized
  <2>1. Holds(t, 2 * h)
    BY <1>1 DEF Running, Started, SumOf, InRound
  <2>2. t < h => reg'[t] = Part(bid, t, h)
    <3> SUFFICES ASSUME t < h PROVE reg'[t] = Part(bid, t, h)
      OBVIOUS
    <3>1. PICK u \in Nat : u = t + h
      BY <2>0
    <3>2. u \in Local /\ u >= h /\ u < 2 * h
      BY <2>0, <2>1, <3>1 DEF Holds, Local
    <3>3. SumOf(u)
      BY <3>2 DEF Running, Started
    <3>4. sdata[u] = Part(bid, u, 2 * h)
      BY <1>0, <1>1, <3>2, <3>3, Operand
    <3>5. Fetch(sdata, t + h) = Part(bid, t + h, 2 * h)
      BY <1>0, <3>1, <3>2, <3>4 DEF Fetch, Typed
    <3>6. sdata[t] = Part(bid, t, 2 * h)
      BY <2>0, <2>1 DEF Holds
    <3>7. Plus(Part(bid, t, 2 * h), Part(bid, t + h, 2 * h)) = Part(bid, t, h)
      <4>1. bid \in Nat /\ t \in 0 .. h - 1
        BY <1>0, <2>0 DEF Accepted
      <4> QED
        BY <1>0, <4>1, PartsAdd
    <3> QED
      BY <1>3, <3>5, <3>6, <3>7
  <2>3. at'[t] = i + 1
    BY <1>1, <1>4
  <2>4. Holds(t, 2 * h)'
    BY <1>2, <1>7, <2>0, <2>1 DEF Holds
  <2>5. (t < h => reg[t] = Part(bid, t, h))'
    BY <1>7, <2>0, <2>2
  <2>6. InRound(t, i, h)'
    BY <2>3, <2>4, <2>5 DEF InRound
  <2> QED
    BY <1>0, <1>1, <1>2, <2>3, <2>6, InThisRound
<1>10. Written'
  BY <1>0, <1>2, <1>7 DEF Written
<1> QED
  BY <1>4, <1>6, <1>7, <1>8, <1>9, <1>10 DEF Started

\* A store disturbs no item that still loads.
LEMMA StoreStep ==
  ASSUME Running, NEW t \in Local, Store(t)
  PROVE  Typed' /\ Started'
<1>0. Sized /\ Typed /\ Accepted /\ InStep /\ Written /\ KernelShape(program, groupSize)
  BY DEF Running, Started, Accepted
<1>1. PICK i \in 3 .. Len(program), h \in Nat \ {0} :
        at[t] = i + 1 /\ program[i + 1].op = "store" /\ program[i + 1].h = h
        /\ RoundAt(program, i, h)
  <2>1. at[t] \in 1 .. Len(program) /\ program[at[t]].op = "store"
    BY <1>0, LocalIs DEF Store, Executes
  <2>2. at[t] \in 3 .. Len(program)
    BY <1>0, <2>1, FillIsFirst
  <2>3. PICK i : i = at[t] - 1
    OBVIOUS
  <2>4. i \in 3 .. Len(program) /\ RoundAt(program, i, program[at[t]].h) /\ at[t] = i + 1
    BY <1>0, <2>1, <2>2, <2>3, OpIs
  <2>5. program[at[t]].h \in Nat \ {0}
    BY <1>0, <2>4, RoundIs
  <2> QED
    BY <2>1, <2>4, <2>5
<1>2. /\ Moves(t) /\ reg' = reg /\ mOutputBuffer' = mOutputBuffer
      /\ UNCHANGED <<plan, bid, state, result>>
  <2>1. at[t] \in 1 .. Len(program)
    BY <1>0, LocalIs DEF Store, Executes
  <2> QED
    BY <2>1 DEF Store, Moves
<1>3. /\ DOMAIN sdata' = Local /\ \A u \in Local : u # t => sdata'[u] = sdata[u]
      /\ sdata'[t] = IF t < h THEN reg[t] ELSE sdata[t]
  BY <1>0, <1>1 DEF Store, Typed, Busy
<1>4. Typed' /\ at'[t] = at[t] + 1 /\ \A u \in Local : u # t => at'[u] = at[u]
  BY <1>0, <1>2, <1>3, TypedMoves DEF Typed
<1>5. program[at[t]] # Barrier
  BY <1>0, <1>1, Lengths
<1>6. InStep'
  BY <1>0, <1>2, <1>4, <1>5, InStepMoves
<1>7. Local' = Local /\ Accepted' /\ \A b, x, m : Part(b, x, m)' = Part(b, x, m)
  BY <1>0, <1>2, PlanKept, AcceptedKept DEF Accepted
<1>8. ASSUME NEW u \in Local, u # t PROVE SumOf(u)'
  <2>1. SumOf(u) /\ at'[u] = at[u] /\ sdata'[u] = sdata[u] /\ reg'[u] = reg[u]
    BY <1>2, <1>3, <1>4, <1>8 DEF Running, Started
  <2> QED
    BY <1>0, <1>2, <2>1, SumOfKept
<1>9. SumOf(t)'
  <2>0. groupSize' = groupSize /\ bid' = bid /\ groupSize \in Nat /\ t \in Nat
    BY <1>0, <1>2, GroupSizeType, LocalIs DEF plan, Sized
  <2>1. Holds(t, 2 * h) /\ (t < h => reg[t] = Part(bid, t, h))
    <3>1. program[i].h = h
      BY <1>0, <1>1, RoundIs
    <3> QED
      BY <1>1, <3>1 DEF Running, Started, SumOf, InRound
  <2>2. at'[t] = i + 2
    BY <1>1, <1>4
  <2>3. Holds(t, h)'
    BY <1>3, <1>7, <2>0, <2>1 DEF Holds
  <2>4. (t >= h => Holds(t, 2 * h))'
    BY <1>3, <1>7, <2>0, <2>1 DEF Holds
  <2>5. InRound(t, i, h)'
    BY <2>2, <2>3, <2>4 DEF InRound
  <2> QED
    BY <1>0, <1>1, <1>2, <2>2, <2>5, InThisRound
<1>10. Written'
  BY <1>0, <1>2, <1>7 DEF Written
<1> QED
  BY <1>4, <1>6, <1>7, <1>8, <1>9, <1>10 DEF Started

\* The write of item 0 is the part of the group.
LEMMA WriteStep ==
  ASSUME Running, NEW t \in Local, Write(t)
  PROVE  Typed' /\ Started'
<1>0. Sized /\ Typed /\ Accepted /\ InStep /\ Written /\ KernelShape(program, groupSize)
  BY DEF Running, Started, Accepted
<1>1. at[t] \in 3 .. Len(program) /\ program[at[t]].op = "write" /\ at[t] = Len(program)
  <2>1. at[t] \in 1 .. Len(program) /\ program[at[t]].op = "write"
    BY <1>0, LocalIs DEF Write, Executes
  <2>2. at[t] \in 3 .. Len(program)
    BY <1>0, <2>1, FillIsFirst
  <2> QED
    BY <1>0, <2>1, <2>2, OpIs
<1>2. Moves(t) /\ sdata' = sdata /\ reg' = reg /\ UNCHANGED <<plan, bid, state, result>>
  <2>1. at[t] \in 1 .. Len(program)
    BY <1>1
  <2> QED
    BY <2>1 DEF Write, Moves
<1>3. bid \in Nat /\ mBufferSize \in Nat /\ bid \in 0 .. mBufferSize - 1
  <2>1. groupSize \in Nat \ {0} /\ numBlocks \in Nat /\ bid \in 0 .. numBlocks - 1
    BY <1>0, GroupSizeType DEF Sized, Accepted
  <2>2. numBlocks <= groupSize * numBlocks
    BY <2>1, SMTT(30)
  <2>3. PICK w \in Nat : w = groupSize * numBlocks
    BY <2>1
  <2>4. mBufferSize = 2 * w
    BY <1>0, <2>3 DEF Accepted
  <2> QED
    BY <2>1, <2>2, <2>3, <2>4
<1>4. /\ DOMAIN mOutputBuffer' = 0 .. mBufferSize - 1
      /\ \A b \in 0 .. mBufferSize - 1 : b # bid => mOutputBuffer'[b] = mOutputBuffer[b]
      /\ mOutputBuffer'[bid] = IF t = 0 THEN sdata[0] ELSE mOutputBuffer[bid]
  BY <1>0, <1>3 DEF Write, Typed
<1>5. Typed' /\ at'[t] = at[t] + 1 /\ \A u \in Local : u # t => at'[u] = at[u]
  BY <1>0, <1>2, <1>4, TypedMoves DEF Typed
<1>6. program[at[t]] # Barrier
  BY <1>0, <1>1, Lengths
<1>7. InStep'
  BY <1>0, <1>2, <1>5, <1>6, InStepMoves
<1>8. Local' = Local /\ Accepted' /\ \A b, x, m : Part(b, x, m)' = Part(b, x, m)
  BY <1>0, <1>2, PlanKept, AcceptedKept DEF Accepted
<1>9. ASSUME NEW u \in Local, u # t PROVE SumOf(u)'
  <2>1. /\ SumOf(u) /\ at'[u] = at[u] /\ sdata'[u] = sdata[u] /\ reg'[u] = reg[u]
        /\ u = 0 => mOutputBuffer'[bid] = mOutputBuffer[bid]
    BY <1>2, <1>4, <1>5, <1>9 DEF Running, Started
  <2> QED
    BY <1>0, <1>2, <2>1, SumOfKept
<1>10. SumOf(t)'
  <2>0. /\ bid' = bid /\ t \in Nat /\ Len(program)' = Len(program)
        /\ Len(program) \in Nat /\ Len(program) >= 3 /\ program' = program
    BY <1>0, <1>2, LocalIs, PlanKept, Lengths DEF plan
  <2>1. Holds(t, 1)
    BY <1>1 DEF Running, Started, SumOf
  <2>2. at'[t] = Len(program) + 1
    BY <1>1, <1>5
  <2>3. ASSUME NEW i \in 3 .. Len(program), RoundAt(program, i, program[i].h)
        PROVE  InRound(t, i, program[i].h)'
    <3>1. i + 3 <= Len(program)
      <4>1. i + 3 \in 3 .. Len(program)
        BY <1>0, <2>3, RoundIs
      <4> QED
        BY <4>1
    <3>2. at'[t] \notin {i, i + 1, i + 2}
      BY <2>0, <2>2, <3>1
    <3> QED
      BY <3>2 DEF InRound
  <2>4. (t = 0 => mOutputBuffer[bid] = Part(bid, 0, 1))'
    BY <1>4, <1>8, <2>0, <2>1 DEF Holds
  <2>5. \A i, h : RoundAt(program, i, h)' <=> RoundAt(program, i, h)
    BY <2>0 DEF RoundAt, GoesOn
  <2>6. at'[t] # 2 /\ at'[t] # Len(program)'
    BY <2>0, <2>2
  <2> QED
    BY <2>0, <2>3, <2>4, <2>5, <2>6 DEF SumOf
<1>11. Written'
  <2>1. \A b \in 0 .. bid - 1 : b \in 0 .. mBufferSize - 1 /\ b # bid
    BY <1>3
  <2> QED
    BY <1>0, <1>2, <1>4, <1>8, <2>1 DEF Written
<1> QED
  BY <1>5, <1>7, <1>8, <1>9, <1>10, <1>11 DEF Started

\* A barrier takes every item from one level to the next.
LEMMA BarrierStep ==
  ASSUME Running, NEW t \in Local, WaitBarrier(t)
  PROVE  Typed' /\ Started'
<1>0. Sized /\ Typed /\ Accepted /\ InStep /\ Written /\ KernelShape(program, groupSize)
  BY DEF Running, Started, Accepted
<1>1. PICK m \in 1 .. Len(program) :
        at[t] = m /\ program[m].op = "barrier" /\ program[m] = Barrier
  <2>1. at[t] \in 1 .. Len(program) /\ program[at[t]].op = "barrier"
    BY <1>0, LocalIs DEF WaitBarrier, PassBarrier, Executes
  <2> QED
    BY <1>0, <2>1, FillIsFirst
<1>2. /\ Moves(t) /\ sdata' = sdata /\ reg' = reg /\ mOutputBuffer' = mOutputBuffer
      /\ UNCHANGED <<plan, bid, state, result>>
  <2>1. at[t] \in 1 .. Len(program)
    BY <1>1
  <2> QED
    BY <2>1 DEF WaitBarrier, PassBarrier, Moves
<1>3. Typed' /\ at'[t] = at[t] + 1 /\ \A u \in Local : u # t => at'[u] = at[u]
  BY <1>0, <1>2, TypedMoves DEF Typed
<1>4. \A u \in Local : at[u] >= at[t]
  BY <1>0, LocalIs DEF WaitBarrier, PassBarrier
<1>5. InStep'
  BY <1>0, <1>2, <1>3, <1>4, InStepMoves
<1>6. Local' = Local /\ Accepted' /\ \A b, x, k : Part(b, x, k)' = Part(b, x, k)
  BY <1>0, <1>2, PlanKept, AcceptedKept DEF Accepted
<1>7. ASSUME NEW u \in Local, u # t PROVE SumOf(u)'
  <2>1. SumOf(u) /\ at'[u] = at[u] /\ sdata'[u] = sdata[u] /\ reg'[u] = reg[u]
    BY <1>2, <1>3, <1>7 DEF Running, Started
  <2> QED
    BY <1>0, <1>2, <2>1, SumOfKept
<1>8. SumOf(t)'
  <2>1. SumOf(t)
    BY DEF Running, Started
  <2>2. PICK s : Halves(s) /\ Holds(t, s) /\ GoesOn(program, m + 1, s \div 2)
    BY <1>0, <1>1, <2>1, Waits
  <2>3. m + 1 \in 3 .. Len(program)
    <3>1. m # 1
      BY <1>0, <1>1, FillIsFirst
    <3>2. m + 1 \in 1 .. Len(program)
      BY <2>2 DEF GoesOn
    <3> QED
      BY <3>1, <3>2
  <2>4. Holds(t, s)'
    <3>1. groupSize' = groupSize /\ bid' = bid
      BY <1>2 DEF plan
    <3> QED
      BY <1>2, <1>6, <2>2, <3>1 DEF Holds
  <2>5. at'[t] = m + 1
    BY <1>1, <1>3
  <2> QED
    BY <1>0, <1>2, <2>2, <2>3, <2>4, <2>5, Arrives
<1>9. Written'
  BY <1>0, <1>2, <1>6 DEF Written
<1> QED
  BY <1>3, <1>5, <1>6, <1>7, <1>8, <1>9 DEF Started
-----------------------------------------------------------------------------
(* The host *)

\* A group starts at its first instruction.
LEMMA GroupStarts ==
  ASSUME Sized
  PROVE  LET g == GroupInit(groupSize, 1, Local)
         IN g.at = [t \in Local |-> 1] /\ DOMAIN g.sdata = Local /\ DOMAIN g.reg = Local
<1>1. groupSize \in Nat \ {0}
  BY GroupSizeType DEF Sized
<1>2. Bundles(groupSize, 1) = Local
  BY <1>1 DEF Bundles, Local
<1> QED
  BY <1>2 DEF GroupInit, Local

\* Of a group that starts nothing is known yet.
LEMMA FreshGroup ==
  ASSUME Sized, Accepted, Written, UNCHANGED <<plan, mOutputBuffer>>, bid' \in 0 .. numBlocks - 1,
         \A b \in 0 .. bid' - 1 : mOutputBuffer[b] = Part(b, 0, 1),
         at' = [t \in Local |-> 1]
  PROVE  Started'
<1>0. KernelShape(program, groupSize)
  BY DEF Accepted
<1>1. /\ Accepted' /\ Local' = Local /\ program' = program
      /\ Len(program) \in Nat /\ Len(program) >= 3
      /\ \A b, x, k : Part(b, x, k)' = Part(b, x, k)
  BY <1>0, PlanKept, AcceptedKept, Lengths DEF plan
<1>2. InStep'
  BY <1>1 DEF InStep
<1>3. Written'
  BY <1>1 DEF Written
<1>4. ASSUME NEW t \in Local PROVE SumOf(t)'
  <2>1. at'[t] = 1
    OBVIOUS
  <2>2. \A h : \A i \in 3 .. Len(program) : InRound(t, i, h)'
    BY <2>1 DEF InRound
  <2>3. Len(program)' = Len(program) /\ Len(program) \in Nat /\ Len(program) >= 3
    BY <1>1
  <2> QED
    BY <2>1, <2>2, <2>3 DEF SumOf
<1> QED
  BY <1>1, <1>2, <1>3, <1>4 DEF Started

\* The constructor and Init establish the invariant,
LEMMA InitInv == Init => SumInv
<1> SUFFICES ASSUME Init PROVE SumInv
  OBVIOUS
<1>1. mInputSize \in Nat \ {0}
  BY SizesAssumption DEF Init
<1>2. groupSize \in 1 .. GROUP_SIZE
  <2>1. PICK k \in KernelGroupSizes : groupSize = GroupSize(k)
    BY DEF Init
  <2>2. k \in Nat \ {0}
    BY SizesAssumption
  <2> QED
    BY <2>1, <2>2, GroupSizeType DEF GroupSize
<1>3. Sized
  BY <1>1, <1>2 DEF Init, Sized
<1>4. at = [t \in Local |-> 1] /\ DOMAIN sdata = Local /\ DOMAIN reg = Local
  BY <1>3, GroupStarts DEF Init
<1>5. Typed
  BY <1>4 DEF Init, Typed
<1>6. SumComplete
  BY DEF Init, SumComplete
<1> QED
  BY <1>3, <1>4, <1>5, <1>6 DEF Init, SumInv

\* OpenCL accepts the kernel only for groups of a power of two,
LEMMA EnqueueStep ==
  ASSUME SumInv, Enqueue
  PROVE  SumInv'
<1>0. /\ Sized /\ Typed /\ bid = 0 /\ \A t \in Local : at[t] = 1
      /\ UNCHANGED <<plan, bid, mOutputBuffer, result, group>>
  BY DEF SumInv, Enqueue
<1>1. Sized' /\ Local' = Local
  BY <1>0, PlanKept
<1>2. /\ at' = at /\ sdata' = sdata /\ reg' = reg /\ mBufferSize' = mBufferSize
      /\ state' \in {"running", "threw"}
  BY <1>0 DEF Enqueue, group, plan
<1>3. Typed'
  BY <1>0, <1>1, <1>2 DEF Typed
<1>4. SumComplete'
  BY <1>2 DEF SumComplete
<1>5. CASE state' = "threw"
  BY <1>0, <1>1, <1>2, <1>3, <1>4, <1>5 DEF SumInv
<1>6. CASE state' = "running"
  <2>1. NDRangeAccepted(globalThreads, groupSize)
    BY <1>6 DEF Enqueue
  <2>2. Accepted
    BY <1>0, <2>1, LaunchAccepted, KernelHasShape DEF Accepted
  <2>3. Written /\ bid' \in 0 .. numBlocks - 1 /\ \A b \in 0 .. bid' - 1 : FALSE
    BY <1>0, <2>2 DEF Written, Accepted
  <2>4. at' = [t \in Local |-> 1]
    BY <1>0, <1>2 DEF Typed
  <2>5. Started'
    BY <1>0, <2>2, <2>3, <2>4, FreshGroup
  <2> QED
    BY <1>1, <1>3, <1>4, <1>6, <2>5 DEF SumInv
<1> QED
  BY <1>2, <1>5, <1>6

\* The group that is done has written its part.
LEMMA GroupIsDone ==
  ASSUME SumInv, GroupDone
  PROVE  Running /\ mOutputBuffer[bid] = Part(bid, 0, 1)
<1>1. Running
  BY DEF SumInv, GroupDone, Running
<1>2. 0 \in Local /\ at[0] > Len(program)
  <2>1. 0 \in Local /\ DOMAIN at = Local
    BY <1>1, LocalIs DEF Running
  <2> QED
    BY <2>1 DEF GroupDone, Finished
<1> QED
  BY <1>1, <1>2 DEF Running, Started, SumOf

\* every group starts anew and leaves the parts that are written,
LEMMA NextGroupStep ==
  ASSUME SumInv, NextGroup
  PROVE  SumInv'
<1>0. /\ Running /\ mOutputBuffer[bid] = Part(bid, 0, 1) /\ Sized /\ Typed /\ Accepted /\ Written
      /\ UNCHANGED <<plan, mOutputBuffer, state, result>> /\ bid' = bid + 1
  BY GroupIsDone DEF NextGroup, Running, Started
<1>1. bid \in Nat /\ bid' \in 0 .. numBlocks - 1
  BY <1>0 DEF NextGroup, Accepted
<1>2. at' = [t \in Local |-> 1] /\ DOMAIN sdata' = Local /\ DOMAIN reg' = Local
  BY <1>0, GroupStarts DEF NextGroup
<1>3. \A b \in 0 .. bid' - 1 : mOutputBuffer[b] = Part(b, 0, 1)
  <2>1. \A b \in 0 .. bid' - 1 : b = bid \/ b \in 0 .. bid - 1
    BY <1>0, <1>1
  <2> QED
    BY <1>0, <2>1 DEF Written
<1>4. Started'
  BY <1>0, <1>1, <1>2, <1>3, FreshGroup
<1>5. Sized' /\ Local' = Local
  BY <1>0, PlanKept
<1>6. Typed'
  BY <1>0, <1>2, <1>5 DEF Typed, plan
<1>7. SumComplete' /\ state' = "running"
  BY <1>0 DEF Running, SumComplete
<1> QED
  BY <1>4, <1>5, <1>6, <1>7 DEF SumInv

\* Nothing that a group holds changes.
LEMMA StartedKept ==
  ASSUME Sized, Typed, Started, UNCHANGED <<plan, bid, mOutputBuffer, group>>
  PROVE  Started' /\ Sized' /\ Local' = Local
<1>1. at' = at /\ sdata' = sdata /\ reg' = reg /\ mOutputBuffer' = mOutputBuffer /\ bid' = bid
  BY DEF group
<1>2. /\ Sized' /\ Local' = Local /\ program' = program
      /\ \A b, x, k : Part(b, x, k)' = Part(b, x, k)
  BY PlanKept DEF plan
<1>3. Accepted /\ Accepted'
  BY AcceptedKept DEF Started, Accepted
<1>4. InStep'
  BY <1>1, <1>2 DEF Started, InStep
<1>5. Written'
  BY <1>1, <1>2 DEF Started, Written
<1>6. ASSUME NEW t \in Local PROVE SumOf(t)'
  <2>1. /\ SumOf(t) /\ UNCHANGED <<plan, bid>>
        /\ at'[t] = at[t] /\ sdata'[t] = sdata[t] /\ reg'[t] = reg[t]
        /\ t = 0 => mOutputBuffer'[bid] = mOutputBuffer[bid]
    BY <1>1 DEF Started
  <2> QED
    BY <1>3, <2>1, SumOfKept
<1> QED
  BY <1>2, <1>3, <1>4, <1>5, <1>6 DEF Started

\* the parts of the groups cover the input,
LEMMA ReturnStep ==
  ASSUME SumInv, Return
  PROVE  SumInv'
<1>0. /\ Running /\ mOutputBuffer[bid] = Part(bid, 0, 1)
      /\ Sized /\ Typed /\ Started /\ Accepted /\ Written
      /\ UNCHANGED <<plan, bid, mOutputBuffer, group>> /\ state' = "returned"
  BY GroupIsDone DEF Return, Running, Started
<1>1. Started' /\ Sized' /\ Local' = Local
  BY <1>0, StartedKept
<1>2. Typed'
  BY <1>0, <1>1 DEF Typed, group, plan
<1>3. numBlocks \in Nat /\ bid = numBlocks - 1 /\ bid \in Nat
  BY <1>0 DEF Return, Accepted
<1>4. \A b \in 0 .. numBlocks - 1 : mOutputBuffer[b] = Part(b, 0, 1)
  <2>1. \A b \in 0 .. numBlocks - 1 : b = bid \/ b \in 0 .. bid - 1
    BY <1>3
  <2> QED
    BY <1>0, <2>1 DEF Written
<1>5. result' = 0 .. mInputSize - 1
  <2>1. Sum(mOutputBuffer, 0 .. numBlocks - 1) = 0 .. mInputSize - 1
    BY <1>0, <1>4, GroupsCover DEF Typed
  <2> QED
    BY <2>1 DEF Return
<1>6. SumComplete'
  BY <1>0, <1>5 DEF SumComplete, plan
<1> QED
  BY <1>0, <1>1, <1>2, <1>6 DEF SumInv

\* and every step of an item keeps it.
LEMMA KernelStep ==
  ASSUME SumInv, state = "running", NEW t \in DOMAIN at, Kernel(t)
  PROVE  SumInv'
<1>1. Running /\ t \in Local
  BY LocalIs DEF SumInv, Running
<1>2. Typed' /\ Started'
  BY <1>1, FillStep, LoadStep, StoreStep, WriteStep, BarrierStep DEF Kernel
<1>3. UNCHANGED plan /\ state' = state
  BY DEF Kernel, Fill, Load, Store, Write, WaitBarrier
<1>4. Sized' /\ SumComplete'
  BY <1>1, <1>3, PlanKept DEF Running, SumComplete
<1> QED
  BY <1>2, <1>3, <1>4 DEF SumInv

\* In every reachable state the items are within one level, and each holds the
\* part of the input that its level has added up
\* (CRoutine_Sum_AMD.cpp 85-146, reduce_sum_float_amd.cl 32-56).
THEOREM SumInvariant == Spec => []SumInv
<1>1. SumInv /\ [Next]_vars => SumInv'
  <2> SUFFICES ASSUME SumInv, [Next]_vars PROVE SumInv'
    OBVIOUS
  <2>1. CASE UNCHANGED vars
    <3>1. UNCHANGED <<plan, bid, mOutputBuffer, group>> /\ state' = state /\ result' = result
      BY <2>1 DEF vars
    <3>2. Sized' /\ Local' = Local /\ at' = at /\ bid' = bid
      BY <3>1, PlanKept DEF SumInv, group
    <3>3. Typed' /\ SumComplete'
      BY <3>1, <3>2 DEF SumInv, Typed, SumComplete, group, plan
    <3>4. state \notin {"init", "threw"} => Started'
      BY <3>1, StartedKept DEF SumInv
    <3> QED
      BY <3>1, <3>2, <3>3, <3>4 DEF SumInv
  <2>2. CASE Enqueue \/ NextGroup \/ Return
    BY <2>2, EnqueueStep, NextGroupStep, ReturnStep
  <2>3. CASE state = "running" /\ \E t \in DOMAIN at : Kernel(t)
    BY <2>3, KernelStep
  <2> QED
    BY <2>1, <2>2, <2>3 DEF Next
<1> QED
  BY <1>1, InitInv, PTL DEF Spec

\* Whatever the input size, the group size the device allows and the order in
\* which the items run, a sum that is returned has every element of the input
\* once, and no zero that fills up the buffer counts as one
\* (CRoutine_Sum_AMD.cpp 85-146, reduce_sum_float_amd.cl 32-56).
THEOREM SumIsComplete == Spec => []SumComplete
<1>1. SumInv => SumComplete
  BY DEF SumInv
<1> QED
  BY <1>1, SumInvariant, PTL

\* Whatever the group size, no item loads or stores an element of local memory
\* that another one is about to store (reduce_sum_float_amd.cl 43-53).
THEOREM ItemsDoNotRace == Spec => []RaceFree
<1>1. SumInv => RaceFree
  <2> SUFFICES ASSUME SumInv, NEW t \in Local, NEW u \in Local, t # u
               PROVE  Stores(t) \cap (Loads(u) \cup Stores(u)) = {}
    BY LocalIs DEF RaceFree, SumInv
  <2>0. Sized /\ Typed /\ at[t] \in Nat \ {0} /\ at[u] \in Nat \ {0} /\ t \in Nat /\ u \in Nat
    BY LocalIs DEF SumInv
  <2>1. CASE \A x \in Local : at[x] = 1
    <3>1. program[1].op = "fill"
      BY <2>0, FirstFills
    <3>2. Loads(u) = {} /\ Stores(u) \subseteq {u} /\ Stores(t) \subseteq {t}
      BY <2>1, <3>1 DEF Loads, Stores, Executes
    <3> QED
      BY <3>2
  <2>2. CASE Accepted /\ InStep
    <3>0. KernelShape(program, groupSize) /\ Len(program) \in Nat /\ Len(program) >= 3
      BY <2>2, Lengths DEF Accepted
    <3> SUFFICES ASSUME t \in Stores(t)
                 PROVE  t \notin Loads(u)
      BY DEF Stores
    <3>1. CASE Executes(program, t, "fill")
      <4>1. at[t] = 1
        BY <2>0, <3>0, <3>1, FillIsFirst DEF Executes
      <4>2. at[u] \in {1, 2}
        <5>1. program[2] = Barrier /\ 2 \in 1 .. Len(program)
          BY <3>0, Lengths
        <5>2. ~ (at[u] > 2)
          BY <2>2, <4>1, <5>1 DEF InStep
        <5> QED
          BY <2>0, <5>2
      <4>3. program[at[u]].op \in {"fill", "barrier"}
        BY <3>0, <4>2, Lengths
      <4> QED
        BY <4>3 DEF Loads, Executes
    <3>2. CASE Executes(program, t, "store") /\ Busy(t, program[at[t]].h)
      <4>1. PICK i \in 3 .. Len(program), h \in Nat \ {0} :
              at[t] = i + 1 /\ program[i + 1].h = h /\ RoundAt(program, i, h)
        <5>1. at[t] \in 1 .. Len(program) /\ program[at[t]].op = "store"
          BY <2>0, <3>0, <3>2 DEF Executes
        <5>2. at[t] \in 3 .. Len(program)
          BY <3>0, <5>1, FillIsFirst
        <5>3. PICK i : i = at[t] - 1
          OBVIOUS
        <5>4. i \in 3 .. Len(program) /\ RoundAt(program, i, program[at[t]].h) /\ at[t] = i + 1
          BY <3>0, <5>1, <5>2, <5>3, OpIs
        <5>5. program[at[t]].h \in Nat \ {0}
          BY <3>0, <5>4, RoundIs
        <5> QED
          BY <5>4, <5>5
      <4>2. t < h
        BY <3>2, <4>1 DEF Busy
      <4>3. /\ program[i].op = "load" /\ program[i].h = h /\ program[i + 1].op = "store"
            /\ program[i + 2].op = "barrier"
        BY <3>0, <4>1, RoundIs
      <4>4. program[i - 1] = Barrier /\ program[i - 1].op = "barrier"
        BY <3>0, <4>3, OpIs, Lengths
      <4>5. at[u] \in {i - 1, i, i + 1, i + 2}
        BY <2>0, <2>2, <3>0, <4>1, <4>4, NearBy
      <4>6. CASE at[u] = i
        <5>1. Loads(u) \subseteq {u, u + h}
          BY <4>3, <4>6 DEF Loads, Executes, Stride
        <5> QED
          BY <2>0, <4>2, <5>1
      <4>7. CASE at[u] \in {i - 1, i + 1, i + 2}
        BY <4>3, <4>4, <4>7 DEF Loads, Executes
      <4> QED
        BY <4>5, <4>6, <4>7
    <3> QED
      BY <3>1, <3>2 DEF Stores
  <2> QED
    BY <2>1, <2>2 DEF SumInv, Started
<1> QED
  BY <1>1, SumInvariant, PTL
=============================================================================
