---------------------------- MODULE SumNVidia_proofs ----------------------------
(***************************************************************************)
(* Proofs about SumNVidia: the kernels stay inside the memory they are     *)
(* given whatever the width of the lockstep, and the sum has every input   *)
(* element once if the items of the last, barrier-free levels run in       *)
(* lockstep - for every size of the input and all sizes of the kernels.    *)
(***************************************************************************)
EXTENDS SumNVidia, WellFoundedInduction, SequenceTheorems, TLAPS

Powers == {PowerOfTwo[k] : k \in Nat}

Instructions == [op : {"fill", "barrier", "load", "store", "write"}, h : Nat]

\* The kernel p goes on at i with the levels from h on.
GoesOn(p, i, h) ==
  i \in 1 .. Len(p) /\ p[i] = IF h = 0 THEN Instr("write", 0) ELSE Instr("load", h)

\* At i it has the level h.
LevelAt(p, i, h) ==
  /\ h \in Powers
  /\ p[i] = Instr("load", h) /\ p[i + 1] = Instr("store", h)
  /\ h > LastWarp => p[i + 2] = Barrier /\ GoesOn(p, i + 3, h \div 2)
  /\ ~ (h > LastWarp) => GoesOn(p, i + 2, h \div 2)

\* Before a level is a barrier, or a level of the last warp.
Behind(p, first, i) ==
  \/ i = first \/ p[i - 1] = Barrier
  \/ i > first /\ p[i - 1] = Instr("store", 2 * p[i].h) /\ 2 * p[i].h <= LastWarp

\* From first on it has nothing but levels, h and smaller ones, and the write
\* of the result, its last instruction; and no barrier behind a level of the
\* last warp.
HasLevels(p, first) ==
  \A i \in first .. Len(p) :
    \/ LevelAt(p, i, p[i].h) /\ Behind(p, first, i)
    \/ i > first /\ LevelAt(p, i - 1, p[i].h)
    \/ i > first + 1 /\ LevelAt(p, i - 2, p[i - 2].h) /\ p[i - 2].h > LastWarp
    \/ i = Len(p) /\ p[i] = Instr("write", 0)
Calm(p, first) ==
  \A i \in first .. Len(p) :
    p[i].op = "load" /\ p[i].h <= LastWarp => \A j \in i .. Len(p) : p[j] # Barrier
Below(p, first, h) == \A i \in first .. Len(p) : p[i].h <= h

KernelShape(p, size) ==
  /\ p \in Seq(Instructions)
  /\ p[1] = Instr("fill", 0) /\ p[2] = Barrier /\ GoesOn(p, 3, size \div 2)
  /\ HasLevels(p, 3) /\ Calm(p, 3) /\ Below(p, 3, size \div 2)

Sized ==
  /\ mInputSize \in InputSizes /\ mBufferSize = BufferSize(mInputSize)
  /\ passes = BuildKernels(mBufferSize)
  /\ mTempBuffer1 = [a \in 0 .. mBufferSize - 1 |-> IF a < mInputSize THEN {a} ELSE {}]

\* At most two passes: the groups of the first one share the buffer out; a
\* single group adds their sums up.
PassShape(p) ==
  /\ p.threads \in Powers /\ p.blocks \in Nat \ {0} /\ KernelShape(p.program, p.threads)
Planned ==
  /\ mBufferSize \in PowersOfTwo /\ mInputSize \in 1 .. mBufferSize
  /\ Len(passes) = IF passes[1].blocks = 1 THEN 1 ELSE 2
  /\ PassShape(passes[1]) /\ passes[1].kernel = 6 /\ 2 * LastWarp <= passes[1].threads
  /\ \E r \in Nat : r >= passes[1].blocks /\ mBufferSize = (2 * passes[1].threads) * r
  /\ passes[1].blocks # 1 =>
       /\ PassShape(passes[2]) /\ passes[2].kernel = 5 /\ passes[2].blocks = 1
       /\ passes[1].blocks = 2 * passes[2].threads /\ passes[2].threads <= passes[1].threads

Items == 0 .. blockSize - 1
Group == Bundles(blockSize, Width)
Bundle(u) == u \div Width

Typed ==
  /\ pass \in 1 .. Len(passes) /\ bid \in 0 .. blocks - 1
  /\ at \in [Group -> Nat \ {0}]
  /\ DOMAIN sdata = Local /\ DOMAIN reg = Items
  /\ DOMAIN mTempBuffer2 = 0 .. mBufferSize - 1

\* Nobody is past a barrier that somebody has not reached.
InStep ==
  \A b \in Group :
    /\ at[b] <= Len(program) + 1
    /\ \A c \in Group, j \in 1 .. Len(program) :
         program[j] = Barrier /\ at[b] > j => at[c] >= j

\* The group of the first pass that adds e up; the group of this pass, and the
\* number modulo the size of the group that the item which adds it has.
Block(e) == (e \div (2 * passes[1].threads)) % passes[1].blocks
BlockSum(a) == {e \in 0 .. mInputSize - 1 : Block(e) = a}
GroupOf(e) == IF pass = 1 THEN Block(e) ELSE 0
Place(e) == IF pass = 1 THEN e ELSE Block(e)

\* The input elements below this group whose items are t modulo m.
Part(t, m) == {e \in 0 .. mInputSize - 1 : GroupOf(e) = bid /\ Place(e) % m = t}

\* What an item has in local memory and in its register, by where it is.
Holds(u, m) == u < m => sdata[u] = Part(u, m)
InLevel(u, i, h) ==
  LET m == at[Bundle(u)] IN
  /\ m = i => Holds(u, 2 * h)
  /\ m = i + 1 => Holds(u, 2 * h) /\ (u < h => reg[u] = Part(u, h))
  /\ m = i + 2 /\ h > LastWarp => Holds(u, h) /\ (u >= h => Holds(u, 2 * h))
  /\ m >= i /\ h <= LastWarp /\ u >= LastWarp => Holds(u, 2 * h)
SumOf(u) ==
  LET m == at[Bundle(u)] IN
  /\ m = 2 => Holds(u, blockSize)
  /\ \A i \in 3 .. Len(program) : program[i].op = "load" => InLevel(u, i, program[i].h)
  /\ m = Len(program) => Holds(u, 1)
  /\ m > Len(program) /\ u = 0 => mTempBuffer2[bid] = Part(0, 1)

\* The sums of the groups that are done; those of the first pass stay until the
\* second one is.
Written ==
  IF pass = 1 THEN \A b \in 0 .. bid - 1 : mTempBuffer2[b] = BlockSum(b)
  ELSE at[0] <= Len(program) => \A a \in 0 .. passes[1].blocks - 1 : mTempBuffer2[a] = BlockSum(a)

PlanInv == Sized /\ Typed
Lockstep == LastWarp <= Width
GroupInv == InStep /\ Written /\ (\A u \in Items : SumOf(u)) /\ SumComplete
-----------------------------------------------------------------------------
(* Division *)

\* Quotient and remainder are the ones that division by m leaves,
LEMMA ModIs ==
  ASSUME NEW a \in Nat, NEW m \in Nat \ {0}, NEW q \in Nat, NEW r \in 0 .. m - 1, a = q * m + r
  PROVE  a \div m = q /\ a % m = r
BY SMTT(30)

\* and every number has them.
LEMMA DivIs ==
  ASSUME NEW a \in Nat, NEW m \in Nat \ {0}
  PROVE  \E q \in Nat, r \in 0 .. m - 1 : a = q * m + r /\ a \div m = q /\ a % m = r
BY SMTT(30)

\* Multiples are in the order of their factors.
LEMMA TimesMonotone ==
  ASSUME NEW m \in Nat, NEW a \in Nat, NEW b \in Nat, a < b
  PROVE  a * m + m <= b * m
<1>1. PICK c \in Nat : b = a + 1 + c
  <2>1. b - a - 1 \in Nat /\ b = a + 1 + (b - a - 1)
    OBVIOUS
  <2> QED
    BY <2>1
<1>2. b * m = a * m + m + c * m
  BY <1>1
<1>3. c * m \in Nat /\ a * m \in Nat
  OBVIOUS
<1> QED
  BY <1>2, <1>3

\* What is t modulo h is t or t + h modulo 2 * h.
LEMMA ModSplits ==
  ASSUME NEW x \in Nat, NEW h \in Nat \ {0}, NEW t \in 0 .. h - 1
  PROVE  x % h = t <=> x % (2 * h) \in {t, t + h}
<1>1. PICK q \in Nat, r \in 0 .. h - 1 : x = q * h + r /\ x % h = r
  BY DivIs
<1>2. PICK k \in Nat : q = 2 * k \/ q = 2 * k + 1
  <2>1. q \div 2 \in Nat /\ (q = 2 * (q \div 2) \/ q = 2 * (q \div 2) + 1)
    OBVIOUS
  <2> QED
    BY <2>1
<1>3. PICK m \in Nat \ {0} : m = 2 * h
  OBVIOUS
<1>4. CASE q = 2 * k
  <2>1. x = k * m + r /\ r \in 0 .. m - 1
    BY <1>1, <1>3, <1>4
  <2>2. x % m = r
    BY <2>1, ModIs
  <2> QED
    BY <1>1, <1>3, <2>2
<1>5. CASE q = 2 * k + 1
  <2>1. x = k * m + (r + h) /\ r + h \in 0 .. m - 1
    BY <1>1, <1>3, <1>5
  <2>2. x % m = r + h
    BY <2>1, ModIs
  <2> QED
    BY <1>1, <1>3, <2>2
<1> QED
  BY <1>2, <1>4, <1>5
-----------------------------------------------------------------------------
(* Powers of two *)

\* A set of natural numbers has a least one: induction as the absence of a
\* first counterexample.
LEMMA Least ==
  ASSUME NEW T, T \subseteq Nat, T # {}
  PROVE  \E m \in T : \A n \in T : m <= n
<1>1. PICK m \in T : \A n \in T : ~ (<<n, m>> \in OpToRel(<, Nat))
  BY NatLessThanWellFounded, WFMin
<1>2. \A n \in T : ~ (n < m)
  BY <1>1 DEF OpToRel
<1> QED
  BY <1>2

\* PowerOfTwo satisfies its recursive definition.
PowersTo(f, n) == DOMAIN f = 0 .. n /\ f[0] = 1 /\ \A k \in 1 .. n : f[k] = 2 * f[k - 1]

\* The recursion can be followed up to every n.
LEMMA PowersToExist ==
  ASSUME NEW n \in Nat
  PROVE  \E f : PowersTo(f, n)
<1> DEFINE Bad == {m \in Nat : ~ \E f : PowersTo(f, m)}
<1> SUFFICES ASSUME Bad # {} PROVE FALSE
  OBVIOUS
<1>1. PICK m \in Bad : \A k \in Bad : m <= k
  <2>1. Bad \subseteq Nat
    OBVIOUS
  <2> HIDE DEF Bad
  <2> QED
    BY <2>1, Least
<1>2. m \in Nat /\ ~ \E f : PowersTo(f, m)
  BY <1>1
<1>3. CASE m = 0
  <2>1. PowersTo([k \in 0 .. 0 |-> 1], 0)
    BY DEF PowersTo
  <2> QED
    BY <1>2, <1>3, <2>1
<1>4. CASE m # 0
  <2>1. m - 1 \in Nat /\ m - 1 \notin Bad
    BY <1>1, <1>2, <1>4
  <2>2. PICK f : PowersTo(f, m - 1)
    BY <2>1
  <2> DEFINE g == [k \in 0 .. m |-> IF k = m THEN 2 * f[m - 1] ELSE f[k]]
  <2>3. DOMAIN g = 0 .. m /\ g[0] = 1 /\ g[m] = 2 * f[m - 1] /\ g[m - 1] = f[m - 1]
    BY <1>2, <1>4, <2>2 DEF PowersTo
  <2>4. ASSUME NEW k \in 1 .. m PROVE g[k] = 2 * g[k - 1]
    <3>1. CASE k = m
      BY <2>3, <3>1
    <3>2. CASE k # m
      <4>1. k \in 1 .. m - 1 /\ k \in 0 .. m /\ k - 1 \in 0 .. m /\ k - 1 # m
        BY <1>2, <3>2
      <4>2. g[k] = f[k] /\ g[k - 1] = f[k - 1]
        BY <3>2, <4>1
      <4> QED
        BY <2>2, <4>1, <4>2 DEF PowersTo
    <3> QED
      BY <3>1, <3>2
  <2>5. PowersTo(g, m)
    BY <2>3, <2>4 DEF PowersTo
  <2> QED
    BY <1>2, <2>5
<1> QED
  BY <1>3, <1>4

\* and it has one value at every number.
LEMMA PowersToAgree ==
  ASSUME NEW n \in Nat, NEW m \in 0 .. n, NEW f, NEW g, PowersTo(f, m), PowersTo(g, n)
  PROVE  \A k \in 0 .. m : f[k] = g[k]
<1> DEFINE Bad == {k \in 0 .. m : f[k] # g[k]}
<1> SUFFICES ASSUME Bad # {} PROVE FALSE
  OBVIOUS
<1>1. PICK k \in Bad : \A j \in Bad : k <= j
  <2>1. Bad \subseteq Nat
    OBVIOUS
  <2> HIDE DEF Bad
  <2> QED
    BY <2>1, Least
<1>2. k \in 0 .. m /\ f[k] # g[k]
  BY <1>1
<1>3. CASE k = 0
  BY <1>2, <1>3 DEF PowersTo
<1>4. CASE k # 0
  <2>1. k \in 1 .. m /\ k \in 1 .. n /\ k - 1 \in 0 .. m /\ k - 1 \notin Bad
    BY <1>1, <1>2, <1>4
  <2>2. f[k - 1] = g[k - 1]
    BY <2>1
  <2> QED
    BY <1>2, <2>1, <2>2 DEF PowersTo
<1> QED
  BY <1>3, <1>4

\* PowerOfTwo is the function its definition says.
LEMMA PowerOfTwoDef ==
  PowerOfTwo = [k \in Nat |-> IF k = 0 THEN 1 ELSE 2 * PowerOfTwo[k - 1]]
<1> DEFINE upTo(n) == CHOOSE f : PowersTo(f, n)
           f == [n \in Nat |-> upTo(n)[n]]
           Step(p) == [k \in Nat |-> IF k = 0 THEN 1 ELSE 2 * p[k - 1]]
<1>1. ASSUME NEW n \in Nat PROVE PowersTo(upTo(n), n)
  BY PowersToExist
<1> HIDE DEF upTo
<1>2. f[0] = 1
  BY <1>1 DEF PowersTo
<1>3. ASSUME NEW k \in Nat \ {0} PROVE f[k] = 2 * f[k - 1]
  <2>1. k - 1 \in Nat /\ k - 1 \in 0 .. k /\ k \in 1 .. k
    OBVIOUS
  <2>2. upTo(k - 1)[k - 1] = upTo(k)[k - 1]
    <3>1. PowersTo(upTo(k - 1), k - 1) /\ PowersTo(upTo(k), k)
      BY <1>1, <2>1
    <3>2. \A j \in 0 .. k - 1 : upTo(k - 1)[j] = upTo(k)[j]
      BY <2>1, <3>1, PowersToAgree
    <3> QED
      BY <2>1, <3>2
  <2>3. upTo(k)[k] = 2 * upTo(k)[k - 1]
    BY <1>1, <2>1 DEF PowersTo
  <2> QED
    BY <2>1, <2>2, <2>3
<1>4. PICK g : g = f
  OBVIOUS
<1>5. g = Step(g)
  <2>1. g = [k \in Nat |-> g[k]]
    BY <1>4
  <2>2. \A k \in Nat : g[k] = IF k = 0 THEN 1 ELSE 2 * g[k - 1]
    BY <1>2, <1>3, <1>4
  <2> QED
    BY <2>1, <2>2
<1>6. PowerOfTwo = CHOOSE p : p = Step(p)
  BY DEF PowerOfTwo
<1> QED
  BY <1>5, <1>6

\* The first power, and the next ones.
LEMMA PowersAre ==
  /\ PowerOfTwo[0] = 1
  /\ \A k \in Nat : PowerOfTwo[k + 1] = 2 * PowerOfTwo[k]
<1>1. \A k \in Nat : PowerOfTwo[k] = IF k = 0 THEN 1 ELSE 2 * PowerOfTwo[k - 1]
  BY PowerOfTwoDef
<1>2. \A k \in Nat : k + 1 \in Nat /\ k + 1 # 0 /\ (k + 1) - 1 = k
  OBVIOUS
<1> QED
  BY <1>1, <1>2

\* They are positive numbers.
LEMMA PowersPositive == \A k \in Nat : PowerOfTwo[k] \in Nat \ {0}
<1> DEFINE Bad == {k \in Nat : PowerOfTwo[k] \notin Nat \ {0}}
<1> SUFFICES ASSUME Bad # {} PROVE FALSE
  OBVIOUS
<1>1. PICK k \in Bad : \A j \in Bad : k <= j
  <2>1. Bad \subseteq Nat
    OBVIOUS
  <2> HIDE DEF Bad
  <2> QED
    BY <2>1, Least
<1>2. k \in Nat /\ PowerOfTwo[k] \notin Nat \ {0}
  BY <1>1
<1>3. k # 0
  BY <1>2, PowersAre
<1>4. k - 1 \in Nat /\ k - 1 \notin Bad /\ (k - 1) + 1 = k
  BY <1>1, <1>2, <1>3
<1>5. PowerOfTwo[k] = 2 * PowerOfTwo[k - 1] /\ PowerOfTwo[k - 1] \in Nat \ {0}
  BY <1>4, PowersAre
<1> QED
  BY <1>2, <1>5

\* The exponents of factors add up.
LEMMA PowersMultiply ==
  ASSUME NEW a \in Nat, NEW d \in Nat
  PROVE  PowerOfTwo[a + d] = PowerOfTwo[a] * PowerOfTwo[d]
<1> DEFINE Bad == {k \in Nat : PowerOfTwo[a + k] # PowerOfTwo[a] * PowerOfTwo[k]}
<1> SUFFICES ASSUME Bad # {} PROVE FALSE
  OBVIOUS
<1>1. PICK k \in Bad : \A j \in Bad : k <= j
  <2>1. Bad \subseteq Nat
    OBVIOUS
  <2> HIDE DEF Bad
  <2> QED
    BY <2>1, Least
<1>2. k \in Nat /\ PowerOfTwo[a + k] # PowerOfTwo[a] * PowerOfTwo[k]
  BY <1>1
<1>3. PICK p \in Nat \ {0} : p = PowerOfTwo[a]
  BY PowersPositive
<1>4. k # 0
  <2>1. a + 0 = a /\ p * 1 = p
    OBVIOUS
  <2> QED
    BY <1>2, <1>3, <2>1, PowersAre
<1>5. k - 1 \in Nat /\ k - 1 \notin Bad /\ (k - 1) + 1 = k
  BY <1>1, <1>2, <1>4
<1>6. PICK q \in Nat : q = PowerOfTwo[k - 1]
  BY <1>5, PowersPositive
<1>7. PowerOfTwo[a + (k - 1)] = p * q
  BY <1>3, <1>5, <1>6
<1>8. a + (k - 1) \in Nat /\ (a + (k - 1)) + 1 = a + k
  BY <1>5
<1>9. PowerOfTwo[a + k] = 2 * (p * q) /\ PowerOfTwo[k] = 2 * q
  BY <1>5, <1>6, <1>7, <1>8, PowersAre
<1>10. 2 * (p * q) = p * (2 * q)
  OBVIOUS
<1> QED
  BY <1>2, <1>3, <1>9, <1>10

\* Those of a word are some of them.
LEMMA WordPowers ==
  /\ PowersOfTwo \subseteq Powers /\ Powers \subseteq Nat \ {0} /\ 1 \in Powers
  /\ PowerOfTwo[WordBits - 1] \in PowersOfTwo
<1>1. \A k \in 0 .. WordBits - 1 : k \in Nat
  BY WordBitsAssumption
<1>2. WordBits - 1 \in 0 .. WordBits - 1
  BY WordBitsAssumption
<1>3. PowersOfTwo \subseteq Powers
  BY <1>1 DEF PowersOfTwo, Powers
<1>4. Powers \subseteq Nat \ {0}
  BY PowersPositive DEF Powers
<1>5. 1 \in Powers
  BY PowersAre DEF Powers
<1>6. PowerOfTwo[WordBits - 1] \in PowersOfTwo
  BY <1>2 DEF PowersOfTwo
<1> QED
  BY <1>3, <1>4, <1>5, <1>6

\* A power divides each one that is not below it; the other way round it is
\* larger, at least twice as large.
LEMMA PowersOrdered ==
  ASSUME NEW a \in Nat, NEW b \in Nat
  PROVE  /\ a <= b => \E r \in Powers : PowerOfTwo[b] = PowerOfTwo[a] * r
         /\ a <= b => PowerOfTwo[a] <= PowerOfTwo[b]
         /\ a > b => PowerOfTwo[a] > PowerOfTwo[b]
<1>1. ASSUME NEW x \in Nat, NEW y \in Nat, x <= y
      PROVE  \E r \in Powers : PowerOfTwo[y] = PowerOfTwo[x] * r
  <2>1. y - x \in Nat /\ x + (y - x) = y
    BY <1>1
  <2>2. PowerOfTwo[y] = PowerOfTwo[x] * PowerOfTwo[y - x]
    BY <2>1, PowersMultiply
  <2>3. PowerOfTwo[y - x] \in Powers
    BY <2>1 DEF Powers
  <2> QED
    BY <2>2, <2>3
<1>2. ASSUME NEW x \in Nat, NEW y \in Nat, x <= y
      PROVE  PowerOfTwo[x] <= PowerOfTwo[y]
  <2>1. PICK r \in Powers : PowerOfTwo[y] = PowerOfTwo[x] * r
    BY <1>1, <1>2
  <2>2. PICK p \in Nat \ {0} : p = PowerOfTwo[x]
    BY PowersPositive
  <2>3. r \in Nat \ {0}
    BY WordPowers
  <2>4. p <= p * r
    BY <2>3, SMTT(30)
  <2> QED
    BY <2>1, <2>2, <2>4
<1>3. ASSUME a > b PROVE PowerOfTwo[a] > PowerOfTwo[b]
  <2>1. b + 1 \in Nat /\ b + 1 <= a
    BY <1>3
  <2>2. PowerOfTwo[b + 1] <= PowerOfTwo[a] /\ PowerOfTwo[b + 1] = 2 * PowerOfTwo[b]
    BY <1>2, <2>1, PowersAre
  <2>3. PowerOfTwo[a] \in Nat \ {0} /\ PowerOfTwo[b] \in Nat \ {0}
    BY PowersPositive
  <2> QED
    BY <2>2, <2>3
<1> QED
  BY <1>1, <1>2, <1>3

\* The same without exponents.
LEMMA PowerDivides ==
  ASSUME NEW p \in Powers, NEW q \in Powers, p <= q
  PROVE  \E r \in Powers : q = p * r
<1>1. PICK a \in Nat, b \in Nat : p = PowerOfTwo[a] /\ q = PowerOfTwo[b]
  BY DEF Powers
<1>2. ~ (a > b)
  <2>1. PowerOfTwo[a] \in Nat /\ PowerOfTwo[b] \in Nat
    BY PowersPositive
  <2> QED
    BY <1>1, <2>1, PowersOrdered
<1> QED
  BY <1>1, <1>2, PowersOrdered

\* What a word's power is not below is one of a word.
LEMMA PowerInWord ==
  ASSUME NEW p \in Powers, NEW q \in PowersOfTwo, p <= q
  PROVE  p \in PowersOfTwo /\ p <= PowerOfTwo[WordBits - 1]
<1>1. PICK a \in Nat : p = PowerOfTwo[a]
  BY DEF Powers
<1>2. PICK b \in 0 .. WordBits - 1 : q = PowerOfTwo[b]
  BY DEF PowersOfTwo
<1>3. b \in Nat /\ WordBits - 1 \in Nat
  BY WordBitsAssumption
<1>4. a <= b
  <2>1. PowerOfTwo[a] \in Nat /\ PowerOfTwo[b] \in Nat
    BY <1>3, PowersPositive
  <2> QED
    BY <1>1, <1>2, <1>3, <2>1, PowersOrdered
<1>5. a \in 0 .. WordBits - 1
  BY <1>3, <1>4
<1> QED
  BY <1>1, <1>3, <1>5, PowersOrdered DEF PowersOfTwo

\* A power other than 1 halves without a remainder into a power.
LEMMA HalfIs ==
  ASSUME NEW p \in Powers, p # 1
  PROVE  p = 2 * (p \div 2) /\ p \div 2 \in Powers
<1>1. PICK a \in Nat : p = PowerOfTwo[a]
  BY DEF Powers
<1>2. a # 0
  BY <1>1, PowersAre
<1>3. a - 1 \in Nat /\ (a - 1) + 1 = a
  BY <1>2
<1>4. PICK q \in Nat : q = PowerOfTwo[a - 1]
  BY <1>3, PowersPositive
<1>5. p = 2 * q /\ q \in Powers
  BY <1>1, <1>3, <1>4, PowersAre DEF Powers
<1>6. (2 * q) \div 2 = q
  OBVIOUS
<1> QED
  BY <1>5, <1>6

\* Twice a power is one.
LEMMA DoubleIs ==
  ASSUME NEW p \in Powers
  PROVE  2 * p \in Powers
<1>1. PICK a \in Nat : p = PowerOfTwo[a]
  BY DEF Powers
<1>2. 2 * p = PowerOfTwo[a + 1] /\ a + 1 \in Nat
  BY <1>1, PowersAre
<1> QED
  BY <1>2 DEF Powers

\* nextPow2 yields a power that is not below its argument, and the least one.
LEMMA NextPower ==
  ASSUME NEW n \in 1 .. PowerOfTwo[WordBits - 1]
  PROVE  /\ nextPow2(n) \in PowersOfTwo /\ n <= nextPow2(n)
         /\ \A q \in PowersOfTwo : q >= n => nextPow2(n) <= q
<1>0. PICK top \in PowersOfTwo : top = PowerOfTwo[WordBits - 1]
  BY WordPowers
<1>1. /\ PowersOfTwo \subseteq Nat /\ top \in Nat /\ n \in Nat \ {0} /\ n <= top
      /\ ~ (n = 0 \/ n > PowerOfTwo[WordBits - 1])
  <2>1. PowersOfTwo \subseteq Nat
    BY WordPowers
  <2>2. top \in Nat /\ n \in 1 .. top
    BY <1>0, <2>1
  <2> QED
    BY <1>0, <2>1, <2>2
<1> DEFINE Above == {q \in PowersOfTwo : q >= n}
<1>2. PICK m \in Above : \A q \in Above : m <= q
  <2>1. Above \subseteq Nat /\ Above # {}
    BY <1>1
  <2> HIDE DEF Above
  <2> QED
    BY <2>1, Least
<1>3. m \in PowersOfTwo /\ m >= n /\ \A q \in PowersOfTwo : q >= n => m <= q
  BY <1>2
<1>4. nextPow2(n) = CHOOSE r \in PowersOfTwo : r >= n /\ \A q \in PowersOfTwo : q >= n => r <= q
  BY <1>1 DEF nextPow2
<1>5. nextPow2(n) \in PowersOfTwo /\ nextPow2(n) >= n
      /\ \A q \in PowersOfTwo : q >= n => nextPow2(n) <= q
  BY <1>3, <1>4
<1> QED
  BY <1>1, <1>5

-----------------------------------------------------------------------------
(* The kernel *)

\* From the assumption on the sizes.
LEMMA MaxThreadsIs == MaxThreads \in Nat \ {0} /\ LastWarp \in Nat \ {0} /\ Width \in Nat \ {0}
BY SizesAssumption, WordPowers

\* What a concatenation of instructions has where.
LEMMA Joined ==
  ASSUME NEW a \in Seq(Instructions), NEW b \in Seq(Instructions), NEW k \in Nat, Len(a) = k
  PROVE  /\ a \o b \in Seq(Instructions) /\ Len(b) \in Nat /\ Len(a \o b) = k + Len(b)
         /\ \A j \in 1 .. Len(a \o b) : (a \o b)[j] = IF j <= k THEN a[j] ELSE b[j - k]
OBVIOUS

\* Levels satisfies its recursive definition.
LevelsTo(f, n) ==
  /\ f = [s \in 0 .. n |-> f[s]]
  /\ \A s \in 0 .. n : f[s] = IF s = 0 THEN <<Instr("write", 0)>> ELSE Level(s) \o f[s \div 2]

\* The tree can be followed down from every n.
LEMMA LevelsToExist ==
  ASSUME NEW n \in Nat
  PROVE  \E f : LevelsTo(f, n)
<1> DEFINE Bad == {m \in Nat : ~ \E f : LevelsTo(f, m)}
<1> SUFFICES ASSUME Bad # {} PROVE FALSE
  OBVIOUS
<1>1. PICK m \in Bad : \A k \in Bad : m <= k
  <2>1. Bad \subseteq Nat
    OBVIOUS
  <2> HIDE DEF Bad
  <2> QED
    BY <2>1, Least
<1>2. m \in Nat /\ ~ \E f : LevelsTo(f, m)
  BY <1>1
<1>3. CASE m = 0
  <2>1. LevelsTo([s \in 0 .. 0 |-> <<Instr("write", 0)>>], 0)
    BY DEF LevelsTo
  <2> QED
    BY <1>2, <1>3, <2>1
<1>4. CASE m # 0
  <2>1. m - 1 \in Nat /\ m - 1 \notin Bad
    BY <1>1, <1>2, <1>4
  <2>2. PICK f : LevelsTo(f, m - 1)
    BY <2>1
  <2> DEFINE g == [s \in 0 .. m |-> IF s = m THEN Level(m) \o f[m \div 2] ELSE f[s]]
  <2>3. ASSUME NEW s \in 0 .. m
        PROVE  g[s] = IF s = 0 THEN <<Instr("write", 0)>> ELSE Level(s) \o g[s \div 2]
    <3>1. s = m \/ s \in 0 .. m - 1
      BY <1>2
    <3>2. CASE s = m
      <4>1. m \div 2 \in 0 .. m /\ m \div 2 # m
        BY <1>2, <1>4
      <4>2. g[m \div 2] = f[m \div 2]
        BY <4>1
      <4> QED
        BY <1>4, <3>2, <4>2
    <3>3. CASE s \in 0 .. m - 1
      <4>1. s \div 2 \in 0 .. m /\ s \div 2 # m /\ s # m
        BY <1>2, <3>3
      <4>2. g[s \div 2] = f[s \div 2] /\ g[s] = f[s]
        BY <4>1
      <4> QED
        BY <2>2, <3>3, <4>2 DEF LevelsTo
    <3> QED
      BY <3>1, <3>2, <3>3
  <2>4. LevelsTo(g, m)
    <3>1. g = [s \in 0 .. m |-> g[s]]
      OBVIOUS
    <3> HIDE DEF g
    <3> QED
      BY <2>3, <3>1 DEF LevelsTo
  <2> QED
    BY <1>2, <2>4
<1> QED
  BY <1>3, <1>4

\* Levels is the function its definition says.
LEMMA LevelsDef == LevelsTo(Levels, MaxThreads)
<1> DEFINE Step(f) == [s \in 0 .. MaxThreads |->
                         IF s = 0 THEN <<Instr("write", 0)>> ELSE Level(s) \o f[s \div 2]]
           rounds == CHOOSE f : f = Step(f)
<1>1. PICK f : LevelsTo(f, MaxThreads)
  BY MaxThreadsIs, LevelsToExist
<1>2. f = Step(f)
  BY <1>1 DEF LevelsTo
<1>3. rounds = Step(rounds)
  BY <1>2
<1>4. Levels = rounds
  BY DEF Levels
<1> HIDE DEF rounds
<1>5. PICK g : g = rounds
  OBVIOUS
<1>6. LevelsTo(g, MaxThreads)
  BY <1>3, <1>5 DEF LevelsTo
<1> QED
  BY <1>4, <1>5, <1>6

\* What a level consists of.
LEMMA LevelType ==
  ASSUME NEW h \in Nat
  PROVE  /\ Level(h) \in Seq(Instructions)
         /\ Len(Level(h)) = IF h > LastWarp THEN 3 ELSE 2
         /\ Level(h)[1] = Instr("load", h) /\ Level(h)[2] = Instr("store", h)
         /\ h > LastWarp => Level(h)[3] = Barrier
<1> DEFINE both == <<Instr("load", h), Instr("store", h)>>
<1>1. /\ both \in Seq(Instructions) /\ Len(both) = 2
      /\ both[1] = Instr("load", h) /\ both[2] = Instr("store", h)
  BY DEF Instr, Instructions
<1>2. Barrier \in Instructions
  BY DEF Barrier, Instructions
<1> HIDE DEF both
<1>3. CASE h > LastWarp
  <2>1. Level(h) = both \o <<Barrier>>
    BY <1>3 DEF Level, LevelBarrier, both
  <2>2. <<Barrier>> \in Seq(Instructions) /\ Len(<<Barrier>>) = 1 /\ <<Barrier>>[1] = Barrier
    BY <1>2
  <2>3. /\ both \o <<Barrier>> \in Seq(Instructions) /\ Len(both \o <<Barrier>>) = 3
        /\ (both \o <<Barrier>>)[1] = both[1] /\ (both \o <<Barrier>>)[2] = both[2]
        /\ (both \o <<Barrier>>)[3] = Barrier
    <3>1. PICK k \in Nat : k = 2
      OBVIOUS
    <3>2. Len(both) = k
      BY <1>1, <3>1
    <3>3. PICK c : c = <<Barrier>>
      OBVIOUS
    <3>4. c \in Seq(Instructions) /\ Len(c) = 1 /\ c[1] = Barrier
      BY <2>2, <3>3
    <3>5. /\ both \o c \in Seq(Instructions) /\ Len(both \o c) = k + Len(c)
          /\ \A j \in 1 .. Len(both \o c) : (both \o c)[j] = IF j <= k THEN both[j] ELSE c[j - k]
      BY ONLY k \in Nat, <1>1, <3>2, <3>4, Joined, Zenon
    <3>6. PICK d : d = both \o c
      OBVIOUS
    <3>7. Len(d) = 3 /\ d[1] = both[1] /\ d[2] = both[2] /\ d[3] = c[1]
      BY ONLY k \in Nat, <3>1, <3>4, <3>5, <3>6
    <3> QED
      BY <3>3, <3>4, <3>5, <3>6, <3>7
  <2> QED
    BY <1>1, <1>3, <2>1, <2>3
<1>4. CASE ~ (h > LastWarp)
  <2>1. Level(h) = both \o << >>
    BY <1>4 DEF Level, LevelBarrier, both
  <2>2. both \o << >> = both
    BY <1>1
  <2> QED
    BY <1>1, <1>4, <2>1, <2>2
<1> QED
  BY <1>3, <1>4

\* What an instruction of a level is called.
LEMMA LevelIs ==
  ASSUME NEW p, NEW i, NEW h, LevelAt(p, i, h)
  PROVE  /\ h \in Powers /\ h \in Nat \ {0}
         /\ p[i].op = "load" /\ p[i].h = h /\ p[i + 1].op = "store" /\ p[i + 1].h = h
         /\ p[i] # Barrier /\ p[i + 1] # Barrier
         /\ h > LastWarp => p[i + 2] = Barrier /\ i + 3 \in 1 .. Len(p)
         /\ ~ (h > LastWarp) => i + 2 \in 1 .. Len(p)
<1>1. h \in Powers /\ h \in Nat \ {0}
  BY WordPowers DEF LevelAt
<1>2. /\ p[i].op = "load" /\ p[i].h = h /\ p[i + 1].op = "store" /\ p[i + 1].h = h
      /\ p[i] # Barrier /\ p[i + 1] # Barrier
  BY DEF LevelAt, Instr, Barrier
<1>3. /\ h > LastWarp => p[i + 2] = Barrier /\ i + 3 \in 1 .. Len(p)
      /\ ~ (h > LastWarp) => i + 2 \in 1 .. Len(p)
  BY DEF LevelAt, GoesOn
<1> QED
  BY <1>1, <1>2, <1>3

\* A level keeps its form behind other instructions.
LEMMA LevelShifts ==
  ASSUME NEW p \in Seq(Instructions), NEW q \in Seq(Instructions), NEW k \in Nat,
         Len(p) = k + Len(q), \A j \in 1 .. Len(q) : p[j + k] = q[j],
         NEW i \in 1 .. Len(q), NEW h, LevelAt(q, i, h)
  PROVE  LevelAt(p, i + k, h)
<1>0. Len(q) \in Nat /\ LastWarp \in Nat /\ h \in Nat \ {0}
  BY MaxThreadsIs, LevelIs
<1>1. i + 2 \in 1 .. Len(q) /\ i + 1 \in 1 .. Len(q)
  BY <1>0, LevelIs
<1>2. (i + 1) + k = (i + k) + 1 /\ (i + 2) + k = (i + k) + 2 /\ (i + 3) + k = (i + k) + 3
  OBVIOUS
<1>3. p[i + k] = q[i] /\ p[(i + k) + 1] = q[i + 1] /\ p[(i + k) + 2] = q[i + 2]
  <2>1. p[i + k] = q[i] /\ p[(i + 1) + k] = q[i + 1] /\ p[(i + 2) + k] = q[i + 2]
    BY <1>1
  <2> QED
    BY <1>2, <2>1
<1>4. p[i + k] = Instr("load", h) /\ p[(i + k) + 1] = Instr("store", h) /\ h \in Powers
  BY <1>3 DEF LevelAt
<1>5. ASSUME h > LastWarp PROVE p[(i + k) + 2] = Barrier /\ GoesOn(p, (i + k) + 3, h \div 2)
  <2>1. i + 3 \in 1 .. Len(q) /\ GoesOn(q, i + 3, h \div 2) /\ q[i + 2] = Barrier
    BY <1>5 DEF LevelAt, GoesOn
  <2>2. p[(i + k) + 3] = q[i + 3] /\ (i + k) + 3 \in 1 .. Len(p)
    <3>1. p[(i + 3) + k] = q[i + 3]
      BY <2>1
    <3>2. (i + k) + 3 \in 1 .. Len(p)
      BY <1>0, <2>1
    <3> QED
      BY <1>2, <3>1, <3>2
  <2> QED
    BY <1>3, <2>1, <2>2 DEF GoesOn
<1>6. ASSUME ~ (h > LastWarp) PROVE GoesOn(p, (i + k) + 2, h \div 2)
  <2>1. GoesOn(q, i + 2, h \div 2)
    BY <1>6 DEF LevelAt
  <2>2. (i + k) + 2 \in 1 .. Len(p)
    BY <1>0, <1>1
  <2> QED
    BY <1>3, <2>1, <2>2 DEF GoesOn
<1> QED
  BY <1>4, <1>5, <1>6 DEF LevelAt

\* Levels stay levels behind something that may stand before the first one.
LEMMA LevelsBehind ==
  ASSUME NEW p \in Seq(Instructions), NEW q \in Seq(Instructions), NEW k \in Nat \ {0},
         Len(p) = k + Len(q), \A j \in 1 .. Len(q) : p[j + k] = q[j],
         HasLevels(q, 1)
  PROVE  HasLevels(p, k + 1)
<1>1. ASSUME NEW i \in k + 1 .. Len(p)
      PROVE  \/ LevelAt(p, i, p[i].h) /\ Behind(p, k + 1, i)
             \/ i > k + 1 /\ LevelAt(p, i - 1, p[i].h)
             \/ i > (k + 1) + 1 /\ LevelAt(p, i - 2, p[i - 2].h) /\ p[i - 2].h > LastWarp
             \/ i = Len(p) /\ p[i] = Instr("write", 0)
  <2>1. PICK j \in 1 .. Len(q) : i = j + k
    <3>1. i - k \in 1 .. Len(q) /\ i = (i - k) + k
      BY <1>1
    <3> QED
      BY <3>1
  <2>2. p[i] = q[j]
    BY <2>1
  <2>3. j # 1 => p[i - 1] = q[j - 1]
    <3>1. j # 1 => j - 1 \in 1 .. Len(q) /\ i - 1 = (j - 1) + k
      BY <2>1
    <3> QED
      BY <3>1
  <2>4. j > 2 => p[i - 2] = q[j - 2]
    <3>1. j > 2 => j - 2 \in 1 .. Len(q) /\ i - 2 = (j - 2) + k
      BY <2>1
    <3> QED
      BY <3>1
  <2>5. CASE LevelAt(q, j, q[j].h) /\ Behind(q, 1, j)
    <3>1. LevelAt(p, i, p[i].h)
      BY <2>1, <2>2, <2>5, LevelShifts
    <3>2. Behind(p, k + 1, i)
      <4>1. CASE j = 1
        BY <2>1, <4>1 DEF Behind
      <4>2. CASE j # 1
        <5>1. i > k + 1
          BY <2>1, <4>2
        <5> QED
          BY <2>2, <2>3, <2>5, <4>2, <5>1 DEF Behind
      <4> QED
        BY <4>1, <4>2
    <3> QED
      BY <3>1, <3>2
  <2>6. CASE j > 1 /\ LevelAt(q, j - 1, q[j].h)
    <3>1. j - 1 \in 1 .. Len(q) /\ (j - 1) + k = i - 1 /\ i > k + 1
      BY <2>1, <2>6
    <3>2. LevelAt(p, (j - 1) + k, q[j].h)
      BY <2>6, <3>1, LevelShifts
    <3> QED
      BY <2>2, <3>1, <3>2
  <2>7. CASE j > 2 /\ LevelAt(q, j - 2, q[j - 2].h) /\ q[j - 2].h > LastWarp
    <3>1. j - 2 \in 1 .. Len(q) /\ (j - 2) + k = i - 2 /\ i > (k + 1) + 1
      BY <2>1, <2>7
    <3>2. LevelAt(p, (j - 2) + k, q[j - 2].h)
      BY <2>7, <3>1, LevelShifts
    <3> QED
      BY <2>4, <2>7, <3>1, <3>2
  <2>8. CASE j = Len(q) /\ q[j] = Instr("write", 0)
    BY <2>1, <2>2, <2>8
  <2>9. \/ LevelAt(q, j, q[j].h) /\ Behind(q, 1, j)
        \/ j > 1 /\ LevelAt(q, j - 1, q[j].h)
        \/ j > 1 + 1 /\ LevelAt(q, j - 2, q[j - 2].h) /\ q[j - 2].h > LastWarp
        \/ j = Len(q) /\ q[j] = Instr("write", 0)
    BY DEF HasLevels
  <2> QED
    BY <2>1, <2>5, <2>6, <2>7, <2>8, <2>9
<1> QED
  BY <1>1 DEF HasLevels

\* So do calm and bound.
LEMMA CalmBehind ==
  ASSUME NEW p \in Seq(Instructions), NEW q \in Seq(Instructions), NEW k \in Nat,
         Len(p) = k + Len(q), \A j \in 1 .. Len(q) : p[j + k] = q[j], NEW h
  PROVE  /\ Calm(q, 1) => Calm(p, k + 1)
         /\ Below(q, 1, h) => Below(p, k + 1, h)
<1>1. \A i \in k + 1 .. Len(p) : i - k \in 1 .. Len(q) /\ p[i] = q[i - k]
  <2>1. \A i \in k + 1 .. Len(p) : i - k \in 1 .. Len(q) /\ (i - k) + k = i
    OBVIOUS
  <2> QED
    BY <2>1
<1>2. ASSUME Calm(q, 1), NEW i \in k + 1 .. Len(p), p[i].op = "load", p[i].h <= LastWarp,
             NEW j \in i .. Len(p)
      PROVE  p[j] # Barrier
  <2>1. j \in k + 1 .. Len(p) /\ i - k \in 1 .. Len(q) /\ j - k \in (i - k) .. Len(q)
    BY <1>1
  <2>2. p[i] = q[i - k] /\ p[j] = q[j - k]
    BY <1>1, <2>1
  <2> QED
    BY <1>2, <2>1, <2>2 DEF Calm
<1>3. Below(q, 1, h) => Below(p, k + 1, h)
  BY <1>1 DEF Below
<1> QED
  BY <1>2, <1>3 DEF Calm

\* A level in front of the ones below it makes levels again.
LEMMA LevelInFront ==
  ASSUME NEW q \in Seq(Instructions), NEW h \in Powers,
         GoesOn(q, 1, h \div 2), HasLevels(q, 1), Calm(q, 1), Below(q, 1, h \div 2),
         NEW p, p = Level(h) \o q
  PROVE  /\ p \in Seq(Instructions) /\ GoesOn(p, 1, h)
         /\ HasLevels(p, 1) /\ Calm(p, 1) /\ Below(p, 1, h)
<1>0. h \in Nat \ {0} /\ LastWarp \in Nat
  BY WordPowers, MaxThreadsIs
<1> DEFINE a == Level(h)
<1>1. /\ a \in Seq(Instructions) /\ Len(a) = IF h > LastWarp THEN 3 ELSE 2
      /\ a[1] = Instr("load", h) /\ a[2] = Instr("store", h) /\ (h > LastWarp => a[3] = Barrier)
  BY <1>0, LevelType
<1>2. p = a \o q
  OBVIOUS
<1> HIDE DEF a
<1>3. PICK k \in Nat : k = IF h > LastWarp THEN 3 ELSE 2
  OBVIOUS
<1>4. /\ p \in Seq(Instructions) /\ Len(q) \in Nat /\ Len(p) = k + Len(q)
      /\ \A j \in 1 .. Len(p) : p[j] = IF j <= k THEN a[j] ELSE q[j - k]
  <2>1. Len(a) = k
    BY <1>1, <1>3
  <2>2. /\ a \o q \in Seq(Instructions) /\ Len(q) \in Nat /\ Len(a \o q) = k + Len(q)
        /\ \A j \in 1 .. Len(a \o q) : (a \o q)[j] = IF j <= k THEN a[j] ELSE q[j - k]
    BY ONLY k \in Nat, <1>1, q \in Seq(Instructions), <2>1, Joined, Zenon
  <2> QED
    BY ONLY <1>2, <2>2, Zenon
<1>5. 1 \in 1 .. Len(q) /\ q[1] = IF h \div 2 = 0 THEN Instr("write", 0) ELSE Instr("load", h \div 2)
  BY DEF GoesOn
<1>6. k \in {2, 3} /\ Len(p) >= k + 1 /\ (k = 3 <=> h > LastWarp)
  BY <1>3, <1>4, <1>5
<1>7. ASSUME NEW j \in 1 .. Len(q) PROVE p[j + k] = q[j]
  <2>1. j + k \in 1 .. Len(p) /\ ~ (j + k <= k) /\ (j + k) - k = j
    BY <1>4
  <2> QED
    BY <1>4, <2>1
<1>8. /\ p[1] = Instr("load", h) /\ p[2] = Instr("store", h)
      /\ h > LastWarp => p[3] = Barrier
      /\ p[k + 1] = q[1]
  <2>1. p[1] = a[1] /\ p[2] = a[2]
    BY <1>4, <1>6
  <2>2. h > LastWarp => p[3] = a[3]
    BY <1>4, <1>6
  <2>3. p[1 + k] = q[1]
    BY <1>5, <1>7, Zenon
  <2>4. 1 + k = k + 1
    OBVIOUS
  <2> QED
    BY <1>1, <2>1, <2>2, <2>3, <2>4
<1>9. LevelAt(p, 1, h)
  <2>1. k + 1 \in 1 .. Len(p) /\ GoesOn(p, k + 1, h \div 2)
    BY <1>4, <1>5, <1>6, <1>8 DEF GoesOn
  <2>2. h > LastWarp => k + 1 = 4
    BY <1>6
  <2>3. ~ (h > LastWarp) => k + 1 = 3
    BY <1>6
  <2> QED
    BY <1>8, <2>1, <2>2, <2>3 DEF LevelAt
<1>10. HasLevels(p, k + 1) /\ Calm(p, k + 1) /\ Below(p, k + 1, h \div 2)
  <2>1. k \in Nat \ {0}
    BY <1>6
  <2> QED
    BY <1>4, <1>7, <2>1, LevelsBehind, CalmBehind
<1>11. p[1].h = h /\ p[2].h = h /\ p[2].op = "store" /\ Barrier.op = "barrier" /\ Barrier.h = 0
  BY <1>8 DEF Instr, Barrier
<1>12. HasLevels(p, 1)
  <2>1. ASSUME NEW i \in 1 .. Len(p)
        PROVE  \/ LevelAt(p, i, p[i].h) /\ Behind(p, 1, i)
               \/ i > 1 /\ LevelAt(p, i - 1, p[i].h)
               \/ i > 1 + 1 /\ LevelAt(p, i - 2, p[i - 2].h) /\ p[i - 2].h > LastWarp
               \/ i = Len(p) /\ p[i] = Instr("write", 0)
    <3>1. CASE i = 1
      BY <1>9, <1>11, <3>1 DEF Behind
    <3>2. CASE i = 2
      BY <1>9, <1>11, <3>2
    <3>3. CASE i = 3 /\ k = 3
      BY <1>6, <1>9, <1>11, <3>3
    <3>4. CASE i \in k + 1 .. Len(p)
      <4>1. \/ LevelAt(p, i, p[i].h) /\ Behind(p, k + 1, i)
            \/ i > k + 1 /\ LevelAt(p, i - 1, p[i].h)
            \/ i > (k + 1) + 1 /\ LevelAt(p, i - 2, p[i - 2].h) /\ p[i - 2].h > LastWarp
            \/ i = Len(p) /\ p[i] = Instr("write", 0)
        BY <1>10, <3>4 DEF HasLevels
      <4>2. (i > k + 1 => i > 1) /\ (i > (k + 1) + 1 => i > 1 + 1) /\ i > 1
        BY <1>6, <3>4
      <4>3. CASE i # k + 1
        BY <4>1, <4>2, <4>3 DEF Behind
      <4>4. CASE i = k + 1 /\ k = 3
        <5>1. p[i - 1] = Barrier
          BY <1>6, <1>8, <4>4
        <5> QED
          BY <4>1, <4>2, <5>1 DEF Behind
      <4>5. CASE i = k + 1 /\ k = 2
        <5>1. ASSUME LevelAt(p, i, p[i].h) PROVE Behind(p, 1, i)
          <6>1. p[i].op = "load" /\ p[i] = q[1]
            BY <1>8, <4>5, <5>1, LevelIs
          <6>2. p[i].h = h \div 2 /\ h \div 2 # 0
            BY <1>5, <6>1 DEF Instr
          <6>3. h # 1
            BY <6>2
          <6>4. 2 * p[i].h = h
            BY <6>2, <6>3, HalfIs
          <6>5. p[i - 1] = Instr("store", h) /\ h <= LastWarp
            BY <1>0, <1>6, <1>8, <4>5
          <6> QED
            BY <4>2, <6>4, <6>5 DEF Behind
        <5> QED
          BY <4>1, <4>2, <5>1
      <4> QED
        BY <1>6, <4>3, <4>4, <4>5
    <3>5. i = 1 \/ i = 2 \/ (i = 3 /\ k = 3) \/ i \in k + 1 .. Len(p)
      BY ONLY <1>4, <1>6, i \in 1 .. Len(p)
    <3> QED
      BY <3>1, <3>2, <3>3, <3>4, <3>5, Zenon
  <2> QED
    BY <2>1 DEF HasLevels
<1>13. Below(p, 1, h)
  <2>1. ASSUME NEW i \in 1 .. Len(p) PROVE p[i].h <= h
    <3>1. CASE i \in {1, 2}
      BY <1>0, <1>11, <3>1
    <3>2. CASE i = 3 /\ k = 3
      BY <1>0, <1>6, <1>8, <1>11, <3>2
    <3>3. CASE i \in k + 1 .. Len(p)
      <4>1. p[i].h <= h \div 2 /\ p[i].h \in Nat
        <5>1. p[i].h <= h \div 2
          BY <1>10, <3>3, Zenon DEF Below
        <5>2. p[i] \in Instructions
          BY <1>4
        <5>3. p[i].h \in Nat
          BY <5>2 DEF Instructions
        <5> QED
          BY <5>1, <5>3
      <4> QED
        BY <1>0, <4>1
    <3>4. i \in {1, 2} \/ (i = 3 /\ k = 3) \/ i \in k + 1 .. Len(p)
      BY ONLY <1>4, <1>6, i \in 1 .. Len(p)
    <3> QED
      BY <3>1, <3>2, <3>3, <3>4, Zenon
  <2> QED
    BY <2>1 DEF Below
<1>14. Calm(p, 1)
  <2>1. ASSUME NEW i \in 1 .. Len(p), p[i].op = "load", p[i].h <= LastWarp, NEW j \in i .. Len(p)
        PROVE  p[j] # Barrier
    <3>1. CASE i \in k + 1 .. Len(p)
      BY <1>10, <2>1, <3>1 DEF Calm
    <3>2. CASE i = 1
      <4>1. k = 2
        BY <1>0, <1>6, <1>11, <2>1, <3>2
      <4>2. CASE j \in {1, 2}
        <5>1. p[1] # Barrier /\ p[2] # Barrier
          BY <1>8 DEF Instr, Barrier
        <5> QED
          BY <4>2, <5>1
      <4>3. CASE j \in 3 .. Len(p)
        <5>1. j - 2 \in 1 .. Len(q) /\ p[j] = q[j - 2]
          <6>1. j - 2 \in 1 .. Len(q) /\ (j - 2) + k = j
            BY <1>4, <4>1, <4>3
          <6> QED
            BY <1>7, <6>1
        <5>2. CASE h \div 2 = 0
          <6>1. q[1] = Instr("write", 0) /\ q[1].op = "write" /\ q[1] # Barrier
            BY <1>5, <5>2 DEF Instr, Barrier
          <6>2. Len(q) = 1
            <7>1. \/ LevelAt(q, 1, q[1].h) /\ Behind(q, 1, 1)
                  \/ 1 > 1 /\ LevelAt(q, 1 - 1, q[1].h)
                  \/ 1 > 1 + 1 /\ LevelAt(q, 1 - 2, q[1 - 2].h) /\ q[1 - 2].h > LastWarp
                  \/ 1 = Len(q) /\ q[1] = Instr("write", 0)
              BY <1>5 DEF HasLevels
            <7>2. ~ LevelAt(q, 1, q[1].h)
              BY <6>1, LevelIs
            <7> QED
              BY <7>1, <7>2
          <6>3. j - 2 = 1
            BY <5>1, <6>2
          <6> QED
            BY <5>1, <6>1, <6>3
        <5>3. CASE h \div 2 # 0
          <6>1. q[1].op = "load" /\ q[1].h = h \div 2
            BY <1>5, <5>3 DEF Instr
          <6>2. h \div 2 <= LastWarp
            BY <1>0, <1>6, <4>1
          <6>3. j - 2 \in 1 .. Len(q)
            BY <5>1
          <6> QED
            BY <1>5, <5>1, <6>1, <6>2, <6>3 DEF Calm
        <5> QED
          BY <5>2, <5>3
      <4> QED
        BY <3>2, <4>2, <4>3
    <3>3. CASE i = 2
      BY <1>11, <2>1, <3>3
    <3>4. CASE i = 3 /\ k = 3
      BY <1>6, <1>8, <1>11, <2>1, <3>4
    <3> QED
      BY <1>6, <3>1, <3>2, <3>3, <3>4
  <2> QED
    BY <2>1 DEF Calm
<1> QED
  BY <1>0, <1>4, <1>6, <1>8, <1>12, <1>13, <1>14 DEF GoesOn

\* The tree from a power of two on consists of levels.
LEMMA LevelsShape ==
  ASSUME NEW s \in 0 .. MaxThreads, s = 0 \/ s \in Powers
  PROVE  /\ Levels[s] \in Seq(Instructions) /\ GoesOn(Levels[s], 1, s)
         /\ HasLevels(Levels[s], 1) /\ Calm(Levels[s], 1) /\ Below(Levels[s], 1, s)
<1> DEFINE Good(n) == /\ Levels[n] \in Seq(Instructions) /\ GoesOn(Levels[n], 1, n)
                      /\ HasLevels(Levels[n], 1) /\ Calm(Levels[n], 1) /\ Below(Levels[n], 1, n)
           Bad == {n \in 0 .. MaxThreads : (n = 0 \/ n \in Powers) /\ ~ Good(n)}
<1> SUFFICES ASSUME Bad # {} PROVE FALSE
  OBVIOUS
<1>1. PICK n \in Bad : \A k \in Bad : n <= k
  <2>1. Bad \subseteq Nat
    OBVIOUS
  <2> HIDE DEF Bad
  <2> QED
    BY <2>1, Least
<1>2. n \in 0 .. MaxThreads /\ (n = 0 \/ n \in Powers) /\ ~ Good(n)
  BY <1>1
<1>3. Levels[n] = IF n = 0 THEN <<Instr("write", 0)>> ELSE Level(n) \o Levels[n \div 2]
  BY <1>2, LevelsDef DEF LevelsTo
<1>4. CASE n = 0
  <2>1. PICK p : p = <<Instr("write", 0)>>
    OBVIOUS
  <2>2. p \in Seq(Instructions) /\ Len(p) = 1 /\ p[1] = Instr("write", 0)
        /\ p[1].h = 0 /\ p[1].op = "write"
    BY <2>1 DEF Instr, Instructions
  <2>3. GoesOn(p, 1, 0) /\ HasLevels(p, 1) /\ Calm(p, 1) /\ Below(p, 1, 0)
    BY <2>2 DEF GoesOn, HasLevels, Calm, Below
  <2> QED
    BY <1>2, <1>3, <1>4, <2>1, <2>2, <2>3
<1>5. CASE n # 0
  <2>1. n \in Powers /\ n \in Nat \ {0}
    BY <1>2, <1>5
  <2>2. n \div 2 \in 0 .. MaxThreads /\ n \div 2 < n
    BY <1>2, <2>1, MaxThreadsIs
  <2>3. n \div 2 = 0 \/ n \div 2 \in Powers
    <3>1. n = 1 => n \div 2 = 0
      OBVIOUS
    <3> QED
      BY <2>1, <3>1, HalfIs
  <2>4. n \div 2 \notin Bad
    BY <1>1, <1>2, <2>2
  <2>5. Good(n \div 2)
    BY <2>2, <2>3, <2>4
  <2> HIDE DEF Bad
  <2>6. Good(n)
    BY <1>3, <1>5, <2>1, <2>5, LevelInFront
  <2> QED
    BY <1>2, <2>6
<1> QED
  BY <1>4, <1>5

\* So does the kernel, behind the fill and its barrier.
LEMMA KernelHasShape ==
  ASSUME NEW size \in Powers, size <= MaxThreads
  PROVE  KernelShape(BuildReductionKernel(size), size)
<1> DEFINE s == size \div 2
           q == Levels[s]
           front == <<Instr("fill", 0), Barrier>>
           p == BuildReductionKernel(size)
<1>1. s \in 0 .. MaxThreads /\ (s = 0 \/ s \in Powers)
  <2>1. size \in Nat \ {0}
    BY WordPowers
  <2>2. s \in 0 .. MaxThreads
    BY <2>1, MaxThreadsIs
  <2>3. size = 1 => s = 0
    OBVIOUS
  <2> QED
    BY <2>2, <2>3, HalfIs
<1>2. q \in Seq(Instructions) /\ GoesOn(q, 1, s) /\ HasLevels(q, 1) /\ Calm(q, 1) /\ Below(q, 1, s)
  BY <1>1, LevelsShape
<1>3. p = front \o q
  BY DEF BuildReductionKernel
<1>4. /\ front \in Seq(Instructions) /\ Len(front) = 2
      /\ front[1] = Instr("fill", 0) /\ front[2] = Barrier
  BY DEF Instr, Barrier, Instructions
<1> HIDE DEF q, s, front, p
<1>5. /\ p \in Seq(Instructions) /\ Len(q) \in Nat /\ Len(p) = 2 + Len(q)
      /\ \A j \in 1 .. Len(p) : p[j] = IF j <= 2 THEN front[j] ELSE q[j - 2]
  <2>1. PICK k \in Nat : k = 2
    OBVIOUS
  <2>2. front \in Seq(Instructions) /\ q \in Seq(Instructions) /\ Len(front) = k
    BY <1>2, <1>4, <2>1
  <2>3. /\ front \o q \in Seq(Instructions) /\ Len(q) \in Nat /\ Len(front \o q) = k + Len(q)
        /\ \A j \in 1 .. Len(front \o q) :
             (front \o q)[j] = IF j <= k THEN front[j] ELSE q[j - k]
    BY ONLY k \in Nat, <2>2, Joined, Zenon
  <2> QED
    BY ONLY <1>3, <2>1, <2>3, Zenon
<1>6. 1 \in 1 .. Len(q)
  BY <1>2 DEF GoesOn
<1>7. p[1] = Instr("fill", 0) /\ p[2] = Barrier /\ 3 \in 1 .. Len(p) /\ p[3] = q[1]
  BY <1>4, <1>5, <1>6
<1>8. ASSUME NEW j \in 1 .. Len(q) PROVE p[j + 2] = q[j]
  BY <1>5
<1>9. HasLevels(p, 3) /\ Calm(p, 3) /\ Below(p, 3, s)
  <2>1. 2 \in Nat \ {0} /\ 2 + 1 = 3
    OBVIOUS
  <2> QED
    BY <1>2, <1>5, <1>8, <2>1, LevelsBehind, CalmBehind
<1>10. GoesOn(p, 3, s)
  BY <1>2, <1>7 DEF GoesOn
<1> QED
  BY <1>5, <1>7, <1>9, <1>10 DEF KernelShape, s, p

-----------------------------------------------------------------------------
(* The plan of the passes *)

\* From the assumption on the sizes.
LEMMA SizesAre ==
  /\ MaxThreads \in PowersOfTwo /\ MaxBlocks \in PowersOfTwo /\ MinBuffer \in PowersOfTwo
  /\ MaxThreads \in Nat \ {0} /\ MaxBlocks \in Nat \ {0} /\ MinBuffer \in Nat \ {0}
BY SizesAssumption, WordPowers

\* The buffer has a power of two elements, enough for two warps per group.
LEMMA BufferIs ==
  ASSUME NEW n \in InputSizes
  PROVE  /\ BufferSize(n) \in PowersOfTwo /\ n \in 1 .. BufferSize(n)
         /\ 4 * LastWarp <= BufferSize(n)
<1>1. n \in 1 .. PowerOfTwo[WordBits - 1] /\ n \in Nat \ {0}
  BY SizesAssumption, WordPowers
<1>2. RoundUpPow2(n) \in PowersOfTwo /\ n <= RoundUpPow2(n)
  <2>1. CASE isPow2(n)
    BY <1>1, <2>1 DEF RoundUpPow2, isPow2
  <2>2. CASE ~ isPow2(n)
    BY <1>1, <2>2, NextPower DEF RoundUpPow2
  <2> QED
    BY <2>1, <2>2
<1>3. PICK r \in Nat : r = RoundUpPow2(n)
  BY <1>2, WordPowers
<1>4. BufferSize(n) = IF r < MinBuffer THEN MinBuffer ELSE r
  BY <1>3 DEF BufferSize
<1>5. BufferSize(n) \in PowersOfTwo
  BY <1>2, <1>3, <1>4, SizesAre
<1>6. n <= BufferSize(n) /\ MinBuffer <= BufferSize(n)
  BY <1>1, <1>2, <1>3, <1>4, SizesAre
<1>7. 4 * LastWarp <= MinBuffer /\ LastWarp \in Nat
  BY SizesAssumption
<1>8. PICK b \in Nat : b = BufferSize(n)
  BY <1>5, WordPowers
<1>9. n \in 1 .. b /\ 4 * LastWarp <= b
  BY <1>1, <1>6, <1>7, <1>8, SizesAre
<1> QED
  BY <1>5, <1>8, <1>9

\* Groups of a power of two of items take a power of two of elements.
LEMMA ThreadsOfPower ==
  ASSUME NEW n \in PowersOfTwo, n # 1
  PROVE  /\ n < MaxThreads * 2 => NumThreads(n) \in Powers /\ 2 * NumThreads(n) = n
         /\ ~ (n < MaxThreads * 2) => NumThreads(n) = MaxThreads
<1>1. n \in Powers /\ n \in Nat \ {0}
  BY WordPowers
<1>2. PICK m \in Nat : m = n \div 2 /\ n = 2 * m
  BY <1>1, HalfIs
<1>3. m \in Powers /\ m <= n /\ m # 0
  BY <1>1, <1>2, HalfIs
<1>4. m \in PowersOfTwo /\ m <= PowerOfTwo[WordBits - 1]
  BY <1>3, PowerInWord
<1>5. m \in 1 .. PowerOfTwo[WordBits - 1]
  BY <1>3, <1>4, WordPowers
<1>6. nextPow2(m) = m
  <2>1. m <= nextPow2(m) /\ nextPow2(m) <= m /\ nextPow2(m) \in Nat
    <3>1. nextPow2(m) \in PowersOfTwo /\ m <= nextPow2(m)
      BY <1>5, NextPower
    <3>2. \A q \in PowersOfTwo : q >= m => nextPow2(m) <= q
      BY <1>5, NextPower
    <3>3. m >= m
      OBVIOUS
    <3> QED
      BY <1>4, <3>1, <3>2, <3>3, WordPowers
  <2> QED
    BY <2>1
<1>7. (n + 1) \div 2 = m
  BY <1>2
<1> QED
  BY <1>2, <1>3, <1>6, <1>7 DEF NumThreads

\* What fits into one group takes one.
LEMMA OneGroup ==
  ASSUME NEW n \in Nat \ {0}, NEW t \in Nat \ {0}, n <= 2 * t
  PROVE  (n + t * 2 - 1) \div (t * 2) = 1
<1>1. PICK m \in Nat \ {0} : m = t * 2
  OBVIOUS
<1>2. n + t * 2 - 1 \in Nat /\ n + t * 2 - 1 = 1 * m + (n - 1) /\ n - 1 \in 0 .. m - 1
  BY <1>1
<1>3. (n + t * 2 - 1) \div m = 1
  BY <1>2, ModIs
<1> QED
  BY <1>1, <1>3

\* What makes r groups takes r.
LEMMA WholeGroups ==
  ASSUME NEW r \in Nat, NEW t \in Nat \ {0}, NEW n \in Nat, n = (2 * t) * r
  PROVE  (n + t * 2 - 1) \div (t * 2) = r
<1>1. PICK m \in Nat \ {0} : m = t * 2
  OBVIOUS
<1>2. n = r * m
  BY <1>1
<1>3. n + t * 2 - 1 \in Nat /\ n + t * 2 - 1 = r * m + (m - 1) /\ m - 1 \in 0 .. m - 1
  BY <1>1, <1>2
<1>4. (n + t * 2 - 1) \div m = r
  BY <1>3, ModIs
<1> QED
  BY <1>1, <1>4

\* The first pass.
LEMMA FirstPass ==
  ASSUME NEW n \in PowersOfTwo, 4 * LastWarp <= n
  PROVE  /\ NumThreads(n) \in Powers /\ NumThreads(n) <= MaxThreads
         /\ 2 * LastWarp <= NumThreads(n)
         /\ NumBlocks(n) \in Powers /\ n = (2 * NumThreads(n)) * NumBlocks(n)
<1>0. /\ n \in Powers /\ n \in Nat \ {0} /\ LastWarp \in Nat \ {0} /\ n # 1
      /\ MaxThreads \in Nat \ {0} /\ MaxThreads \in Powers
  <2>1. n \in Powers /\ n \in Nat \ {0} /\ LastWarp \in Nat \ {0}
    BY WordPowers, MaxThreadsIs
  <2>2. MaxThreads \in Nat \ {0} /\ MaxThreads \in Powers
    BY SizesAre, WordPowers
  <2> QED
    BY <2>1, <2>2
<1>1. PICK t : t = NumThreads(n)
  OBVIOUS
<1>2. /\ n < MaxThreads * 2 => t \in Powers /\ 2 * t = n
      /\ ~ (n < MaxThreads * 2) => t = MaxThreads
  BY <1>0, <1>1, ThreadsOfPower
<1>3. t \in Powers /\ t \in Nat \ {0}
  BY <1>0, <1>2, WordPowers
<1>4. t <= MaxThreads /\ 2 * t <= n
  BY <1>0, <1>2, <1>3
<1>5. 2 * LastWarp <= t
  <2>1. 2 * LastWarp <= MaxThreads
    BY SizesAssumption
  <2> QED
    BY <1>0, <1>2, <1>3, <2>1
<1>6. PICK r \in Powers : n = (2 * t) * r
  <2>1. 2 * t \in Powers
    BY <1>3, DoubleIs
  <2> QED
    BY <1>0, <1>4, <2>1, PowerDivides
<1>7. NumBlocks(n) = r
  <2>1. r \in Nat
    BY WordPowers
  <2>2. (n + t * 2 - 1) \div (t * 2) = r
    BY <1>0, <1>3, <1>6, <2>1, WholeGroups
  <2> QED
    BY <1>1, <2>2 DEF NumBlocks
<1> QED
  BY <1>1, <1>3, <1>4, <1>5, <1>6, <1>7

\* A later pass always has one group.
LEMMA LaterPassIsOneGroup ==
  ASSUME NEW s \in 2 .. MaxBlocks
  PROVE  NumBlocks(s) = 1
<1>0. /\ s \in Nat \ {0} /\ MaxThreads \in Nat \ {0} /\ MaxBlocks \in Nat /\ s <= MaxBlocks
      /\ MaxBlocks <= 2 * MaxThreads
  BY SizesAre, SizesAssumption
<1>1. PICK t : t = NumThreads(s)
  OBVIOUS
<1>2. CASE s < MaxThreads * 2
  <2>1. PICK m \in Nat \ {0} : m = (s + 1) \div 2 /\ s <= 2 * m /\ m <= s
    BY <1>0
  <2>2. PICK top \in Nat : top = PowerOfTwo[WordBits - 1]
    BY WordPowers
  <2>3. MaxBlocks <= top
    BY <2>2, SizesAre, WordPowers, PowerInWord
  <2>4. m \in 1 .. top
    BY <1>0, <2>1, <2>3
  <2>5. nextPow2(m) \in PowersOfTwo /\ m <= nextPow2(m)
    BY <2>2, <2>4, NextPower
  <2>6. t = nextPow2(m)
    BY <1>1, <1>2, <2>1 DEF NumThreads
  <2>7. t \in Nat \ {0} /\ s <= 2 * t
    <3>1. t \in Nat \ {0} /\ m <= t
      BY <2>5, <2>6, WordPowers
    <3> QED
      BY <1>0, <2>1, <3>1
  <2>8. (s + t * 2 - 1) \div (t * 2) = 1
    BY <1>0, <2>7, OneGroup
  <2> QED
    BY <1>1, <2>8 DEF NumBlocks
<1>3. CASE ~ (s < MaxThreads * 2)
  <2>1. t = MaxThreads
    BY <1>1, <1>3 DEF NumThreads
  <2>2. (s + t * 2 - 1) \div (t * 2) = 1
    BY <1>0, <2>1, OneGroup
  <2> QED
    BY <1>1, <2>2 DEF NumBlocks
<1> QED
  BY <1>2, <1>3

PassRecords == [kernel : {5, 6}, threads : Nat, blocks : Nat, program : Seq(Instructions)]

\* so the recursion ends after it.
LEMMA LaterPassesAre ==
  ASSUME NEW s \in 1 .. MaxBlocks
  PROVE  LaterPasses[s] = IF s = 1 THEN << >> ELSE <<Pass(5, s, 1)>> \o << >>
<1> DEFINE Step(f) == [x \in 0 .. MaxBlocks |->
                         IF x <= 1 THEN << >> ELSE <<Pass(5, x, NumBlocks(x))>> \o f[NumBlocks(x)]]
           later == CHOOSE f : f = Step(f)
           g == [x \in 0 .. MaxBlocks |->
                  IF x <= 1 THEN << >> ELSE <<Pass(5, x, NumBlocks(x))>> \o << >>]
<1>0. MaxBlocks \in Nat \ {0} /\ 1 \in 0 .. MaxBlocks
  <2>1. MaxBlocks \in Nat \ {0}
    BY SizesAre
  <2> QED
    BY <2>1
<1>1. \A x \in 0 .. MaxBlocks : ~ (x <= 1) => NumBlocks(x) = 1
  <2>1. \A x \in 0 .. MaxBlocks : ~ (x <= 1) => x \in 2 .. MaxBlocks
    BY <1>0
  <2> QED
    BY <2>1, LaterPassIsOneGroup
<1>2. g = Step(g)
  <2>1. g[1] = << >>
    BY <1>0
  <2>2. \A x \in 0 .. MaxBlocks : g[x] = Step(g)[x]
    BY <1>1, <2>1
  <2> QED
    BY <2>2
<1> HIDE DEF g
<1>3. later = Step(later)
  BY <1>2
<1>4. LaterPasses = later
  BY DEF LaterPasses
<1> HIDE DEF later
<1>5. PICK h : h = later
  OBVIOUS
<1>6. h = Step(h)
  BY <1>3, <1>5
<1>7. h[1] = << >>
  <2>1. Step(h)[1] = << >>
    BY <1>0
  <2> HIDE DEF Step
  <2> QED
    BY <1>6, <2>1
<1>8. s \in 0 .. MaxBlocks /\ (s <= 1 <=> s = 1)
  BY <1>0
<1>9. Step(h)[s] = IF s = 1 THEN << >> ELSE <<Pass(5, s, NumBlocks(s))>> \o h[NumBlocks(s)]
  BY <1>8
<1>10. s # 1 => NumBlocks(s) = 1
  BY <1>1, <1>8
<1>11. h[s] = IF s = 1 THEN << >> ELSE <<Pass(5, s, 1)>> \o << >>
  <2>1. h[s] = Step(h)[s]
    BY <1>6
  <2> HIDE DEF Step
  <2> QED
    BY <1>7, <1>9, <1>10, <2>1
<1> QED
  BY <1>4, <1>5, <1>11

\* What two passes make.
LEMMA Both ==
  ASSUME NEW S, NEW x \in S, NEW y \in S
  PROVE  Len(<<x>> \o <<y>>) = 2 /\ (<<x>> \o <<y>>)[1] = x /\ (<<x>> \o <<y>>)[2] = y
<1> DEFINE a == <<x>>
           b == <<y>>
<1>1. a \in Seq(S) /\ Len(a) = 1 /\ a[1] = x /\ b \in Seq(S) /\ Len(b) = 1 /\ b[1] = y
  OBVIOUS
<1> HIDE DEF a, b
<1>2. Len(a \o b) = 2 /\ (a \o b)[1] = a[1] /\ (a \o b)[2] = b[1]
  <2>1. Len(a \o b) = Len(a) + Len(b)
    BY <1>1, ConcatProperties
  <2>2. \A j \in 1 .. Len(a) + Len(b) : (a \o b)[j] = IF j <= Len(a) THEN a[j] ELSE b[j - Len(a)]
    BY <1>1, ConcatProperties
  <2> QED
    BY <1>1, <2>1, <2>2
<1> QED
  BY <1>1, <1>2 DEF a, b

\* What a pass consists of.
LEMMA PassIs ==
  ASSUME NEW id \in {5, 6}, NEW n, NEW b \in Nat \ {0},
         NumThreads(n) \in Powers, NumThreads(n) <= MaxThreads
  PROVE  /\ Pass(id, n, b) \in PassRecords /\ PassShape(Pass(id, n, b))
         /\ Pass(id, n, b).kernel = id /\ Pass(id, n, b).blocks = b
         /\ Pass(id, n, b).threads = NumThreads(n)
<1>1. PICK t \in Powers : t = NumThreads(n)
  OBVIOUS
<1>2. KernelShape(BuildReductionKernel(t), t)
  BY <1>1, KernelHasShape
<1>3. PICK p : p = BuildReductionKernel(t)
  OBVIOUS
<1>4. Pass(id, n, b) = [kernel |-> id, threads |-> t, blocks |-> b, program |-> p]
  BY <1>1, <1>3 DEF Pass
<1>5. p \in Seq(Instructions) /\ t \in Nat
  BY <1>2, <1>3, WordPowers DEF KernelShape
<1>6. Pass(id, n, b) \in PassRecords
  BY <1>4, <1>5 DEF PassRecords
<1> QED
  BY <1>1, <1>2, <1>3, <1>4, <1>6 DEF PassShape

\* There are one or two passes.
LEMMA PassesAre ==
  ASSUME Sized
  PROVE  Planned
<1>1. /\ mBufferSize \in PowersOfTwo /\ mInputSize \in 1 .. mBufferSize
      /\ 4 * LastWarp <= mBufferSize /\ passes = BuildKernels(mBufferSize)
  BY BufferIs DEF Sized
<1>2. PICK n \in PowersOfTwo : n = mBufferSize
  BY <1>1
<1>3. PICK t \in Powers, r \in Powers :
        /\ t = NumThreads(n) /\ r = NumBlocks(n)
        /\ t <= MaxThreads /\ 2 * LastWarp <= t /\ n = (2 * t) * r
  BY <1>1, <1>2, FirstPass
<1>4. t \in Nat \ {0} /\ r \in Nat \ {0} /\ MaxBlocks \in Nat \ {0} /\ MaxBlocks \in Powers
  BY SizesAre, WordPowers
<1>5. PICK b \in Powers : b = IF MaxBlocks < r THEN MaxBlocks ELSE r
  BY <1>4
<1>6. b \in 1 .. MaxBlocks /\ b <= r /\ b \in Nat \ {0}
  BY <1>4, <1>5
<1>7. PICK one : one = Pass(6, n, b)
  OBVIOUS
<1>8. /\ one \in PassRecords /\ PassShape(one)
      /\ one.kernel = 6 /\ one.threads = t /\ one.blocks = b
  BY <1>3, <1>6, <1>7, PassIs
<1>9. passes = <<one>> \o LaterPasses[b]
  BY <1>1, <1>2, <1>3, <1>5, <1>7 DEF BuildKernels
<1>10. CASE b = 1
  <2>1. passes = <<one>> \o << >>
    BY <1>6, <1>9, <1>10, LaterPassesAre
  <2>2. <<one>> \o << >> = <<one>>
    BY <1>8
  <2>3. Len(passes) = 1 /\ passes[1] = one
    BY <2>1, <2>2
  <2> QED
    BY <1>1, <1>2, <1>3, <1>4, <1>6, <1>8, <1>10, <2>3 DEF Planned
<1>11. CASE b # 1
  <2>1. b \in PowersOfTwo /\ b <= MaxThreads * 2
    BY <1>4, <1>6, SizesAre, SizesAssumption, PowerInWord
  <2>2. PICK u \in Powers : u = NumThreads(b) /\ 2 * u = b /\ u <= MaxThreads
    <3>1. CASE b < MaxThreads * 2
      <4>1. NumThreads(b) \in Powers /\ 2 * NumThreads(b) = b
        BY <1>11, <2>1, <3>1, ThreadsOfPower
      <4>2. PICK u \in Powers : u = NumThreads(b)
        BY <4>1
      <4>3. u \in Nat /\ 2 * u = b
        BY <4>1, <4>2, WordPowers
      <4>4. u <= MaxThreads
        BY <3>1, <4>3, SizesAre
      <4> QED
        BY <4>2, <4>3, <4>4
    <3>2. CASE ~ (b < MaxThreads * 2)
      <4>1. NumThreads(b) = MaxThreads
        BY <1>11, <2>1, <3>2, ThreadsOfPower
      <4>2. b = 2 * MaxThreads
        BY <1>6, <2>1, <3>2, SizesAre
      <4>3. MaxThreads \in Powers /\ MaxThreads <= MaxThreads
        BY SizesAre, WordPowers
      <4> QED
        BY <4>1, <4>2, <4>3
    <3> QED
      BY <3>1, <3>2
  <2>3. PICK two : two = Pass(5, b, 1)
    OBVIOUS
  <2>4. /\ two \in PassRecords /\ PassShape(two)
        /\ two.kernel = 5 /\ two.threads = u /\ two.blocks = 1
    BY <2>2, <2>3, PassIs
  <2>5. passes = <<one>> \o (<<two>> \o << >>)
    BY <1>6, <1>9, <1>11, <2>3, LaterPassesAre
  <2>6. <<two>> \o << >> = <<two>>
    BY <2>4
  <2>7. /\ Len(<<one>> \o <<two>>) = 2
        /\ (<<one>> \o <<two>>)[1] = one /\ (<<one>> \o <<two>>)[2] = two
    BY <1>8, <2>4, Both
  <2>8. Len(passes) = 2 /\ passes[1] = one /\ passes[2] = two
    BY <2>5, <2>6, <2>7
  <2>9. t = MaxThreads
    <3>1. CASE n < MaxThreads * 2
      <4>1. n # 1 /\ n \in Nat
        BY <1>1, <1>2, SizesAre, SizesAssumption, WordPowers
      <4>2. 2 * t = n
        BY <1>3, <3>1, <4>1, ThreadsOfPower
      <4>3. (2 * t) * r = 2 * t => r = 1
        BY <1>4, SMTT(30)
      <4> QED
        BY <1>3, <1>6, <1>11, <4>2, <4>3
    <3>2. CASE ~ (n < MaxThreads * 2)
      <4>1. n # 1
        BY <3>2, SizesAre
      <4> QED
        BY <1>3, <3>2, <4>1, ThreadsOfPower
    <3> QED
      BY <3>1, <3>2
  <2>10. /\ PassShape(passes[2]) /\ passes[2].kernel = 5 /\ passes[2].blocks = 1
         /\ passes[1].blocks = 2 * passes[2].threads /\ passes[2].threads <= passes[1].threads
    BY <1>8, <2>2, <2>4, <2>8, <2>9
  <2> QED
    BY <1>1, <1>2, <1>3, <1>4, <1>6, <1>8, <1>11, <2>8, <2>10 DEF Planned
<1> QED
  BY <1>10, <1>11

-----------------------------------------------------------------------------
(* The group that runs *)

\* Quotients are in the order of the dividends.
LEMMA DivMonotone ==
  ASSUME NEW a \in Nat, NEW b \in Nat, NEW m \in Nat \ {0}, a <= b
  PROVE  a \div m \in Nat /\ a \div m <= b \div m
<1>1. PICK q \in Nat, r \in 0 .. m - 1 : a = q * m + r /\ a \div m = q
  BY DivIs
<1>2. PICK p \in Nat, s \in 0 .. m - 1 : b = p * m + s /\ b \div m = p
  BY DivIs
<1>3. ASSUME p < q PROVE FALSE
  <2>1. p * m + m <= q * m
    BY <1>3, TimesMonotone
  <2>2. p * m \in Nat /\ q * m \in Nat
    OBVIOUS
  <2> QED
    BY <1>1, <1>2, <2>1, <2>2
<1> QED
  BY <1>1, <1>2, <1>3

\* What is known of the pass and its groups.
LEMMA GroupShape ==
  ASSUME Sized, Typed
  PROVE  /\ Planned /\ pass \in {1, 2} /\ pass \in 1 .. Len(passes)
         /\ blockSize \in Powers /\ blockSize \in Nat \ {0} /\ passes[1].threads \in Nat \ {0}
         /\ blockSize <= passes[1].threads /\ 2 * LastWarp <= passes[1].threads
         /\ passes[1].blocks \in Nat \ {0}
         /\ KernelShape(program, blockSize)
         /\ bid \in Nat /\ bid < blocks /\ blocks \in Nat \ {0}
         /\ pass = 1 => /\ kernel = 6 /\ blockSize = passes[1].threads
                        /\ blocks = passes[1].blocks
         /\ pass = 2 => /\ kernel = 5 /\ blocks = 1 /\ bid = 0
                        /\ passes[1].blocks = 2 * blockSize
<1>1. Planned
  BY PassesAre
<1>2. PassShape(passes[1]) /\ Len(passes) \in {1, 2} /\ pass \in 1 .. Len(passes)
  BY <1>1 DEF Planned, Typed
<1>3. pass \in {1, 2} /\ (pass = 2 => passes[1].blocks # 1)
  BY <1>1, <1>2 DEF Planned
<1>4. /\ passes[1].threads \in Nat \ {0} /\ passes[1].blocks \in Nat \ {0}
      /\ 2 * LastWarp <= passes[1].threads
  BY <1>1, <1>2, WordPowers DEF Planned, PassShape
<1>5. CASE pass = 1
  <2>1. /\ blockSize = passes[1].threads /\ blocks = passes[1].blocks
        /\ program = passes[1].program /\ kernel = 6
    BY <1>1, <1>5 DEF Planned, blockSize, blocks, program, kernel
  <2>2. bid \in 0 .. passes[1].blocks - 1
    BY <2>1 DEF Typed
  <2>3. /\ blockSize \in Powers /\ blockSize \in Nat \ {0}
        /\ KernelShape(program, blockSize)
    BY <1>2, <1>4, <2>1 DEF PassShape
  <2>4. bid \in Nat /\ bid < blocks /\ blocks \in Nat \ {0} /\ blockSize <= passes[1].threads
    BY <1>4, <2>1, <2>2
  <2> QED
    BY <1>1, <1>2, <1>3, <1>4, <1>5, <2>1, <2>3, <2>4
<1>6. CASE pass = 2
  <2>1. /\ blockSize = passes[2].threads /\ blocks = 1 /\ program = passes[2].program
        /\ kernel = 5 /\ PassShape(passes[2]) /\ passes[1].blocks = 2 * blockSize
        /\ blockSize <= passes[1].threads
    BY <1>1, <1>3, <1>6 DEF Planned, blockSize, blocks, program, kernel
  <2>2. bid \in 0 .. 1 - 1
    BY <2>1 DEF Typed
  <2>3. blockSize \in Powers /\ blockSize \in Nat \ {0} /\ KernelShape(program, blockSize)
    BY <2>1, WordPowers DEF PassShape
  <2>4. bid \in Nat /\ bid = 0 /\ bid < blocks /\ blocks \in Nat \ {0}
    BY <2>1, <2>2
  <2> QED
    BY <1>1, <1>2, <1>3, <1>4, <1>6, <2>1, <2>3, <2>4
<1> QED
  BY <1>3, <1>5, <1>6

\* Every item is in a bundle, those of the last warp in the first one if it
\* runs in lockstep.
LEMMA BundleIs ==
  ASSUME Sized, Typed
  PROVE  /\ \A u \in Items : u \in Nat /\ u < blockSize /\ Bundle(u) \in Group
         /\ \A b : Lanes(b, blockSize, Width) = {u \in Items : Bundle(u) = b}
         /\ 0 \in Items /\ 0 \in Group /\ Bundle(0) = 0
         /\ Lockstep => \A u \in Items : u < LastWarp => Bundle(u) = 0
         /\ Items \subseteq Local /\ 0 \in Local
<1>1. /\ blockSize \in Nat \ {0} /\ Width \in Nat \ {0} /\ blockSize - 1 \in Nat
      /\ LastWarp \in Nat \ {0}
      /\ passes[1].threads \in Nat \ {0} /\ blockSize <= passes[1].threads
  BY GroupShape, MaxThreadsIs
<1>2. ASSUME NEW u \in Items PROVE u \in Nat /\ u < blockSize /\ Bundle(u) \in Group
  <2>1. u \in Nat /\ u <= blockSize - 1
    BY <1>1 DEF Items
  <2>2. u \div Width \in Nat /\ u \div Width <= (blockSize - 1) \div Width
    BY <1>1, <2>1, DivMonotone
  <2>3. (blockSize - 1) \div Width \in Nat
    BY <1>1
  <2> QED
    BY <1>1, <2>1, <2>2, <2>3 DEF Bundle, Group, Bundles
<1>3. 0 \in Items
  BY <1>1 DEF Items
<1>4. ASSUME NEW u \in Nat, u < Width PROVE Bundle(u) = 0
  <2>1. u = 0 * Width + u /\ u \in 0 .. Width - 1 /\ 0 \in Nat
    BY <1>1, <1>4
  <2>2. u \div Width = 0
    BY <1>1, <2>1, ModIs
  <2> QED
    BY <2>2 DEF Bundle
<1>5. Bundle(0) = 0
  BY <1>1, <1>4
<1>6. Lockstep => \A u \in Items : u < LastWarp => Bundle(u) = 0
  BY <1>1, <1>2, <1>4 DEF Lockstep
<1>7. \A b : Lanes(b, blockSize, Width) = {u \in Items : Bundle(u) = b}
  BY DEF Lanes, Items, Bundle
<1>8. Items \subseteq Local /\ 0 \in Local
  BY <1>1 DEF Items, Local
<1> QED
  BY <1>2, <1>3, <1>5, <1>6, <1>7, <1>8

\* The bundles of a group, and where they are.
LEMMA GroupIs ==
  ASSUME Sized, Typed
  PROVE  /\ DOMAIN at = Group /\ \A b \in Group : at[b] \in Nat \ {0}
         /\ Len(program) \in Nat /\ Len(program) >= 3
<1>1. KernelShape(program, blockSize)
  BY GroupShape
<1> QED
  BY <1>1 DEF Typed, KernelShape, GoesOn
-----------------------------------------------------------------------------
(* Where a bundle is in the kernel *)

\* How the kernel starts.
LEMMA Lengths ==
  ASSUME KernelShape(program, blockSize)
  PROVE  /\ Len(program) \in Nat /\ Len(program) >= 3
         /\ program[1].op = "fill" /\ program[2].op = "barrier" /\ program[2] = Barrier
         /\ Barrier.op = "barrier"
BY DEF KernelShape, GoesOn, Instr, Barrier

\* A level has a place in the kernel.
LEMMA LevelFits ==
  ASSUME KernelShape(program, blockSize), NEW i \in 3 .. Len(program), NEW h,
         LevelAt(program, i, h)
  PROVE  /\ h \in Nat \ {0} /\ h \in Powers
         /\ program[i].op = "load" /\ program[i].h = h
         /\ program[i + 1].op = "store" /\ program[i + 1].h = h
         /\ i + 2 \in 3 .. Len(program)
         /\ h > LastWarp => program[i + 2] = Barrier /\ program[i + 2].op = "barrier"
                            /\ i + 3 \in 3 .. Len(program)
<1>1. /\ h \in Powers /\ h \in Nat \ {0} /\ program[i].op = "load" /\ program[i].h = h
      /\ program[i + 1].op = "store" /\ program[i + 1].h = h
      /\ h > LastWarp => program[i + 2] = Barrier /\ i + 3 \in 1 .. Len(program)
      /\ ~ (h > LastWarp) => i + 2 \in 1 .. Len(program)
  BY LevelIs
<1>2. Len(program) \in Nat /\ Barrier.op = "barrier"
  BY Lengths
<1>3. h > LastWarp => i + 3 \in 3 .. Len(program) /\ i + 2 \in 3 .. Len(program)
  BY <1>1, <1>2
<1>4. ~ (h > LastWarp) => i + 2 \in 3 .. Len(program)
  BY <1>1, <1>2
<1> QED
  BY <1>1, <1>2, <1>3, <1>4

\* Each instruction of the levels is one of four.
LEMMA OpIs ==
  ASSUME KernelShape(program, blockSize), NEW i \in 3 .. Len(program)
  PROVE  \/ /\ program[i].op = "load" /\ LevelAt(program, i, program[i].h)
            /\ Behind(program, 3, i)
         \/ program[i].op = "store" /\ i - 1 \in 3 .. Len(program)
              /\ LevelAt(program, i - 1, program[i].h)
         \/ program[i].op = "barrier" /\ i - 2 \in 3 .. Len(program)
              /\ LevelAt(program, i - 2, program[i - 2].h) /\ program[i - 2].h > LastWarp
         \/ program[i].op = "write" /\ i = Len(program)
<1>0. Len(program) \in Nat
  BY Lengths
<1>2. \/ LevelAt(program, i, program[i].h) /\ Behind(program, 3, i)
      \/ i > 3 /\ LevelAt(program, i - 1, program[i].h)
      \/ i > 3 + 1 /\ LevelAt(program, i - 2, program[i - 2].h) /\ program[i - 2].h > LastWarp
      \/ i = Len(program) /\ program[i] = Instr("write", 0)
  BY DEF KernelShape, HasLevels
<1>3. CASE LevelAt(program, i, program[i].h) /\ Behind(program, 3, i)
  BY <1>3, LevelFits
<1>4. CASE i > 3 /\ LevelAt(program, i - 1, program[i].h)
  <2>1. i - 1 \in 3 .. Len(program) /\ (i - 1) + 1 = i
    BY <1>0, <1>4
  <2>2. program[(i - 1) + 1].op = "store"
    BY <1>4, <2>1, LevelFits
  <2> QED
    BY <1>4, <2>1, <2>2
<1>5. CASE i > 3 + 1 /\ LevelAt(program, i - 2, program[i - 2].h) /\ program[i - 2].h > LastWarp
  <2>1. i - 2 \in 3 .. Len(program) /\ (i - 2) + 2 = i
    BY <1>0, <1>5
  <2>2. program[(i - 2) + 2].op = "barrier"
    BY <1>5, <2>1, LevelFits
  <2> QED
    BY <1>5, <2>1, <2>2
<1>6. CASE i = Len(program) /\ program[i] = Instr("write", 0)
  BY <1>6 DEF Instr
<1> QED
  BY <1>2, <1>3, <1>4, <1>5, <1>6

\* Only the first instruction fills; the others but the first barrier are in the levels.
LEMMA FillIsFirst ==
  ASSUME KernelShape(program, blockSize), NEW i \in 1 .. Len(program)
  PROVE  /\ program[i].op = "fill" => i = 1
         /\ program[i].op \notin {"fill", "barrier"} => i \in 3 .. Len(program)
         /\ program[i].op = "barrier" => program[i] = Barrier /\ i # 1
<1>1. CASE i \in {1, 2}
  BY <1>1, Lengths
<1>2. CASE i \in 3 .. Len(program)
  <2>1. program[i].op # "fill"
    BY <1>2, OpIs
  <2>2. ASSUME program[i].op = "barrier" PROVE program[i] = Barrier
    <3>1. PICK k : k = i - 2
      OBVIOUS
    <3>2. k \in 3 .. Len(program) /\ LevelAt(program, k, program[k].h) /\ program[k].h > LastWarp
      BY <1>2, <2>2, <3>1, OpIs
    <3>3. program[k + 2] = Barrier
      BY <3>2, LevelFits
    <3>4. k + 2 = i
      BY <1>2, <3>1
    <3> QED
      BY <3>3, <3>4
  <2> QED
    BY <1>2, <2>1, <2>2
<1> QED
  BY <1>1, <1>2, Lengths

\* Where a bundle is that executes an instruction.
LEMMA AtIs ==
  ASSUME Sized, Typed, NEW b \in Group, NEW op, Executes(program, b, op)
  PROVE  at[b] \in 1 .. Len(program) /\ program[at[b]].op = op
BY GroupIs DEF Executes
-----------------------------------------------------------------------------
(* What the items fill in *)

\* In the first pass an item takes every element that is its own in the group's
\* parts of the buffer, which are whole.
LEMMA FirstReads ==
  ASSUME Sized, Typed, pass = 1, NEW t \in Items
  PROVE  FillReads(t) =
           {a \in 0 .. mBufferSize - 1 : Block(a) = bid /\ a % blockSize = t}
<1>1. PICK c \in Nat \ {0}, b \in Nat \ {0}, g \in Nat :
        /\ c = blockSize /\ c = passes[1].threads /\ b = blocks /\ b = passes[1].blocks
        /\ g = bid /\ g < b /\ kernel = 6
  BY GroupShape
<1>2. t \in 0 .. c - 1 /\ t \in Nat /\ g \in Nat /\ g \in 0 .. b - 1
  BY <1>1 DEF Items
<1>3. PICK m \in Nat \ {0} : m = 2 * c
  OBVIOUS
<1>4. PICK n \in Nat, r \in Nat : n = mBufferSize /\ n = m * r /\ n = r * m
  <2>1. PICK r \in Nat : mBufferSize = (2 * passes[1].threads) * r
    BY GroupShape DEF Planned
  <2>2. mBufferSize = m * r /\ m * r = r * m /\ m * r \in Nat
    BY <1>1, <1>3, <2>1
  <2> QED
    BY <2>2
<1>5. isPow2(n)
  BY <1>4, GroupShape DEF Planned, isPow2
<1>6. PICK i \in Nat, w \in Nat \ {0} : i = g * m + t /\ w = m * b
  <2>1. g * m \in Nat /\ m * b \in Nat \ {0}
    BY <1>2, SMTT(30)
  <2> QED
    BY <1>2, <2>1
<1>7. bid * blockSize * 2 + t = i /\ blockSize * 2 * blocks = w
  BY <1>1, <1>2, <1>3, <1>6
<1>8. ASSUME NEW a \in Nat
       PROVE  (a \div m) % b = g /\ a % c = t
                <=> \E k \in Nat : a = (k * b + g) * m + t \/ a = (k * b + g) * m + (t + c)
  <2>0. t \in 0 .. m - 1 /\ t + c \in 0 .. m - 1
    BY <1>2, <1>3
  <2>1. a % c = t <=> a % m \in {t, t + c}
    BY <1>2, <1>3, ModSplits
  <2>2. ASSUME (a \div m) % b = g, a % c = t
        PROVE  \E k \in Nat : a = (k * b + g) * m + t \/ a = (k * b + g) * m + (t + c)
    <3>1. PICK q \in Nat, s \in 0 .. m - 1 : a = q * m + s /\ a \div m = q /\ a % m = s
      BY DivIs
    <3>2. PICK k \in Nat, v \in 0 .. b - 1 : q = k * b + v /\ q % b = v
      BY DivIs
    <3>3. v = g
      BY <2>2, <3>1, <3>2
    <3>4. s \in {t, t + c}
      BY <2>1, <2>2, <3>1
    <3> QED
      BY <3>1, <3>2, <3>3, <3>4
  <2>3. ASSUME NEW k \in Nat, NEW s \in {t, t + c}, a = (k * b + g) * m + s
        PROVE  (a \div m) % b = g /\ a % c = t
    <3>1. PICK q \in Nat : q = k * b + g
      BY <1>2
    <3>2. a = q * m + s /\ s \in 0 .. m - 1
      BY <2>0, <2>3, <3>1
    <3>3. a \div m = q /\ a % m = s
      BY <3>2, ModIs
    <3>4. q % b = g
      BY <1>2, <3>1, ModIs
    <3> QED
      BY <2>1, <3>3, <3>4
  <2> QED
    BY <2>2, <2>3
<1> DEFINE First == {a \in i .. n - 1 : (a - i) % w = 0}
<1>9. FillReads(t) = First \cup {a + c : a \in First}
  BY <1>1, <1>4, <1>5, <1>7 DEF FillReads
<1>10. ASSUME NEW a \in First
      PROVE  \E k \in Nat : a = (k * b + g) * m + t
  <2>1. a \in Nat /\ a - i \in Nat /\ (a - i) % w = 0
    BY <1>4, <1>6
  <2>2. PICK k \in Nat : a - i = k * w
    <3>1. PICK d \in Nat : d = a - i
      BY <2>1
    <3>2. PICK q \in Nat, s \in 0 .. w - 1 : d = q * w + s /\ d \div w = q /\ d % w = s
      BY DivIs
    <3>3. PICK x \in Nat : x = q * w
      OBVIOUS
    <3>4. s = 0
      BY <2>1, <3>1, <3>2
    <3>5. d = x
      BY <3>2, <3>3, <3>4
    <3> QED
      BY <3>1, <3>3, <3>5, Zenon
  <2>3. k * w = (k * b) * m
    BY <1>6
  <2>4. (k * b) * m + g * m = (k * b + g) * m
    BY <1>2
  <2>5. (k * b) * m \in Int /\ g * m \in Int
    BY <1>2
  <2> QED
    BY <1>2, <1>6, <2>1, <2>2, <2>3, <2>4, <2>5
<1>11. ASSUME NEW k \in Nat, NEW q \in Nat, q = k * b + g, q * m + t < n
       PROVE  q * m + t \in First /\ q * m + (t + c) < n
  <2>1. q * m = k * w + g * m
    <3>1. (k * b + g) * m = k * (m * b) + g * m
      BY <1>2
    <3> QED
      BY <1>6, <1>11, <3>1
  <2>2. PICK x \in Nat : x = q * m
    OBVIOUS
  <2>3. PICK y \in Nat : y = k * w
    BY <1>6
  <2>4. PICK z \in Nat : z = g * m
    BY <1>2
  <2>5. x = y + z /\ (x + t) - i = y /\ x + t \in i .. n - 1
    BY <1>2, <1>4, <1>6, <1>11, <2>1, <2>2, <2>3, <2>4
  <2>6. y % w = 0
    <3>1. y = k * w + 0 /\ 0 \in 0 .. w - 1
      BY <2>3
    <3> QED
      BY <3>1, ModIs
  <2>7. q < r
    <3> SUFFICES ASSUME q >= r PROVE FALSE
      BY <1>4
    <3>1. q * m >= r * m
      BY <1>3, <1>4, SMTT(30)
    <3> QED
      BY <1>2, <1>4, <1>11, <2>2, <3>1
  <2>8. q * m + m <= r * m
    BY <1>3, <1>4, <2>7, TimesMonotone
  <2>9. x + (t + c) < n
    <3>1. x + m <= n
      BY <1>4, <2>2, <2>8
    <3> QED
      BY <1>2, <1>3, <1>4, <2>2, <3>1
  <2> QED
    BY <2>2, <2>5, <2>6, <2>9
<1> HIDE DEF First
<1>12. ASSUME NEW a \in FillReads(t)
       PROVE  a \in 0 .. n - 1 /\ Block(a) = bid /\ a % blockSize = t
  <2>1. PICK f \in First : a = f \/ a = f + c
    BY <1>9, <1>12
  <2>2. PICK k \in Nat : f = (k * b + g) * m + t
    BY <1>10
  <2>3. PICK q \in Nat : q = k * b + g
    BY <1>2
  <2>4. f \in Nat /\ f < n
    BY <1>4, <1>6 DEF First
  <2>5. q * m + (t + c) < n /\ f = q * m + t
    BY <1>11, <2>2, <2>3, <2>4
  <2>6. PICK x \in Nat : x = q * m
    BY <1>3
  <2>7. (a = x + t \/ a = x + (t + c)) /\ a \in Nat /\ a < n
    BY <1>2, <2>1, <2>4, <2>5, <2>6
  <2>8. a = (k * b + g) * m + t \/ a = (k * b + g) * m + (t + c)
    BY <2>3, <2>6, <2>7
  <2>9. (a \div m) % b = g /\ a % c = t
    BY <1>8, <2>7, <2>8, Zenon
  <2> QED
    BY <1>1, <1>3, <1>4, <2>7, <2>9 DEF Block
<1>13. ASSUME NEW a \in 0 .. n - 1, Block(a) = bid, a % blockSize = t
       PROVE  a \in FillReads(t)
  <2>1. a \in Nat /\ a < n /\ (a \div m) % b = g /\ a % c = t
    BY <1>1, <1>3, <1>4, <1>13 DEF Block
  <2>2. PICK k \in Nat : a = (k * b + g) * m + t \/ a = (k * b + g) * m + (t + c)
    BY <1>8, <2>1, Zenon
  <2>3. PICK q \in Nat : q = k * b + g
    BY <1>2
  <2>4. PICK x \in Nat : x = q * m
    BY <1>3
  <2>5. (a = x + t \/ a = x + (t + c)) /\ x + t < n
    BY <1>2, <1>4, <2>1, <2>2, <2>3, <2>4
  <2>6. x + t \in First
    BY <1>11, <2>3, <2>4, <2>5
  <2>7. (x + t) + c = x + (t + c)
    BY <1>2
  <2> QED
    BY <1>9, <2>5, <2>6, <2>7
<1> QED
  BY <1>4, <1>12, <1>13

\* In the second one it takes two of the sums that the first one left.
LEMMA SecondReads ==
  ASSUME Sized, Typed, pass = 2, NEW t \in Items
  PROVE  /\ FillReads(t) = {t, t + blockSize}
         /\ t + blockSize < passes[1].blocks /\ passes[1].blocks <= mBufferSize
<1>1. PICK c \in Nat \ {0} :
        c = blockSize /\ blocks = 1 /\ bid = 0 /\ kernel = 5 /\ passes[1].blocks = 2 * c
  BY GroupShape
<1>2. t \in Nat /\ t < c
  BY <1>1 DEF Items
<1>3. passes[1].blocks <= mBufferSize /\ mBufferSize \in Nat
  <2>1. PICK r \in Nat, p \in Nat \ {0} :
          r >= passes[1].blocks /\ p = passes[1].threads /\ mBufferSize = (2 * p) * r
    BY GroupShape DEF Planned
  <2>2. (2 * p) * r >= r /\ (2 * p) * r \in Nat
    BY SMTT(30)
  <2> QED
    BY <1>1, <2>1, <2>2
<1>4. t + c < passes[1].blocks
  BY <1>1, <1>2
<1>5. bid * blockSize * 2 + t = t
  BY <1>1, <1>2
<1>6. t \in 0 .. mBufferSize - 1 /\ t + c < mBufferSize
  BY <1>1, <1>2, <1>3, <1>4
<1>7. FillReads(t) = {t} \cup {a + c : a \in {t}}
  BY <1>1, <1>5, <1>6 DEF FillReads
<1> QED
  BY <1>1, <1>3, <1>4, <1>7
-----------------------------------------------------------------------------
(* The memory that the kernels touch *)

\* A lane that takes part in a level finds its partner in the local memory.
LEMMA PartnerIsLocal ==
  ASSUME Sized, Typed, NEW i \in 3 .. Len(program), program[i].op = "load",
         NEW u \in Items, Active(u, program[i].h)
  PROVE  u + program[i].h \in Local
<1>1. PICK h \in Nat \ {0}, c \in Nat \ {0}, m \in Nat \ {0} :
        /\ h = program[i].h /\ c = blockSize /\ m = passes[1].threads
        /\ c <= m /\ 2 * LastWarp <= m
  <2>1. LevelAt(program, i, program[i].h)
    BY GroupShape, OpIs
  <2>2. program[i].h \in Nat \ {0}
    BY <2>1, GroupShape, LevelFits
  <2> QED
    BY <2>2, GroupShape
<1>2. c \in Powers /\ h <= c \div 2 /\ c \div 2 \in Nat /\ 2 * (c \div 2) <= c
  <2>1. blockSize \in Powers /\ KernelShape(program, blockSize)
    BY GroupShape
  <2>2. program[i].h <= blockSize \div 2
    BY <2>1 DEF KernelShape, Below
  <2>3. c \div 2 \in Nat /\ 2 * (c \div 2) <= c
    OBVIOUS
  <2> QED
    BY <1>1, <2>1, <2>2, <2>3
<1>3. u \in Nat /\ LastWarp \in Nat
  BY BundleIs, MaxThreadsIs
<1>4. (h > LastWarp /\ u < h) \/ (h <= LastWarp /\ u < LastWarp)
  BY <1>1, <1>3 DEF Active
<1>5. u + h \in 0 .. m - 1
  <2>1. PICK e \in Nat : e = c \div 2 /\ h <= e /\ 2 * e <= c
    BY <1>2
  <2>2. c <= m /\ 2 * LastWarp <= m
    BY <1>1
  <2>3. h > LastWarp /\ u < h => u + h < m
    BY <1>3, <2>1, <2>2
  <2>4. h <= LastWarp /\ u < LastWarp => u + h < m
    BY <1>3, <2>2
  <2> QED
    BY <1>3, <1>4, <2>3, <2>4
<1> QED
  BY <1>1, <1>5 DEF Local

\* What the plan promises keeps the kernels inside their memory.
LEMMA PlanBounds ==
  ASSUME PlanInv
  PROVE  InBounds
<1> USE DEF PlanInv
<1> SUFFICES ASSUME NEW b \in DOMAIN at, at[b] <= Len(program), NEW i, i = at[b]
             PROVE  /\ program[i].op = "fill" => \A tid \in Lanes(b, blockSize, Width) :
                                                    FillReads(tid) \subseteq DOMAIN g_idata
                    /\ program[i].op = "load" => \A tid \in Busy(b, program[i].h) :
                                                    tid + program[i].h \in Local
  BY DEF InBounds
<1>1. b \in Group /\ i \in 1 .. Len(program) /\ KernelShape(program, blockSize)
  BY GroupIs, GroupShape
<1>2. \A tid \in Lanes(b, blockSize, Width) : tid \in Items
  BY BundleIs
<1>3. ASSUME NEW tid \in Items PROVE FillReads(tid) \subseteq DOMAIN g_idata
  <2>1. CASE pass = 1
    <3>1. DOMAIN g_idata = 0 .. mBufferSize - 1
      BY <2>1 DEF g_idata, Sized
    <3> QED
      BY <2>1, <3>1, FirstReads
  <2>2. CASE pass = 2
    <3>1. DOMAIN g_idata = 0 .. mBufferSize - 1
      BY <2>2 DEF g_idata, Typed
    <3>2. /\ FillReads(tid) = {tid, tid + blockSize} /\ tid + blockSize < passes[1].blocks
          /\ passes[1].blocks <= mBufferSize /\ mBufferSize \in Nat /\ tid \in Nat
          /\ blockSize \in Nat /\ passes[1].blocks \in Nat
      <4>1. mBufferSize \in Nat
        BY GroupShape, WordPowers DEF Planned
      <4> QED
        BY <2>2, <4>1, SecondReads, BundleIs, GroupShape
    <3>3. tid \in 0 .. mBufferSize - 1 /\ tid + blockSize \in 0 .. mBufferSize - 1
      BY <3>2
    <3> QED
      BY <3>1, <3>2, <3>3
  <2> QED
    BY <2>1, <2>2, GroupShape
<1>4. ASSUME program[i].op = "load", NEW tid \in Busy(b, program[i].h)
      PROVE  tid + program[i].h \in Local
  <2>1. i \in 3 .. Len(program)
    BY <1>1, <1>4, FillIsFirst
  <2>2. tid \in Items /\ Active(tid, program[i].h)
    BY <1>2 DEF Busy
  <2> QED
    BY <1>4, <2>1, <2>2, PartnerIsLocal
<1> QED
  BY <1>2, <1>3, <1>4
-----------------------------------------------------------------------------
(* Every step keeps the plan and the types *)

\* A step of a bundle moves that one on and leaves the plan alone.
Moves(b) ==
  /\ at[b] \in 1 .. Len(program) /\ Advance(b)
  /\ UNCHANGED <<plan, pass, bid, result>>

\* What the plan of the sum defines is kept with it,
LEMMA PlanKept ==
  ASSUME Sized, UNCHANGED plan
  PROVE  /\ Sized' /\ Local' = Local /\ mBufferSize' = mBufferSize /\ mInputSize' = mInputSize
         /\ passes' = passes /\ mTempBuffer1' = mTempBuffer1
         /\ \A a : BlockSum(a)' = BlockSum(a)
         /\ \A e : Block(e)' = Block(e)
<1>1. passes' = passes /\ mInputSize' = mInputSize
  BY DEF plan
<1>2. \A e : Block(e)' = Block(e)
  BY <1>1 DEF Block
<1>3. \A a : BlockSum(a)' = BlockSum(a)
  BY <1>1, <1>2 DEF BlockSum
<1>4. Sized' /\ mBufferSize' = mBufferSize /\ mTempBuffer1' = mTempBuffer1
  BY DEF Sized, plan
<1> QED
  BY <1>1, <1>2, <1>3, <1>4 DEF Local

\* and so is what the pass and the group define.
LEMMA PassKept ==
  ASSUME Sized, UNCHANGED <<plan, pass, bid>>
  PROVE  /\ blockSize' = blockSize /\ blocks' = blocks /\ kernel' = kernel
         /\ program' = program /\ Len(program)' = Len(program)
         /\ Items' = Items /\ Group' = Group
         /\ \A t, m : Part(t, m)' = Part(t, m)
<1>1. passes' = passes /\ pass' = pass /\ bid' = bid /\ mInputSize' = mInputSize
  BY DEF plan
<1>2. /\ blockSize' = blockSize /\ blocks' = blocks /\ kernel' = kernel
      /\ program' = program /\ Len(program)' = Len(program)
  BY <1>1 DEF blockSize, blocks, kernel, program
<1>3. Items' = Items /\ Group' = Group
  BY <1>2 DEF Items, Group
<1>4. \A e : GroupOf(e)' = GroupOf(e) /\ Place(e)' = Place(e)
  BY <1>1, PlanKept DEF GroupOf, Place
<1>5. \A t, m : Part(t, m)' = Part(t, m)
  BY <1>1, <1>4 DEF Part
<1> QED
  BY <1>2, <1>3, <1>5

\* A bundle that moves keeps the types.
LEMMA TypedMoves ==
  ASSUME Sized, Typed, NEW b \in Group, Moves(b),
         DOMAIN sdata' = Local, DOMAIN reg' = Items, DOMAIN mTempBuffer2' = 0 .. mBufferSize - 1
  PROVE  /\ Typed' /\ at'[b] = at[b] + 1
         /\ \A c \in Group : c # b => at'[c] = at[c]
<1>1. at' = [at EXCEPT ![b] = at[b] + 1] /\ at \in [Group -> Nat \ {0}] /\ at[b] + 1 \in Nat \ {0}
  BY DEF Moves, Advance, Typed
<1>2. /\ at' \in [Group -> Nat \ {0}] /\ at'[b] = at[b] + 1
      /\ \A c \in Group : c # b => at'[c] = at[c]
  BY <1>1
<1>3. /\ Local' = Local /\ Items' = Items /\ Group' = Group /\ blocks' = blocks
      /\ mBufferSize' = mBufferSize /\ passes' = passes /\ pass' = pass /\ bid' = bid
  BY PlanKept, PassKept DEF Moves
<1>4. Typed'
  BY <1>2, <1>3 DEF Typed
<1> QED
  BY <1>2, <1>4

\* The steps of the kernels move their bundle.
LEMMA KernelMoves ==
  ASSUME Sized, Typed, NEW b \in Group,
         Fill(b) \/ Load(b) \/ Store(b) \/ Write(b) \/ WaitBarrier(b)
  PROVE  /\ Moves(b) /\ Typed' /\ at'[b] = at[b] + 1
         /\ \A c \in Group : c # b => at'[c] = at[c]
<1>1. at[b] \in 1 .. Len(program)
  BY AtIs DEF Fill, Load, Store, Write, WaitBarrier, PassBarrier
<1>2. Moves(b)
  BY <1>1 DEF Fill, Load, Store, Write, WaitBarrier, PassBarrier, Moves
<1>3. DOMAIN sdata' = Local
  BY DEF Fill, Load, Store, Write, WaitBarrier, PassBarrier, Typed
<1>4. DOMAIN reg' = Items
  BY DEF Fill, Load, Store, Write, WaitBarrier, PassBarrier, Typed
<1>5. DOMAIN mTempBuffer2' = 0 .. mBufferSize - 1
  BY DEF Fill, Load, Store, Write, WaitBarrier, Typed
<1> QED
  BY <1>2, <1>3, <1>4, <1>5, TypedMoves

\* A group starts with its first instruction.
LEMMA GroupStarts ==
  ASSUME Sized, UNCHANGED plan, NextGroupStarts(pass')
  PROVE  at' = [b \in Group' |-> 1] /\ DOMAIN sdata' = Local' /\ DOMAIN reg' = Items'
<1>1. passes' = passes /\ Local' = Local
  BY PlanKept
<1>2. blockSize' = passes[pass'].threads
  BY <1>1 DEF blockSize
<1> QED
  BY <1>1, <1>2 DEF NextGroupStarts, GroupInit, Group, Items

\* The host's steps to another group,
LEMMA HostKeepsPlan ==
  ASSUME PlanInv, NextGroup \/ NextPass
  PROVE  /\ PlanInv' /\ at' = [b \in Group' |-> 1]
         /\ UNCHANGED <<plan, mTempBuffer2, result>>
<1>0. Sized /\ Typed
  BY DEF PlanInv
<1>1. UNCHANGED plan /\ UNCHANGED <<mTempBuffer2, result>> /\ NextGroupStarts(pass')
  BY DEF NextGroup, NextPass
<1>2. /\ Sized' /\ passes' = passes /\ mBufferSize' = mBufferSize
  BY <1>0, <1>1, PlanKept
<1>3. at' = [b \in Group' |-> 1] /\ DOMAIN sdata' = Local' /\ DOMAIN reg' = Items'
  BY <1>0, <1>1, GroupStarts
<1>4. at' \in [Group' -> Nat \ {0}]
  BY <1>3
<1>5. pass' \in 1 .. Len(passes') /\ bid' \in 0 .. blocks' - 1
  <2>1. CASE NextGroup
    <3>1. blocks' = blocks /\ pass' = pass
      BY <1>2, <2>1 DEF NextGroup, blocks
    <3>2. bid \in Nat /\ blocks \in Nat /\ bid' = bid + 1 /\ bid + 1 < blocks
      BY <1>0, <2>1, GroupShape DEF NextGroup
    <3> QED
      BY <1>0, <1>2, <3>1, <3>2 DEF Typed
  <2>2. CASE NextPass
    <3>1. pass \in {1, 2} /\ pass \in 1 .. Len(passes) /\ Planned
      BY <1>0, GroupShape
    <3>2. pass' = pass + 1 /\ pass < Len(passes) /\ bid' = 0 /\ Len(passes) \in {1, 2}
      BY <2>2, <3>1 DEF NextPass, Planned
    <3>3. pass' = 2 /\ Len(passes) = 2
      <4>1. PICK n \in {1, 2} : n = Len(passes)
        BY <3>2
      <4>2. pass < n /\ pass \in {1, 2}
        BY <3>1, <3>2, <4>1
      <4>3. pass = 1 /\ n = 2
        BY <4>2
      <4> QED
        BY <3>2, <4>1, <4>3
    <3>4. blocks' = passes[2].blocks /\ passes[2].blocks = 1
      BY <1>2, <3>1, <3>3 DEF blocks, Planned
    <3> QED
      BY <1>2, <3>2, <3>3, <3>4
  <2> QED
    BY <2>1, <2>2
<1>6. DOMAIN mTempBuffer2' = 0 .. mBufferSize' - 1
  BY <1>0, <1>1, <1>2 DEF Typed
<1>7. Typed'
  BY <1>3, <1>4, <1>5, <1>6 DEF Typed
<1> QED
  BY <1>1, <1>2, <1>3, <1>7 DEF PlanInv

\* and steps that change nothing but the result.
LEMMA SameKeepsPlan ==
  ASSUME PlanInv, UNCHANGED <<plan, pass, bid, mTempBuffer2, group>>
  PROVE  PlanInv' /\ at' = at /\ sdata' = sdata /\ reg' = reg
<1>0. Sized /\ Typed
  BY DEF PlanInv
<1>1. at' = at /\ sdata' = sdata /\ reg' = reg
  BY DEF group
<1>2. /\ Sized' /\ Local' = Local /\ Items' = Items /\ Group' = Group /\ blocks' = blocks
      /\ mBufferSize' = mBufferSize /\ passes' = passes /\ pass' = pass /\ bid' = bid
  BY <1>0, PlanKept, PassKept
<1>3. Typed'
  BY <1>0, <1>1, <1>2 DEF Typed
<1> QED
  BY <1>1, <1>2, <1>3 DEF PlanInv

\* The sum starts with its plan.
LEMMA InitPlan ==
  ASSUME Init
  PROVE  PlanInv /\ at = [b \in Group |-> 1]
<1>1. Sized
  BY DEF Init, Sized
<1>2. Planned /\ passes[1].blocks \in Nat \ {0} /\ pass = 1 /\ bid = 0
  BY <1>1, PassesAre DEF Init, Planned, PassShape
<1>3. blockSize = passes[1].threads /\ blocks = passes[1].blocks
  BY <1>2 DEF blockSize, blocks
<1>4. at = [b \in Group |-> 1] /\ DOMAIN sdata = Local /\ DOMAIN reg = Items
  BY <1>3 DEF Init, GroupInit, Group, Items
<1>5. pass \in 1 .. Len(passes) /\ bid \in 0 .. blocks - 1
  BY <1>2, <1>3 DEF Planned
<1>6. at \in [Group -> Nat \ {0}] /\ DOMAIN mTempBuffer2 = 0 .. mBufferSize - 1
  BY <1>4 DEF Init
<1>7. Typed
  BY <1>4, <1>5, <1>6 DEF Typed
<1> QED
  BY <1>1, <1>4, <1>7 DEF PlanInv

\* The sum has at most two passes over groups of a power of two, whose kernels
\* are trees of additions, in every reachable state
\* (CRoutine_Sum_NVidia.cpp 73-139 and 222-243).
THEOREM PlanInvariant == Spec => []PlanInv
<1>1. PlanInv /\ [Next]_vars => PlanInv'
  <2> SUFFICES ASSUME PlanInv, [Next]_vars PROVE PlanInv'
    OBVIOUS
  <2>1. CASE UNCHANGED vars
    <3>1. UNCHANGED <<plan, pass, bid, mTempBuffer2, group>>
      BY <2>1 DEF vars
    <3> QED
      BY <3>1, SameKeepsPlan
  <2>2. CASE NextGroup \/ NextPass
    BY <2>2, HostKeepsPlan
  <2>3. CASE Return
    <3>1. UNCHANGED <<plan, pass, bid, mTempBuffer2, group>>
      BY <2>3 DEF Return
    <3> QED
      BY <3>1, SameKeepsPlan
  <2>4. ASSUME NEW b \in DOMAIN at, Fill(b) \/ Load(b) \/ Store(b) \/ Write(b) \/ WaitBarrier(b)
        PROVE  PlanInv'
    <3>1. Sized /\ Typed /\ b \in Group
      BY GroupIs DEF PlanInv
    <3>2. Moves(b) /\ Typed'
      BY <2>4, <3>1, KernelMoves
    <3>3. Sized'
      BY <3>1, <3>2, PlanKept DEF Moves
    <3> QED
      BY <3>2, <3>3 DEF PlanInv
  <2> QED
    BY <2>1, <2>2, <2>3, <2>4 DEF Next
<1>2. Init => PlanInv
  BY InitPlan
<1> QED
  BY <1>1, <1>2, PTL DEF Spec

\* Whatever the size of the image and the width of the lockstep, the kernels stay
\* inside the local memory and the buffers they are given, the lanes that take
\* part in a level for nothing included (CRoutine_Sum_NVidia.cpp 238-242,
\* reduce_sum_float_nvidia.cl).
THEOREM StaysInBounds == Spec => []InBounds
<1>1. PlanInv => InBounds
  BY PlanBounds
<1> QED
  BY <1>1, PlanInvariant, PTL
-----------------------------------------------------------------------------
(* The input elements below an item *)

\* What the invariant says of a sum on a device with lockstep.
Running == Lockstep /\ PlanInv /\ GroupInv

\* Every element has one group in the first pass.
LEMMA PlaceIs ==
  ASSUME Sized, Typed, NEW e \in 0 .. mInputSize - 1
  PROVE  /\ e \in Nat /\ Place(e) \in Nat /\ GroupOf(e) \in Nat
         /\ Block(e) \in 0 .. passes[1].blocks - 1
<1>1. PICK c \in Nat \ {0}, b \in Nat \ {0} : c = 2 * passes[1].threads /\ b = passes[1].blocks
  BY GroupShape
<1>2. e \in Nat
  BY GroupShape DEF Planned
<1>3. PICK q \in Nat : q = e \div c
  BY <1>2, DivIs
<1>4. q % b \in 0 .. b - 1
  BY DivIs
<1>5. Block(e) \in 0 .. b - 1 /\ Block(e) \in Nat
  BY <1>1, <1>3, <1>4 DEF Block
<1> QED
  BY <1>1, <1>2, <1>5 DEF Place, GroupOf

\* The parts of two items are that of the first of them one level on.
LEMMA PartsAdd ==
  ASSUME Sized, Typed, NEW h \in Nat \ {0}, NEW t \in 0 .. h - 1
  PROVE  Plus(Part(t, 2 * h), Part(t + h, 2 * h)) = Part(t, h)
<1>1. ASSUME NEW e \in 0 .. mInputSize - 1
      PROVE  /\ e \in Part(t, h) <=> e \in Part(t, 2 * h) \/ e \in Part(t + h, 2 * h)
             /\ ~ (e \in Part(t, 2 * h) /\ e \in Part(t + h, 2 * h))
  <2>1. PICK x \in Nat : x = Place(e)
    BY PlaceIs
  <2>2. x % h = t <=> x % (2 * h) \in {t, t + h}
    BY ModSplits
  <2>3. \A m, y : e \in Part(y, m) <=> GroupOf(e) = bid /\ x % m = y
    BY <2>1 DEF Part
  <2>4. t # t + h
    OBVIOUS
  <2> QED
    BY <2>2, <2>3, <2>4
<1>2. \A m, y : Part(y, m) \subseteq 0 .. mInputSize - 1
  BY DEF Part
<1>3. Part(t, 2 * h) \cap Part(t + h, 2 * h) = {}
  BY <1>1, <1>2
<1>4. Plus(Part(t, 2 * h), Part(t + h, 2 * h)) = Part(t, 2 * h) \cup Part(t + h, 2 * h)
  BY <1>3 DEF Plus
<1>5. Part(t, 2 * h) \cup Part(t + h, 2 * h) = Part(t, h)
  BY <1>1, <1>2
<1> QED
  BY <1>4, <1>5

\* A first item that has added everything up has what belongs to its group, in
\* the second pass the whole input.
LEMMA GroupSum ==
  ASSUME Sized, Typed
  PROVE  /\ pass = 1 => Part(0, 1) = BlockSum(bid)
         /\ pass = 2 => Part(0, 1) = 0 .. mInputSize - 1
<1>1. \A x \in Nat : x % 1 = 0
  OBVIOUS
<1>2. ASSUME NEW e \in 0 .. mInputSize - 1
      PROVE  e \in Part(0, 1) <=> GroupOf(e) = bid
  <2>1. Place(e) % 1 = 0
    BY <1>1, PlaceIs
  <2> QED
    BY <2>1 DEF Part
<1>3. Part(0, 1) \subseteq 0 .. mInputSize - 1 /\ \A a : BlockSum(a) \subseteq 0 .. mInputSize - 1
  BY DEF Part, BlockSum
<1>4. CASE pass = 1
  <2>1. \A e \in 0 .. mInputSize - 1 : e \in BlockSum(bid) <=> GroupOf(e) = bid
    BY <1>4 DEF BlockSum, GroupOf
  <2> QED
    BY <1>2, <1>3, <1>4, <2>1
<1>5. CASE pass = 2
  <2>1. \A e \in 0 .. mInputSize - 1 : GroupOf(e) = bid
    BY <1>5, GroupShape DEF GroupOf
  <2>2. Part(0, 1) = 0 .. mInputSize - 1
    BY <1>2, <1>3, <2>1
  <2> QED
    BY <1>5, <2>2
<1> QED
  BY <1>4, <1>5, GroupShape

\* A single group has everything.
LEMMA OneBlockIsAll ==
  ASSUME Sized, Typed, passes[1].blocks = 1
  PROVE  BlockSum(0) = 0 .. mInputSize - 1
<1>1. \A e \in 0 .. mInputSize - 1 : Block(e) \in 0 .. 1 - 1
  BY PlaceIs
<1>2. \A e \in 0 .. mInputSize - 1 : Block(e) = 0
  BY <1>1
<1> QED
  BY <1>2 DEF BlockSum

\* In the first pass an item finds its part in the input,
LEMMA FirstFill ==
  ASSUME Sized, Typed, pass = 1, NEW t \in Items
  PROVE  Sum(g_idata, FillReads(t)) = Part(t, blockSize)
<1>1. /\ mBufferSize \in Nat /\ mInputSize \in Nat /\ mInputSize <= mBufferSize
      /\ g_idata = mTempBuffer1
  BY GroupShape, WordPowers DEF Planned, g_idata
<1>2. FillReads(t) = {a \in 0 .. mBufferSize - 1 : Block(a) = bid /\ a % blockSize = t}
  BY FirstReads
<1>3. \A a \in FillReads(t) : Fetch(g_idata, a) = IF a < mInputSize THEN {a} ELSE {}
  BY <1>1, <1>2 DEF Fetch, Sized
<1>4. \A a, c \in FillReads(t) : a # c => Fetch(g_idata, a) \cap Fetch(g_idata, c) = {}
  BY <1>3
<1>5. Sum(g_idata, FillReads(t)) = UNION {Fetch(g_idata, a) : a \in FillReads(t)}
  BY <1>4 DEF Sum
<1>6. \A e : e \in Sum(g_idata, FillReads(t)) <=> e \in FillReads(t) /\ e < mInputSize
  BY <1>3, <1>5
<1>7. \A e : e \in FillReads(t) /\ e < mInputSize
               <=> e \in 0 .. mInputSize - 1 /\ Block(e) = bid /\ e % blockSize = t
  BY <1>1, <1>2
<1>8. \A e : e \in Part(t, blockSize)
               <=> e \in 0 .. mInputSize - 1 /\ Block(e) = bid /\ e % blockSize = t
  BY DEF Part, GroupOf, Place
<1> QED
  BY <1>6, <1>7, <1>8

\* in the second one in the sums that the first pass left.
LEMMA SecondFill ==
  ASSUME Sized, Typed, pass = 2, NEW t \in Items,
         \A a \in 0 .. passes[1].blocks - 1 : mTempBuffer2[a] = BlockSum(a)
  PROVE  Sum(g_idata, FillReads(t)) = Part(t, blockSize)
<1>1. PICK c \in Nat \ {0} : c = blockSize /\ passes[1].blocks = 2 * c /\ bid = 0
  BY GroupShape
<1>2. t \in Nat /\ t < c /\ t \in 0 .. c - 1
  BY <1>1 DEF Items
<1>3. FillReads(t) = {t, t + c} /\ t + c < 2 * c /\ 2 * c <= mBufferSize /\ mBufferSize \in Nat
  BY <1>1, SecondReads, GroupShape, WordPowers DEF Planned
<1>4. g_idata = mTempBuffer2 /\ DOMAIN mTempBuffer2 = 0 .. mBufferSize - 1
  BY DEF g_idata, Typed
<1>5. ASSUME NEW a \in {t, t + c} PROVE Fetch(g_idata, a) = BlockSum(a)
  <2>1. a \in 0 .. 2 * c - 1 /\ a \in 0 .. mBufferSize - 1
    BY <1>2, <1>3
  <2> QED
    BY <1>1, <1>4, <2>1 DEF Fetch
<1>6. BlockSum(t) \cap BlockSum(t + c) = {}
  BY <1>2 DEF BlockSum
<1>7. \A a, d \in FillReads(t) : a # d => Fetch(g_idata, a) \cap Fetch(g_idata, d) = {}
  BY <1>3, <1>5, <1>6
<1>8. Sum(g_idata, FillReads(t)) = UNION {Fetch(g_idata, a) : a \in FillReads(t)}
  BY <1>7 DEF Sum
<1>9. \A e : e \in Sum(g_idata, FillReads(t)) <=> e \in BlockSum(t) \/ e \in BlockSum(t + c)
  BY <1>3, <1>5, <1>8
<1>10. ASSUME NEW e \in 0 .. mInputSize - 1
       PROVE  e \in Part(t, blockSize) <=> e \in BlockSum(t) \/ e \in BlockSum(t + c)
  <2>1. PICK x \in Nat : x = Block(e) /\ x < 2 * c
    BY <1>1, PlaceIs
  <2>2. x % c = t <=> x % (2 * c) \in {t, t + c}
    BY <1>2, ModSplits
  <2>3. x % (2 * c) = x
    <3>1. PICK m \in Nat \ {0} : m = 2 * c
      OBVIOUS
    <3>2. x = 0 * m + x /\ x \in 0 .. m - 1
      BY <2>1, <3>1
    <3>3. x % m = x
      BY <3>2, ModIs
    <3> QED
      BY <3>1, <3>3
  <2>4. e \in Part(t, blockSize) <=> x % c = t
    BY <1>1, <2>1 DEF Part, GroupOf, Place
  <2>5. e \in BlockSum(t) \/ e \in BlockSum(t + c) <=> x \in {t, t + c}
    BY <2>1 DEF BlockSum
  <2> QED
    BY <2>2, <2>3, <2>4, <2>5
<1>11. /\ Part(t, blockSize) \subseteq 0 .. mInputSize - 1
       /\ \A a : BlockSum(a) \subseteq 0 .. mInputSize - 1
  BY DEF Part, BlockSum
<1> QED
  BY <1>9, <1>10, <1>11
-----------------------------------------------------------------------------
(* What the other bundles do meanwhile *)

\* Bundles around one that is between two barriers.
LEMMA NearBy ==
  ASSUME KernelShape(program, blockSize), Sized, Typed, InStep, NEW b \in Group, NEW c \in Group,
         NEW i \in 3 .. Len(program), NEW h, LevelAt(program, i, h), h > LastWarp,
         program[i - 1] = Barrier, at[b] \in {i, i + 1}
  PROVE  at[c] \in {i - 1, i, i + 1, i + 2}
<1>1. i - 1 \in 1 .. Len(program) /\ i + 2 \in 1 .. Len(program) /\ program[i + 2] = Barrier
  BY Lengths, LevelFits
<1>2. at[b] \in Nat /\ at[c] \in Nat
  BY GroupIs
<1>3. at[c] >= i - 1
  BY <1>1, <1>2 DEF InStep
<1>4. at[c] > i + 2 => at[b] >= i + 2
  BY <1>1 DEF InStep
<1> QED
  BY <1>2, <1>3, <1>4

\* An item that waits at a barrier has what the next level, or the write, needs.
LEMMA Waits ==
  ASSUME KernelShape(program, blockSize), blockSize \in Powers,
         NEW u \in Items, NEW m \in 1 .. Len(program), SumOf(u),
         at[Bundle(u)] = m, program[m].op = "barrier"
  PROVE  \E s \in Powers : Holds(u, s) /\ GoesOn(program, m + 1, s \div 2)
<1>1. CASE m = 2
  <2>1. Holds(u, blockSize) /\ GoesOn(program, m + 1, blockSize \div 2)
    BY <1>1 DEF SumOf, KernelShape
  <2> QED
    BY <2>1
<1>2. CASE m # 2
  <2>1. m \in 3 .. Len(program)
    BY <1>2, Lengths, FillIsFirst
  <2>2. /\ m - 2 \in 3 .. Len(program) /\ LevelAt(program, m - 2, program[m - 2].h)
        /\ program[m - 2].h > LastWarp
    BY <2>1, OpIs
  <2>3. PICK i, h : i \in 3 .. Len(program) /\ i = m - 2 /\ h = program[i].h /\ m = i + 2
    BY <2>1, <2>2
  <2>4. LevelAt(program, i, h) /\ h > LastWarp /\ program[i].op = "load"
    BY <2>2, <2>3, LevelFits
  <2>5. InLevel(u, i, h)
    BY <2>3, <2>4 DEF SumOf
  <2>6. Holds(u, h)
    BY <2>3, <2>4, <2>5 DEF InLevel
  <2>7. h \in Powers /\ GoesOn(program, i + 3, h \div 2)
    BY <2>4 DEF LevelAt
  <2>8. i + 3 = m + 1
    BY <2>3
  <2> QED
    BY <2>6, <2>7, <2>8
<1> QED
  BY <1>1, <1>2

\* The next level has half of the stride.
LEMMA NextLevel ==
  ASSUME NEW p, NEW i, NEW s \in Powers, NEW h, GoesOn(p, i, s \div 2), p[i].op = "load",
         p[i].h = h
  PROVE  s = 2 * h
<1>1. s \div 2 # 0 /\ h = s \div 2
  BY DEF GoesOn, Instr
<1>2. s # 1
  BY <1>1
<1> QED
  BY <1>1, <1>2, HalfIs

\* What waits at the barrier before a level has what this one adds up.
LEMMA WaitsBefore ==
  ASSUME KernelShape(program, blockSize), blockSize \in Powers,
         NEW u \in Items, SumOf(u), NEW i \in 3 .. Len(program), NEW h, LevelAt(program, i, h),
         program[i - 1] = Barrier, at[Bundle(u)] = i - 1
  PROVE  Holds(u, 2 * h)
<1>1. program[i].op = "load" /\ program[i].h = h
  BY LevelFits
<1>2. i - 1 \in 1 .. Len(program) /\ program[i - 1].op = "barrier" /\ (i - 1) + 1 = i
  BY Lengths
<1>3. PICK s \in Powers : Holds(u, s) /\ GoesOn(program, (i - 1) + 1, s \div 2)
  BY <1>2, Waits
<1>4. s = 2 * h
  BY <1>1, <1>2, <1>3, NextLevel
<1> QED
  BY <1>3, <1>4

\* The other operand of an addition is there, and nobody has changed it: the
\* barrier kept its item back, or both are in the one bundle of the last warp.
LEMMA Operand ==
  ASSUME Running, NEW t \in Items, NEW u \in Items,
         NEW i \in 3 .. Len(program), NEW h, LevelAt(program, i, h), Behind(program, 3, i),
         at[Bundle(t)] = i, t < h, u >= h, u < 2 * h
  PROVE  sdata[u] = Part(u, 2 * h)
<1>0. /\ Sized /\ Typed /\ InStep /\ SumOf(u) /\ Lockstep
      /\ KernelShape(program, blockSize) /\ blockSize \in Powers
  BY GroupShape DEF Running, PlanInv, GroupInv
<1>1. program[i].op = "load" /\ program[i].h = h /\ h \in Nat \ {0}
  BY <1>0, LevelFits
<1>2. InLevel(u, i, h)
  BY <1>0, <1>1 DEF SumOf
<1>3. /\ u \in Nat /\ t \in Nat /\ LastWarp \in Nat \ {0}
      /\ Bundle(u) \in Group /\ Bundle(t) \in Group
      /\ at[Bundle(u)] \in Nat
  BY <1>0, BundleIs, GroupIs, MaxThreadsIs
<1>4. program[i - 1] = Barrier \/ 2 * h <= LastWarp
  <2>1. i = 3 => program[i - 1] = Barrier
    BY <1>0, Lengths
  <2> QED
    BY <1>1, <2>1 DEF Behind
<1>5. program[i - 1] = Barrier /\ at[Bundle(u)] = i - 1 => Holds(u, 2 * h)
  BY <1>0, WaitsBefore
<1>6. CASE h > LastWarp
  <2>1. program[i - 1] = Barrier
    BY <1>1, <1>3, <1>4, <1>6
  <2>2. at[Bundle(u)] \in {i - 1, i, i + 1, i + 2}
    BY <1>0, <1>3, <1>6, <2>1, NearBy
  <2>3. at[Bundle(u)] \in {i, i + 1, i + 2} => Holds(u, 2 * h)
    BY <1>2, <1>6 DEF InLevel
  <2>4. Holds(u, 2 * h)
    BY <1>5, <2>1, <2>2, <2>3
  <2> QED
    BY <2>4 DEF Holds
<1>7. CASE ~ (h > LastWarp) /\ u < LastWarp
  <2>1. t < LastWarp
    BY <1>1, <1>3, <1>7
  <2>2. Bundle(t) = 0 /\ Bundle(u) = 0
    BY <1>0, <1>7, <2>1, BundleIs
  <2>3. Holds(u, 2 * h)
    BY <1>2, <2>2 DEF InLevel
  <2> QED
    BY <2>3 DEF Holds
<1>8. CASE ~ (h > LastWarp) /\ ~ (u < LastWarp)
  <2>1. h <= LastWarp /\ u >= LastWarp /\ ~ (2 * h <= LastWarp)
    BY <1>1, <1>3, <1>8
  <2>2. program[i - 1] = Barrier /\ i - 1 \in 1 .. Len(program)
    BY <1>0, <1>4, <2>1, Lengths
  <2>3. at[Bundle(u)] >= i - 1
    BY <1>0, <1>3, <2>2 DEF InStep
  <2>4. at[Bundle(u)] >= i => Holds(u, 2 * h)
    BY <1>2, <2>1 DEF InLevel
  <2>5. at[Bundle(u)] = i - 1 \/ at[Bundle(u)] >= i
    BY <1>3, <2>3
  <2>6. Holds(u, 2 * h)
    BY <1>5, <2>2, <2>4, <2>5
  <2> QED
    BY <2>6 DEF Holds
<1> QED
  BY <1>6, <1>7, <1>8
-----------------------------------------------------------------------------
(* What the steps of a bundle leave as it is *)

\* What a running sum is known to satisfy.
LEMMA RunningIs ==
  ASSUME Running
  PROVE  /\ Sized /\ Typed /\ InStep /\ Written /\ Lockstep /\ SumComplete
         /\ KernelShape(program, blockSize) /\ blockSize \in Powers /\ blockSize \in Nat \ {0}
         /\ \A u \in Items : SumOf(u)
         /\ LastWarp \in Nat \ {0}
BY GroupShape, MaxThreadsIs DEF Running, PlanInv, GroupInv

\* Only a barrier that all have reached is passed.
LEMMA InStepMoves ==
  ASSUME Running, NEW b \in Group, Moves(b),
         at'[b] = at[b] + 1, \A c \in Group : c # b => at'[c] = at[c],
         program[at[b]] = Barrier => \A c \in Group : at[c] >= at[b]
  PROVE  InStep'
<1>0. /\ Group' = Group /\ program' = program /\ Len(program) \in Nat
      /\ \A x \in Group : at[x] \in Nat
  BY RunningIs, PassKept, GroupIs, Lengths DEF Moves
<1>1. ASSUME NEW x \in Group PROVE at'[x] <= Len(program) + 1
  BY <1>0, RunningIs DEF Moves, InStep
<1>2. ASSUME NEW x \in Group, NEW y \in Group, NEW j \in 1 .. Len(program),
             program[j] = Barrier, at'[x] > j
      PROVE  at'[y] >= j
  <2>1. at'[y] >= at[y]
    BY <1>0
  <2>2. at[y] >= j
    <3>1. CASE x = b
      <4>1. at[b] = j \/ at[b] > j
        BY <1>0, <1>2, <3>1
      <4> QED
        BY <1>2, <4>1, RunningIs DEF InStep
    <3>2. CASE x # b
      BY <1>2, <3>2, RunningIs DEF InStep
    <3> QED
      BY <3>1, <3>2
  <2> QED
    BY <1>0, <2>1, <2>2
<1> QED
  BY <1>0, <1>1, <1>2 DEF InStep

\* An item that a step leaves alone keeps what it holds.
LEMMA SumOfKept ==
  ASSUME Sized, UNCHANGED <<plan, pass, bid>>, NEW u \in Items, SumOf(u),
         at'[Bundle(u)] = at[Bundle(u)], sdata'[u] = sdata[u], reg'[u] = reg[u],
         u = 0 => mTempBuffer2'[bid] = mTempBuffer2[bid]
  PROVE  SumOf(u)'
<1>1. /\ program' = program /\ blockSize' = blockSize /\ bid' = bid /\ Len(program)' = Len(program)
      /\ \A t, m : Part(t, m)' = Part(t, m)
  BY PassKept
<1>2. \A m : Holds(u, m) => Holds(u, m)'
  BY <1>1 DEF Holds
<1>3. \A i, h : InLevel(u, i, h) => InLevel(u, i, h)'
  BY <1>1, <1>2 DEF InLevel
<1>4. \A i \in 3 .. Len(program)' :
        program'[i].op = "load" => InLevel(u, i, program[i].h)'
  <2>1. \A i \in 3 .. Len(program) : program[i].op = "load" => InLevel(u, i, program[i].h)
    BY DEF SumOf
  <2>2. \A i \in 3 .. Len(program) : program[i].op = "load" => InLevel(u, i, program[i].h)'
    <3>1. ASSUME NEW i \in 3 .. Len(program), program[i].op = "load"
          PROVE  InLevel(u, i, program[i].h)'
      <4>1. PICK h : h = program[i].h
        OBVIOUS
      <4>2. InLevel(u, i, h)
        BY <2>1, <3>1, <4>1
      <4>3. InLevel(u, i, h)'
        BY <1>3, <4>2
      <4>4. h = program[i].h'
        BY <1>1, <4>1
      <4> QED
        BY <4>3, <4>4 DEF InLevel
    <3> QED
      BY <3>1
  <2> QED
    BY <1>1, <2>2
<1>7. (at[Bundle(u)] = 2 => Holds(u, blockSize))'
  BY <1>1, <1>2 DEF SumOf
<1>8. (at[Bundle(u)] = Len(program) => Holds(u, 1))'
  BY <1>1, <1>2 DEF SumOf
<1>9. (at[Bundle(u)] > Len(program) /\ u = 0 => mTempBuffer2[bid] = Part(0, 1))'
  <2>1. Part(0, 1)' = Part(0, 1)
    BY <1>1
  <2> QED
    BY <1>1, <2>1 DEF SumOf
<1> QED
  BY <1>4, <1>7, <1>8, <1>9 DEF SumOf

\* The sums that groups have left stay.
LEMMA WrittenKept ==
  ASSUME Running, NEW b \in Group, Moves(b),
         at'[b] = at[b] + 1, \A c \in Group : c # b => at'[c] = at[c],
         mTempBuffer2' = mTempBuffer2
  PROVE  Written'
<1>1. /\ pass' = pass /\ bid' = bid /\ passes' = passes /\ Len(program)' = Len(program)
      /\ \A a : BlockSum(a)' = BlockSum(a)
  BY RunningIs, PlanKept, PassKept DEF Moves
<1>2. /\ 0 \in Group /\ at[0] \in Nat /\ at[b] \in Nat /\ Len(program) \in Nat
  BY RunningIs, BundleIs, GroupIs
<1>3. at'[0] <= Len(program) => at[0] <= Len(program)
  BY <1>2
<1> QED
  BY <1>1, <1>3, RunningIs DEF Written

\* What the items beyond the last warp have when the others go on without them.
Kept(u) ==
  \A j \in 3 .. Len(program) :
    program[j].op = "load" /\ program[j].h <= LastWarp /\ u >= LastWarp /\ at[Bundle(u)] >= j
      => Holds(u, 2 * program[j].h)'

\* They keep it while nobody stores to them, and if there is still a barrier to come.
LEMMA KeptIfSame ==
  ASSUME Sized, UNCHANGED <<plan, pass, bid>>, NEW u \in Items, SumOf(u),
         u >= LastWarp => sdata'[u] = sdata[u]
  PROVE  Kept(u)
<1> SUFFICES ASSUME NEW j \in 3 .. Len(program), NEW h, h = program[j].h, program[j].op = "load",
                    h <= LastWarp, u >= LastWarp, at[Bundle(u)] >= j
             PROVE  Holds(u, 2 * program[j].h)'
  BY DEF Kept
<1>1. InLevel(u, j, h)
  BY DEF SumOf
<1>2. Holds(u, 2 * h)
  BY <1>1 DEF InLevel
<1>3. \A m : Holds(u, m) => Holds(u, m)'
  BY PassKept DEF Holds
<1>4. Holds(u, 2 * h)'
  BY <1>2, <1>3
<1>5. program' = program
  BY PassKept
<1> QED
  BY <1>4, <1>5 DEF Holds
LEMMA KeptBeforeBarrier ==
  ASSUME KernelShape(program, blockSize), NEW u \in Items, NEW k \in 1 .. Len(program),
         program[k] = Barrier, at[Bundle(u)] \in Nat, at[Bundle(u)] <= k
  PROVE  Kept(u)
<1> SUFFICES ASSUME NEW j \in 3 .. Len(program), program[j].op = "load",
                    program[j].h <= LastWarp, at[Bundle(u)] >= j
             PROVE  FALSE
  BY DEF Kept
<1>1. k \in j .. Len(program)
  OBVIOUS
<1>2. \A x \in j .. Len(program) : program[x] # Barrier
  BY DEF KernelShape, Calm
<1> QED
  BY <1>1, <1>2

\* An item that arrives at an instruction of a level is in no other level.
LEMMA InThisLevel ==
  ASSUME Running, UNCHANGED <<plan, pass, bid>>, NEW u \in Items, NEW h,
         NEW i \in 3 .. Len(program), LevelAt(program, i, h),
         at'[Bundle(u)] = at[Bundle(u)] + 1,
         at'[Bundle(u)] \in {i, i + 1} \/ (at'[Bundle(u)] = i + 2 /\ h > LastWarp),
         InLevel(u, i, h)', Kept(u)
  PROVE  SumOf(u)'
<1>0. /\ KernelShape(program, blockSize) /\ Sized /\ LastWarp \in Nat
      /\ Len(program) \in Nat /\ Len(program) >= 3 /\ at[Bundle(u)] \in Nat
  BY RunningIs, BundleIs, GroupIs
<1>1. program' = program /\ Len(program)' = Len(program)
  BY <1>0, PassKept
<1>2. PICK m \in Nat : m = at[Bundle(u)]
  BY <1>0
<1>3. m + 1 = at'[Bundle(u)] /\ (m + 1 \in {i, i + 1} \/ (m + 1 = i + 2 /\ h > LastWarp))
  BY <1>2
<1>4. /\ program[i].op = "load" /\ program[i].h = h /\ h \in Nat \ {0}
      /\ program[i + 1].op = "store" /\ i + 2 \in 3 .. Len(program)
      /\ h > LastWarp => program[i + 2].op = "barrier" /\ i + 3 \in 3 .. Len(program)
  BY <1>0, LevelFits
<1>5. m + 1 # 2 /\ m + 1 # Len(program) /\ ~ (m + 1 > Len(program))
  BY <1>0, <1>3, <1>4
<1>6. program[m + 1].op = "load" => m + 1 = i
  BY <1>3, <1>4
<1>7. ASSUME NEW j \in 3 .. Len(program), program[j].op = "load", j # i
      PROVE  InLevel(u, j, program[j].h)'
  <2>1. PICK g \in Nat \ {0} : g = program[j].h /\ LevelAt(program, j, g)
    BY <1>0, <1>7, OpIs, LevelFits
  <2>2. /\ program[j + 1].op = "store"
        /\ g > LastWarp => program[j + 2].op = "barrier"
    BY <1>0, <2>1, LevelFits
  <2>3. m + 1 # j
    BY <1>6, <1>7
  <2>4. m + 1 # j + 1
    <3>1. m + 1 = i => i # j + 1
      BY <1>4, <2>2
    <3>2. m + 1 = i + 2 => i + 1 # j
      BY <1>4, <1>7
    <3> QED
      BY <1>3, <1>7, <3>1, <3>2
  <2>5. ~ (m + 1 = j + 2 /\ g > LastWarp)
    <3>1. m + 1 = i => ~ (i = j + 2 /\ g > LastWarp)
      BY <1>4, <2>2
    <3>2. m + 1 = i + 1 => i + 1 # j + 2
      <4>1. i # j + 1
        BY <1>4, <2>2
      <4> QED
        BY <4>1
    <3> QED
      BY <1>3, <1>7, <3>1, <3>2
  <2>6. m + 1 >= j /\ g <= LastWarp /\ u >= LastWarp => Holds(u, 2 * program[j].h)'
    <3> SUFFICES ASSUME m + 1 >= j, g <= LastWarp, u >= LastWarp
                 PROVE  Holds(u, 2 * program[j].h)'
      OBVIOUS
    <3>1. at[Bundle(u)] >= j
      BY <1>2, <2>3
    <3> QED
      BY <1>7, <2>1, <3>1 DEF Kept
  <2>7. g = program[j].h'
    BY <1>1, <2>1
  <2>8. m + 1 >= j /\ g <= LastWarp /\ u >= LastWarp => Holds(u, 2 * g)'
    BY <2>6, <2>7 DEF Holds
  <2>9. InLevel(u, j, g)'
    BY <1>3, <2>3, <2>4, <2>5, <2>8 DEF InLevel
  <2> QED
    BY <2>7, <2>9 DEF InLevel
<1>8. InLevel(u, i, program[i].h)'
  <2>1. h = program[i].h'
    BY <1>1, <1>4
  <2> QED
    BY <2>1 DEF InLevel
<1> QED
  BY <1>1, <1>3, <1>5, <1>7, <1>8 DEF SumOf

\* An item that arrives at a level, or at the write, has what it had before.
LEMMA Arrives ==
  ASSUME Running, UNCHANGED <<plan, pass, bid>>, NEW u \in Items, NEW s \in Powers,
         NEW m \in 3 .. Len(program), at'[Bundle(u)] = m, at'[Bundle(u)] = at[Bundle(u)] + 1,
         GoesOn(program, m, s \div 2), Holds(u, s)', Kept(u)
  PROVE  SumOf(u)'
<1>0. /\ KernelShape(program, blockSize) /\ Sized /\ Len(program) \in Nat
      /\ at[Bundle(u)] \in Nat /\ s \in Nat \ {0}
  BY RunningIs, Lengths, BundleIs, GroupIs, WordPowers
<1>1. program' = program /\ Len(program)' = Len(program)
  BY <1>0, PassKept
<1>2. CASE s \div 2 # 0
  <2>1. PICK h : h = s \div 2
    OBVIOUS
  <2>2. program[m].op = "load" /\ program[m].h = h
    BY <1>2, <2>1 DEF GoesOn, Instr
  <2>3. LevelAt(program, m, h)
    BY <1>0, <2>2, OpIs
  <2>4. s = 2 * h
    BY <2>2, NextLevel
  <2>5. InLevel(u, m, h)'
    BY <2>4 DEF InLevel
  <2> QED
    BY <2>3, <2>5, InThisLevel
<1>3. CASE s \div 2 = 0
  <2>1. program[m].op = "write"
    BY <1>3 DEF GoesOn, Instr
  <2>2. m = Len(program) /\ m # 2 /\ ~ (m > Len(program))
    BY <1>0, <2>1, OpIs
  <2>3. s = 1
    <3>1. s # 1 => s = 2 * (s \div 2)
      BY HalfIs
    <3> QED
      BY <1>0, <1>3, <3>1
  <2>4. ASSUME NEW j \in 3 .. Len(program), program[j].op = "load"
        PROVE  InLevel(u, j, program[j].h)'
    <3>1. PICK g \in Nat \ {0} : g = program[j].h /\ LevelAt(program, j, g)
      BY <1>0, <2>4, OpIs, LevelFits
    <3>2. /\ j + 2 \in 3 .. Len(program)
          /\ g > LastWarp => j + 3 \in 3 .. Len(program)
      BY <1>0, <3>1, LevelFits
    <3>3. m # j /\ m # j + 1 /\ ~ (m = j + 2 /\ g > LastWarp) /\ m >= j + 1
      <4>1. PICK n \in Nat : n = Len(program)
        BY <1>0
      <4>2. j \in 3 .. n /\ j + 2 \in 3 .. n
        BY ONLY <3>2, <4>1, j \in 3 .. Len(program)
      <4>3. g > LastWarp => j + 3 \in 3 .. n
        BY ONLY <3>2, <4>1
      <4>4. m = n
        BY ONLY <2>2, <4>1
      <4>5. n # j /\ n # j + 1 /\ n >= j + 1 /\ (j + 3 \in 3 .. n => n # j + 2)
        BY ONLY <4>2, n \in Nat
      <4> QED
        BY ONLY <4>3, <4>4, <4>5
    <3>4. g = program[j].h'
      BY <1>1, <3>1
    <3>5. at[Bundle(u)] >= j
      BY ONLY <1>0, <3>3, j \in 3 .. Len(program),
              at'[Bundle(u)] = m, at'[Bundle(u)] = at[Bundle(u)] + 1
    <3>6. g <= LastWarp /\ u >= LastWarp => Holds(u, 2 * program[j].h)'
      BY <2>4, <3>1, <3>5 DEF Kept
    <3>7. g <= LastWarp /\ u >= LastWarp => Holds(u, 2 * g)'
      BY <3>4, <3>6 DEF Holds
    <3>8. InLevel(u, j, g)'
      BY <3>3, <3>7 DEF InLevel
    <3> QED
      BY <3>4, <3>8 DEF InLevel
  <2> QED
    BY <1>1, <2>2, <2>3, <2>4 DEF SumOf
<1> QED
  BY <1>2, <1>3
-----------------------------------------------------------------------------
(* The steps of a bundle keep the invariant *)

\* What a step of bundle b keeps, if the items of the bundle are right after it.
LEMMA BundleStep ==
  ASSUME Running, NEW b \in Group,
         Fill(b) \/ Load(b) \/ Store(b) \/ Write(b) \/ WaitBarrier(b),
         program[at[b]] = Barrier => \A c \in Group : at[c] >= at[b],
         \A u \in Items : Bundle(u) # b => sdata'[u] = sdata[u] /\ reg'[u] = reg[u],
         b # 0 => mTempBuffer2'[bid] = mTempBuffer2[bid],
         \A u \in Items : Bundle(u) = b => SumOf(u)',
         Written'
  PROVE  PlanInv' /\ GroupInv'
<1>0. Sized /\ Typed /\ InStep /\ SumComplete /\ \A u \in Items : SumOf(u)
  BY RunningIs
<1>1. /\ Moves(b) /\ Typed' /\ at'[b] = at[b] + 1
      /\ \A c \in Group : c # b => at'[c] = at[c]
  BY <1>0, KernelMoves
<1>2. UNCHANGED <<plan, pass, bid>> /\ result' = result
  BY <1>1 DEF Moves
<1>3. Sized' /\ Items' = Items /\ mInputSize' = mInputSize
  BY <1>0, <1>2, PlanKept, PassKept
<1>4. InStep'
  BY <1>1, InStepMoves
<1>5. SumComplete'
  BY <1>0, <1>2, <1>3 DEF SumComplete
<1>6. ASSUME NEW u \in Items, Bundle(u) # b PROVE SumOf(u)'
  <2>1. Bundle(u) \in Group /\ Bundle(0) = 0
    BY <1>0, BundleIs
  <2>2. at'[Bundle(u)] = at[Bundle(u)]
    BY <1>1, <1>6, <2>1
  <2>3. u = 0 => mTempBuffer2'[bid] = mTempBuffer2[bid]
    BY <1>6, <2>1
  <2>4. sdata'[u] = sdata[u] /\ reg'[u] = reg[u] /\ SumOf(u)
    BY <1>0, <1>6
  <2> QED
    BY <1>0, <1>2, <2>2, <2>3, <2>4, SumOfKept
<1>7. \A u \in Items' : SumOf(u)'
  BY <1>3, <1>6
<1>8. PlanInv'
  BY <1>1, <1>3 DEF PlanInv
<1> QED
  BY <1>4, <1>5, <1>7, <1>8 DEF GroupInv

\* The fill leaves every item with the sum of what belongs to it.
LEMMA FillStep ==
  ASSUME Running, NEW b \in Group, Fill(b)
  PROVE  PlanInv' /\ GroupInv'
<1>0. Sized /\ Typed /\ InStep /\ Written /\ KernelShape(program, blockSize)
  BY RunningIs
<1>1. at[b] = 1 /\ program[1].op = "fill" /\ program[at[b]] # Barrier
  <2>1. at[b] \in 1 .. Len(program) /\ program[at[b]].op = "fill"
    BY <1>0, AtIs DEF Fill
  <2> QED
    BY <1>0, <2>1, FillIsFirst, Lengths
<1>2. /\ Moves(b) /\ at'[b] = at[b] + 1 /\ \A c \in Group : c # b => at'[c] = at[c]
      /\ UNCHANGED <<plan, pass, bid>> /\ mTempBuffer2' = mTempBuffer2 /\ reg' = reg
  BY <1>0, KernelMoves DEF Fill
<1>3. Written'
  BY <1>2, WrittenKept
<1>4. \A u \in Items : Sum(g_idata, FillReads(u)) = Part(u, blockSize)
  <2>1. CASE pass = 1
    BY <1>0, <2>1, FirstFill
  <2>2. CASE pass = 2
    <3>1. 2 \in 1 .. Len(program) /\ program[2] = Barrier /\ 0 \in Group
      BY <1>0, Lengths, BundleIs
    <3>2. ~ (at[0] > 2)
      <4>1. ~ (at[b] >= 2)
        BY <1>1
      <4> QED
        BY <1>0, <3>1, <4>1 DEF InStep
    <3>3. at[0] <= Len(program)
      BY <1>0, <3>1, <3>2, GroupIs
    <3>4. \A a \in 0 .. passes[1].blocks - 1 : mTempBuffer2[a] = BlockSum(a)
      BY <1>0, <2>2, <3>3 DEF Written
    <3> QED
      BY <1>0, <2>2, <3>4, SecondFill
  <2> QED
    BY <1>0, <2>1, <2>2, GroupShape
<1>5. ASSUME NEW u \in Items
      PROVE  sdata'[u] = IF Bundle(u) = b THEN Part(u, blockSize) ELSE sdata[u]
  <2>1. u \in Local /\ (u \in Lanes(b, blockSize, Width) <=> Bundle(u) = b)
    BY <1>0, BundleIs
  <2>2. sdata'[u] = IF Bundle(u) = b THEN Sum(g_idata, FillReads(u)) ELSE sdata[u]
    BY <2>1 DEF Fill
  <2> QED
    BY <1>4, <2>2
<1>6. ASSUME NEW u \in Items, Bundle(u) = b PROVE SumOf(u)'
  <2>1. /\ at'[Bundle(u)] = 2 /\ Len(program)' = Len(program)
        /\ Len(program) \in Nat /\ Len(program) >= 3
    BY <1>0, <1>1, <1>2, <1>6, PassKept, Lengths
  <2>2. Holds(u, blockSize)'
    <3>1. blockSize' = blockSize /\ \A t, m : Part(t, m)' = Part(t, m)
      BY <1>0, <1>2, PassKept
    <3> QED
      BY <1>5, <1>6, <3>1 DEF Holds
  <2>3. \A h : \A i \in 3 .. Len(program) : InLevel(u, i, h)'
    BY <2>1 DEF InLevel
  <2> QED
    BY <2>1, <2>2, <2>3 DEF SumOf
<1> QED
  BY <1>1, <1>2, <1>3, <1>5, <1>6, BundleStep

\* Where a bundle is that loads or stores.
LEMMA LevelOf ==
  ASSUME Running, NEW b \in Group, NEW op \in {"load", "store"}, Executes(program, b, op)
  PROVE  \E i \in 3 .. Len(program), h \in Nat \ {0} :
           /\ at[b] = IF op = "load" THEN i ELSE i + 1
           /\ LevelAt(program, i, h) /\ program[at[b]].h = h /\ program[at[b]] # Barrier
           /\ program[i].op = "load" /\ program[i].h = h
           /\ op = "load" => Behind(program, 3, i)
<1>0. Sized /\ Typed /\ KernelShape(program, blockSize)
  BY RunningIs
<1>1. at[b] \in 1 .. Len(program) /\ program[at[b]].op = op
  BY <1>0, AtIs
<1>2. PICK k \in 3 .. Len(program) : k = at[b] /\ program[k].op = op /\ program[k] # Barrier
  BY <1>0, <1>1, FillIsFirst, Lengths
<1>3. CASE op = "load"
  <2>1. LevelAt(program, k, program[k].h) /\ Behind(program, 3, k)
    BY <1>0, <1>2, <1>3, OpIs
  <2>2. program[k].h \in Nat \ {0}
    BY <1>0, <2>1, LevelFits
  <2> QED
    BY <1>2, <1>3, <2>1, <2>2
<1>4. CASE op = "store"
  <2>1. PICK i : i = k - 1
    OBVIOUS
  <2>2. i \in 3 .. Len(program) /\ LevelAt(program, i, program[k].h) /\ k = i + 1
    BY <1>0, <1>2, <1>4, <2>1, OpIs
  <2>3. /\ program[k].h \in Nat \ {0} /\ program[i].op = "load"
        /\ program[i].h = program[k].h
    BY <1>0, <2>2, LevelFits
  <2> QED
    BY <1>2, <1>4, <2>2, <2>3
<1> QED
  BY <1>3, <1>4

\* A level fits into the group.
LEMMA LevelIsBelow ==
  ASSUME Running, NEW i \in 3 .. Len(program)
  PROVE  2 * program[i].h <= blockSize
<1>1. /\ KernelShape(program, blockSize) /\ blockSize \in Nat \ {0} /\ blockSize \div 2 \in Nat
      /\ 2 * (blockSize \div 2) <= blockSize /\ program[i].h \in Nat
  <2>1. KernelShape(program, blockSize) /\ blockSize \in Nat \ {0}
    BY RunningIs
  <2>2. program[i] \in Instructions
    BY <2>1 DEF KernelShape
  <2>3. program[i].h \in Nat
    BY <2>2 DEF Instructions
  <2>4. PICK c \in Nat \ {0} : c = blockSize
    BY <2>1
  <2>5. c \div 2 \in Nat /\ 2 * (c \div 2) <= c
    OBVIOUS
  <2> QED
    BY <2>1, <2>3, <2>4, <2>5
<1>2. program[i].h <= blockSize \div 2
  BY <1>1 DEF KernelShape, Below
<1>3. PICK h \in Nat, e \in Nat : h = program[i].h /\ e = blockSize \div 2
  BY <1>1
<1> QED
  BY <1>1, <1>2, <1>3

\* A load has its partner's part of the level before.
LEMMA LoadStep ==
  ASSUME Running, NEW b \in Group, Load(b)
  PROVE  PlanInv' /\ GroupInv'
<1>0. /\ Sized /\ Typed /\ KernelShape(program, blockSize) /\ blockSize \in Nat \ {0}
      /\ LastWarp \in Nat \ {0}
  BY RunningIs
<1>1. PICK i \in 3 .. Len(program), h \in Nat \ {0} :
        /\ at[b] = i /\ LevelAt(program, i, h) /\ program[at[b]].h = h
        /\ program[at[b]] # Barrier /\ program[i].op = "load" /\ program[i].h = h
        /\ Behind(program, 3, i)
  BY LevelOf DEF Load
<1>2. /\ Moves(b) /\ at'[b] = at[b] + 1 /\ \A c \in Group : c # b => at'[c] = at[c]
      /\ UNCHANGED <<plan, pass, bid>> /\ mTempBuffer2' = mTempBuffer2 /\ sdata' = sdata
  BY <1>0, KernelMoves DEF Load
<1>3. Written'
  BY <1>2, WrittenKept
<1>4. ASSUME NEW u \in Items
      PROVE  /\ Bundle(u) # b => reg'[u] = reg[u]
             /\ Bundle(u) = b /\ u < h => reg'[u] = Plus(sdata[u], Fetch(sdata, u + h))
  <2>1. u \in Nat /\ u \in DOMAIN reg /\ (u \in Lanes(b, blockSize, Width) <=> Bundle(u) = b)
    BY <1>0, BundleIs DEF Typed
  <2>2. reg'[u] = IF u \in Busy(b, h) THEN Plus(sdata[u], Fetch(sdata, u + h)) ELSE reg[u]
    BY <1>1, <2>1 DEF Load
  <2>3. u < h => Active(u, h)
    BY <1>0, <2>1 DEF Active
  <2>4. u \in Busy(b, h) <=> Bundle(u) = b /\ Active(u, h)
    BY <2>1 DEF Busy
  <2> QED
    BY <2>2, <2>3, <2>4
<1>5. ASSUME NEW u \in Items, Bundle(u) = b PROVE SumOf(u)'
  <2>0. /\ u \in Nat /\ SumOf(u) /\ UNCHANGED <<plan, pass, bid>>
        /\ \A t, m : Part(t, m)' = Part(t, m)
    BY <1>0, <1>2, BundleIs, RunningIs, PassKept
  <2>1. Holds(u, 2 * h)
    <3>1. InLevel(u, i, h)
      BY <1>1, <2>0 DEF SumOf
    <3> QED
      BY <1>1, <1>5, <3>1 DEF InLevel
  <2>2. u < h => reg'[u] = Part(u, h)
    <3> SUFFICES ASSUME u < h PROVE reg'[u] = Part(u, h)
      OBVIOUS
    <3>1. PICK w \in Nat : w = u + h /\ w >= h /\ w < 2 * h
      BY <2>0
    <3>2. w \in Items
      <4>1. 2 * h <= blockSize
        BY <1>1, LevelIsBelow
      <4> QED
        BY <1>0, <3>1, <4>1 DEF Items
    <3>3. sdata[w] = Part(w, 2 * h)
      BY <1>1, <1>5, <3>1, <3>2, Operand
    <3>4. Fetch(sdata, u + h) = Part(u + h, 2 * h)
      BY <1>0, <3>1, <3>2, <3>3, BundleIs DEF Fetch, Typed
    <3>5. sdata[u] = Part(u, 2 * h)
      BY <2>0, <2>1 DEF Holds
    <3>6. u \in 0 .. h - 1
      BY <2>0
    <3>7. Plus(Part(u, 2 * h), Part(u + h, 2 * h)) = Part(u, h)
      BY <1>0, <3>6, PartsAdd
    <3> QED
      BY <1>4, <1>5, <3>4, <3>5, <3>7
  <2>3. at'[Bundle(u)] = i + 1 /\ at'[Bundle(u)] = at[Bundle(u)] + 1
    BY <1>1, <1>2, <1>5
  <2>4. Holds(u, 2 * h)'
    BY <1>2, <2>0, <2>1 DEF Holds
  <2>5. (u < h => reg[u] = Part(u, h))'
    BY <2>0, <2>2
  <2>6. InLevel(u, i, h)'
    BY <2>3, <2>4, <2>5 DEF InLevel
  <2>7. Kept(u)
    BY <1>0, <1>2, <2>0, KeptIfSame
  <2> QED
    BY <1>1, <2>0, <2>3, <2>6, <2>7, InThisLevel
<1>6. /\ \A u \in Items : Bundle(u) # b => sdata'[u] = sdata[u] /\ reg'[u] = reg[u]
      /\ b # 0 => mTempBuffer2'[bid] = mTempBuffer2[bid]
      /\ program[at[b]] # Barrier
  BY <1>1, <1>2, <1>4
<1> QED
  BY <1>3, <1>5, <1>6, BundleStep

\* A store disturbs no item that still loads; the lanes that take part in a level
\* of the last warp for nothing hold nothing that is still needed.
LEMMA StoreStep ==
  ASSUME Running, NEW b \in Group, Store(b)
  PROVE  PlanInv' /\ GroupInv'
<1>0. /\ Sized /\ Typed /\ KernelShape(program, blockSize) /\ LastWarp \in Nat \ {0}
  BY RunningIs
<1>1. PICK i \in 3 .. Len(program), h \in Nat \ {0} :
        /\ at[b] = i + 1 /\ LevelAt(program, i, h) /\ program[at[b]].h = h
        /\ program[at[b]] # Barrier /\ program[i].op = "load" /\ program[i].h = h
  BY LevelOf DEF Store
<1>2. /\ Moves(b) /\ at'[b] = at[b] + 1 /\ \A c \in Group : c # b => at'[c] = at[c]
      /\ UNCHANGED <<plan, pass, bid>> /\ mTempBuffer2' = mTempBuffer2 /\ reg' = reg
  BY <1>0, KernelMoves DEF Store
<1>3. Written'
  BY <1>2, WrittenKept
<1>4. ASSUME NEW u \in Items
      PROVE  sdata'[u] = IF Bundle(u) = b /\ Active(u, h) THEN reg[u] ELSE sdata[u]
  <2>1. u \in Local /\ (u \in Lanes(b, blockSize, Width) <=> Bundle(u) = b)
    BY <1>0, BundleIs
  <2>2. sdata'[u] = IF u \in Busy(b, h) THEN reg[u] ELSE sdata[u]
    BY <1>1, <2>1 DEF Store
  <2> QED
    BY <2>1, <2>2 DEF Busy
<1>5. ASSUME NEW u \in Items, Bundle(u) = b PROVE SumOf(u)'
  <2>0. /\ u \in Nat /\ SumOf(u) /\ UNCHANGED <<plan, pass, bid>> /\ Bundle(u) \in Group
        /\ \A t, m : Part(t, m)' = Part(t, m)
    BY <1>0, <1>2, BundleIs, RunningIs, PassKept
  <2>1. Holds(u, 2 * h) /\ (u < h => reg[u] = Part(u, h))
    <3>1. InLevel(u, i, h)
      BY <1>1, <2>0 DEF SumOf
    <3> QED
      BY <1>1, <1>5, <3>1 DEF InLevel
  <2>2. at'[Bundle(u)] = i + 2 /\ at'[Bundle(u)] = at[Bundle(u)] + 1 /\ at[Bundle(u)] = i + 1
    BY <1>1, <1>2, <1>5
  <2>3. Holds(u, h)'
    <3>1. u < h => Active(u, h)
      BY <1>0, <2>0 DEF Active
    <3>2. u < h => sdata'[u] = Part(u, h)
      BY <1>4, <1>5, <2>1, <3>1
    <3> QED
      BY <2>0, <3>2 DEF Holds
  <2>4. CASE h > LastWarp
    <3>1. i + 2 \in 1 .. Len(program) /\ program[i + 2] = Barrier
      <4>1. i + 2 \in 3 .. Len(program) /\ program[i + 2] = Barrier
        BY <1>0, <1>1, <2>4, LevelFits
      <4> QED
        BY <4>1
    <3>2. Kept(u)
      <4>1. at[Bundle(u)] \in Nat /\ at[Bundle(u)] <= i + 2
        BY <2>2
      <4> QED
        BY <1>0, <3>1, <4>1, KeptBeforeBarrier
    <3>3. (u >= h => Holds(u, 2 * h))'
      <4> SUFFICES ASSUME u >= h PROVE Holds(u, 2 * h)'
        OBVIOUS
      <4>1. ~ Active(u, h)
        BY <2>0, <2>4 DEF Active
      <4>2. sdata'[u] = sdata[u]
        BY <1>4, <4>1
      <4> QED
        BY <2>0, <2>1, <4>2 DEF Holds
    <3>4. ~ (h <= LastWarp)
      BY <1>0, <2>4
    <3>5. InLevel(u, i, h)'
      BY <2>2, <2>3, <3>3, <3>4 DEF InLevel
    <3> QED
      BY <1>1, <2>0, <2>2, <2>4, <3>2, <3>5, InThisLevel
  <2>5. CASE ~ (h > LastWarp)
    <3>1. h \in Powers /\ GoesOn(program, i + 2, h \div 2) /\ i + 2 \in 3 .. Len(program)
      BY <1>0, <1>1, <2>5, LevelFits DEF LevelAt
    <3>2. u >= LastWarp => sdata'[u] = sdata[u]
      <4>1. u >= LastWarp => ~ Active(u, h)
        BY <1>0, <2>0, <2>5 DEF Active
      <4> QED
        BY <1>4, <4>1
    <3>3. Kept(u)
      BY <1>0, <2>0, <3>2, KeptIfSame
    <3>4. PICK m \in 3 .. Len(program) : m = i + 2
      BY <3>1
    <3>5. at'[Bundle(u)] = m /\ GoesOn(program, m, h \div 2)
      BY <2>2, <3>1, <3>4
    <3> QED
      BY <2>0, <2>2, <2>3, <3>1, <3>3, <3>5, Arrives
  <2> QED
    BY <2>4, <2>5
<1>6. /\ \A u \in Items : Bundle(u) # b => sdata'[u] = sdata[u] /\ reg'[u] = reg[u]
      /\ b # 0 => mTempBuffer2'[bid] = mTempBuffer2[bid]
      /\ program[at[b]] # Barrier
  BY <1>1, <1>2, <1>4
<1> QED
  BY <1>3, <1>5, <1>6, BundleStep

\* The result of a group has a place in the buffer.
LEMMA BlocksFit ==
  ASSUME Sized, Typed
  PROVE  bid \in DOMAIN mTempBuffer2 /\ 0 \in DOMAIN mTempBuffer2
<1>1. PICK n \in Nat : n = mBufferSize
  BY GroupShape, WordPowers DEF Planned
<1>2. PICK r \in Nat, p \in Nat \ {0} :
        r >= passes[1].blocks /\ p = passes[1].threads /\ mBufferSize = (2 * p) * r
  BY GroupShape DEF Planned
<1>3. (2 * p) * r >= r
  BY SMTT(30)
<1>4. r <= n
  BY <1>1, <1>2, <1>3
<1>5. /\ bid \in Nat /\ bid < blocks /\ passes[1].blocks \in Nat \ {0}
      /\ pass = 1 => blocks = passes[1].blocks
      /\ pass = 2 => bid = 0
      /\ pass \in {1, 2}
  BY GroupShape
<1>6. bid < passes[1].blocks
  BY <1>5
<1>7. bid < n /\ 0 < n
  BY <1>2, <1>4, <1>5, <1>6
<1> QED
  BY <1>1, <1>5, <1>7 DEF Typed

\* The write of item 0 is the part of the group.
LEMMA WriteStep ==
  ASSUME Running, NEW b \in Group, Write(b)
  PROVE  PlanInv' /\ GroupInv'
<1>0. Sized /\ Typed /\ Written /\ KernelShape(program, blockSize)
  BY RunningIs
<1>1. /\ at[b] = Len(program) /\ program[at[b]].op = "write" /\ program[at[b]] # Barrier
      /\ Len(program) \in Nat /\ Len(program) >= 3
  <2>1. at[b] \in 1 .. Len(program) /\ program[at[b]].op = "write"
    BY <1>0, AtIs DEF Write
  <2>2. at[b] \in 3 .. Len(program)
    BY <1>0, <2>1, FillIsFirst
  <2> QED
    BY <1>0, <2>1, <2>2, OpIs, Lengths
<1>2. /\ Moves(b) /\ at'[b] = at[b] + 1 /\ \A c \in Group : c # b => at'[c] = at[c]
      /\ UNCHANGED <<plan, pass, bid>> /\ sdata' = sdata /\ reg' = reg
  BY <1>0, KernelMoves DEF Write
<1>3. 0 \in Lanes(b, blockSize, Width) <=> b = 0
  BY <1>0, BundleIs
<1>4. /\ b # 0 => mTempBuffer2' = mTempBuffer2
      /\ b = 0 => mTempBuffer2' = [mTempBuffer2 EXCEPT ![bid] = sdata[0]]
  BY <1>3 DEF Write
<1>5. Written'
  <2>1. CASE b # 0
    BY <1>2, <1>4, <2>1, WrittenKept
  <2>2. CASE b = 0
    <3>1. /\ pass' = pass /\ bid' = bid /\ Len(program)' = Len(program)
          /\ \A a : BlockSum(a)' = BlockSum(a)
      BY <1>0, <1>2, PlanKept, PassKept
    <3>2. ~ (at'[0] <= Len(program)')
      BY <1>1, <1>2, <2>2, <3>1
    <3>3. \A c : c # bid => mTempBuffer2'[c] = mTempBuffer2[c] \/ c \notin DOMAIN mTempBuffer2
      BY <1>4, <2>2
    <3>4. CASE pass = 1
      <4>1. ASSUME NEW c \in 0 .. bid - 1 PROVE mTempBuffer2'[c] = BlockSum(c)
        <5>1. c # bid /\ c \in DOMAIN mTempBuffer2
          <6>1. bid \in Nat /\ bid \in 0 .. mBufferSize - 1 /\ mBufferSize \in Nat
            BY <1>0, BlocksFit, GroupShape, WordPowers DEF Typed, Planned
          <6>2. c # bid /\ c \in 0 .. mBufferSize - 1
            BY <6>1
          <6> QED
            BY <1>0, <6>2 DEF Typed
        <5> QED
          BY <1>0, <3>3, <3>4, <5>1 DEF Written
      <4> QED
        BY <3>1, <3>4, <4>1 DEF Written
    <3>5. CASE pass # 1
      BY <3>1, <3>2, <3>5 DEF Written
    <3> QED
      BY <3>4, <3>5
  <2> QED
    BY <2>1, <2>2
<1>6. ASSUME NEW u \in Items, Bundle(u) = b PROVE SumOf(u)'
  <2>0. /\ u \in Nat /\ SumOf(u) /\ UNCHANGED <<plan, pass, bid>> /\ bid' = bid
        /\ \A t, m : Part(t, m)' = Part(t, m)
        /\ program' = program /\ Len(program)' = Len(program)
    BY <1>0, <1>2, BundleIs, RunningIs, PassKept
  <2>1. at'[Bundle(u)] = Len(program) + 1 /\ at[Bundle(u)] = Len(program)
    BY <1>1, <1>2, <1>6
  <2>2. Kept(u)
    BY <1>0, <1>2, <2>0, KeptIfSame
  <2>3. ASSUME NEW j \in 3 .. Len(program), program[j].op = "load"
        PROVE  InLevel(u, j, program[j].h)'
    <3>1. PICK g \in Nat \ {0} : g = program[j].h /\ LevelAt(program, j, g)
      BY <1>0, <2>3, OpIs, LevelFits
    <3>2. j + 2 \in 3 .. Len(program) /\ (g > LastWarp => j + 3 \in 3 .. Len(program))
      BY <1>0, <3>1, LevelFits
    <3>3. PICK n \in Nat : n = Len(program)
      BY <1>1
    <3>4. j \in 3 .. n /\ j + 2 \in 3 .. n /\ (g > LastWarp => j + 3 \in 3 .. n)
      BY ONLY <3>2, <3>3, j \in 3 .. Len(program)
    <3>5. n + 1 # j /\ n + 1 # j + 1 /\ n + 1 # j + 2 /\ n >= j
      BY ONLY <3>4, n \in Nat
    <3>6. g <= LastWarp /\ u >= LastWarp => Holds(u, 2 * program[j].h)'
      BY <2>1, <2>2, <2>3, <3>1, <3>3, <3>5 DEF Kept
    <3>7. g = program[j].h'
      BY <2>0, <3>1
    <3>8. g <= LastWarp /\ u >= LastWarp => Holds(u, 2 * g)'
      BY <3>6, <3>7 DEF Holds
    <3>9. at'[Bundle(u)] = n + 1
      BY <2>1, <3>3
    <3>10. InLevel(u, j, g)'
      BY <3>5, <3>8, <3>9 DEF InLevel
    <3> QED
      BY <3>7, <3>10 DEF InLevel
  <2>4. (u = 0 => mTempBuffer2[bid] = Part(0, 1))'
    <3> SUFFICES ASSUME u = 0 PROVE mTempBuffer2'[bid] = Part(0, 1)
      BY <2>0
    <3>1. b = 0
      BY <1>0, <1>6, BundleIs
    <3>2. mTempBuffer2'[bid] = sdata[0]
      BY <1>0, <1>4, <3>1, BlocksFit
    <3>3. Holds(u, 1)
      BY <2>0, <2>1 DEF SumOf
    <3> QED
      BY <3>2, <3>3 DEF Holds
  <2>5. at'[Bundle(u)] # 2 /\ at'[Bundle(u)] # Len(program)'
    BY <1>1, <2>0, <2>1
  <2> QED
    BY <2>0, <2>3, <2>4, <2>5 DEF SumOf
<1>7. /\ \A u \in Items : Bundle(u) # b => sdata'[u] = sdata[u] /\ reg'[u] = reg[u]
      /\ b # 0 => mTempBuffer2'[bid] = mTempBuffer2[bid]
  BY <1>2, <1>4
<1> QED
  BY <1>1, <1>5, <1>6, <1>7, BundleStep

\* A barrier takes every item from one level to the next.
LEMMA BarrierStep ==
  ASSUME Running, NEW b \in Group, WaitBarrier(b)
  PROVE  PlanInv' /\ GroupInv'
<1>0. /\ Sized /\ Typed /\ KernelShape(program, blockSize) /\ blockSize \in Powers
  BY RunningIs
<1>1. PICK m \in 1 .. Len(program) :
        at[b] = m /\ program[m].op = "barrier" /\ program[m] = Barrier /\ m # 1
  <2>1. at[b] \in 1 .. Len(program) /\ program[at[b]].op = "barrier"
    BY <1>0, AtIs DEF WaitBarrier, PassBarrier
  <2> QED
    BY <1>0, <2>1, FillIsFirst
<1>2. /\ Moves(b) /\ at'[b] = at[b] + 1 /\ \A c \in Group : c # b => at'[c] = at[c]
      /\ UNCHANGED <<plan, pass, bid>> /\ mTempBuffer2' = mTempBuffer2
      /\ sdata' = sdata /\ reg' = reg
  BY <1>0, KernelMoves DEF WaitBarrier, PassBarrier
<1>3. Written'
  BY <1>2, WrittenKept
<1>4. \A c \in Group : at[c] >= at[b]
  BY <1>0, GroupIs DEF WaitBarrier, PassBarrier
<1>5. ASSUME NEW u \in Items, Bundle(u) = b PROVE SumOf(u)'
  <2>0. /\ SumOf(u) /\ UNCHANGED <<plan, pass, bid>> /\ at[Bundle(u)] = m
        /\ \A t, k : Part(t, k)' = Part(t, k)
    BY <1>0, <1>1, <1>2, <1>5, RunningIs, PassKept
  <2>1. PICK s \in Powers : Holds(u, s) /\ GoesOn(program, m + 1, s \div 2)
    BY <1>0, <1>1, <2>0, Waits
  <2>2. m + 1 \in 3 .. Len(program)
    <3>1. m + 1 \in 1 .. Len(program)
      BY <2>1 DEF GoesOn
    <3> QED
      BY <1>1, <3>1
  <2>3. Holds(u, s)'
    BY <1>2, <2>0, <2>1 DEF Holds
  <2>4. Kept(u)
    BY <1>0, <1>2, <2>0, KeptIfSame
  <2>5. at'[Bundle(u)] = m + 1 /\ at'[Bundle(u)] = at[Bundle(u)] + 1
    BY <1>1, <1>2, <1>5
  <2> QED
    BY <2>0, <2>1, <2>2, <2>3, <2>4, <2>5, Arrives
<1> QED
  BY <1>2, <1>3, <1>4, <1>5, BundleStep
-----------------------------------------------------------------------------
(* The host *)

\* What the plan gives a group.
LEMMA PlanGroups ==
  PlanInv => /\ Len(program) \in Nat /\ Len(program) >= 3
             /\ \A u \in Items : Bundle(u) \in Group
<1> SUFFICES ASSUME PlanInv
             PROVE  /\ Len(program) \in Nat /\ Len(program) >= 3
                    /\ \A u \in Items : Bundle(u) \in Group
  OBVIOUS
<1>1. Sized /\ Typed
  BY DEF PlanInv
<1> QED
  BY <1>1, GroupIs, BundleIs

\* Of a group that starts nothing is known yet.
LEMMA FreshGroup ==
  ASSUME PlanInv', at' = [c \in Group' |-> 1], Written', SumComplete'
  PROVE  GroupInv'
<1>1. (PlanInv => /\ Len(program) \in Nat /\ Len(program) >= 3
                  /\ \A u \in Items : Bundle(u) \in Group)'
  BY PlanGroups, PTL
<1>2. PICK n \in Nat : n = Len(program)' /\ n >= 3
  BY <1>1
<1>3. InStep'
  BY <1>2 DEF InStep
<1>4. ASSUME NEW u \in Items' PROVE SumOf(u)'
  <2>1. at'[Bundle(u)] = 1
    <3>1. Bundle(u)' \in Group' /\ Bundle(u)' = Bundle(u)
      BY <1>1 DEF Bundle
    <3> QED
      BY <3>1
  <2>2. \A i \in 3 .. n : \A h : InLevel(u, i, h)'
    BY <2>1 DEF InLevel
  <2>3. \A i \in (3 .. Len(program))' : InLevel(u, i, program[i].h)'
    <3>1. (3 .. Len(program))' = 3 .. n
      BY <1>2
    <3> QED
      BY <2>2, <3>1 DEF InLevel
  <2>4. at'[Bundle(u)] # 2 /\ at'[Bundle(u)] # Len(program)' /\ ~ (at'[Bundle(u)] > Len(program)')
    BY <1>2, <2>1
  <2> QED
    BY <2>3, <2>4 DEF SumOf
<1> QED
  BY <1>3, <1>4 DEF GroupInv

\* The first item of a group that is done has written what belongs to the group.
LEMMA GroupIsDone ==
  ASSUME Running, Finished(program)
  PROVE  mTempBuffer2[bid] = Part(0, 1)
<1>1. 0 \in Items /\ 0 \in Group /\ Bundle(0) = 0 /\ DOMAIN at = Group
  BY RunningIs, BundleIs, GroupIs
<1>2. at[0] > Len(program) /\ SumOf(0)
  BY <1>1, RunningIs DEF Finished
<1> QED
  BY <1>1, <1>2 DEF SumOf

\* The groups of the first pass leave their sums to the second one,
LEMMA HostStep ==
  ASSUME Running, NextGroup \/ NextPass
  PROVE  PlanInv' /\ GroupInv'
<1>0. /\ Sized /\ Typed /\ Written /\ SumComplete /\ PlanInv
      /\ UNCHANGED <<plan, mTempBuffer2, result>> /\ PlanInv' /\ at' = [b \in Group' |-> 1]
      /\ mTempBuffer2[bid] = Part(0, 1)
  BY RunningIs, HostKeepsPlan, GroupIsDone DEF Running, NextGroup, NextPass
<1>1. /\ bid \in Nat /\ blocks \in Nat /\ pass \in {1, 2}
      /\ pass = 1 => blocks = passes[1].blocks
      /\ pass = 2 => blocks = 1
      /\ pass \in 1 .. Len(passes) /\ Planned
  BY <1>0, GroupShape
<1>2. passes' = passes /\ mInputSize' = mInputSize /\ \A a : BlockSum(a)' = BlockSum(a)
  BY <1>0, PlanKept
<1>3. SumComplete'
  BY <1>0, <1>2 DEF SumComplete
<1>4. pass = 1
  <2>1. CASE NextGroup
    <3>1. bid + 1 < blocks
      BY <2>1 DEF NextGroup
    <3> QED
      BY <1>1, <3>1
  <2>2. CASE NextPass
    <3>1. pass < Len(passes) /\ Len(passes) \in {1, 2}
      BY <1>1, <2>2 DEF NextPass, Planned
    <3>2. PICK n \in {1, 2} : n = Len(passes)
      BY <3>1
    <3> QED
      BY <1>1, <3>1, <3>2
  <2> QED
    BY <2>1, <2>2
<1>5. \A a \in 0 .. bid : mTempBuffer2[a] = BlockSum(a)
  <2>1. mTempBuffer2[bid] = BlockSum(bid)
    BY <1>0, <1>4, GroupSum
  <2>2. \A a \in 0 .. bid : a = bid \/ a \in 0 .. bid - 1
    BY <1>1
  <2> QED
    BY <1>0, <1>4, <2>1, <2>2 DEF Written
<1>6. Written'
  <2>1. CASE NextGroup
    <3>1. pass' = 1 /\ bid' = bid + 1 /\ \A a \in 0 .. bid' - 1 : a \in 0 .. bid
      BY <1>1, <1>4, <2>1 DEF NextGroup
    <3> QED
      BY <1>0, <1>2, <1>5, <3>1 DEF Written
  <2>2. CASE NextPass
    <3>1. pass' = 2 /\ bid + 1 = blocks
      BY <1>4, <2>2 DEF NextPass
    <3>2. \A a \in 0 .. passes[1].blocks - 1 : a \in 0 .. bid
      BY <1>1, <1>4, <3>1
    <3> QED
      BY <1>0, <1>2, <1>5, <3>1, <3>2 DEF Written
  <2> QED
    BY <2>1, <2>2
<1> QED
  BY <1>0, <1>3, <1>6, FreshGroup

\* nothing that a group holds changes,
LEMMA GroupKept ==
  ASSUME Running, UNCHANGED <<plan, pass, bid, mTempBuffer2, group>>
  PROVE  PlanInv' /\ InStep' /\ Written' /\ \A u \in Items' : SumOf(u)'
<1>0. /\ Sized /\ Typed /\ InStep /\ Written /\ PlanInv /\ \A u \in Items : SumOf(u)
      /\ UNCHANGED <<plan, pass, bid>> /\ mTempBuffer2' = mTempBuffer2 /\ PlanInv'
      /\ at' = at /\ sdata' = sdata /\ reg' = reg
  BY RunningIs, SameKeepsPlan DEF Running
<1>1. /\ Items' = Items /\ Group' = Group /\ program' = program /\ Len(program)' = Len(program)
      /\ passes' = passes /\ pass' = pass /\ bid' = bid /\ \A a : BlockSum(a)' = BlockSum(a)
  BY <1>0, PlanKept, PassKept
<1>2. InStep'
  BY <1>0, <1>1 DEF InStep
<1>3. Written'
  BY <1>0, <1>1 DEF Written
<1>4. ASSUME NEW u \in Items PROVE SumOf(u)'
  BY <1>0, SumOfKept
<1> QED
  BY <1>0, <1>1, <1>2, <1>3, <1>4

\* and the last group has the whole input.
LEMMA ReturnStep ==
  ASSUME Running, Return
  PROVE  PlanInv' /\ GroupInv'
<1>0. /\ Sized /\ Typed /\ mTempBuffer2[bid] = Part(0, 1)
      /\ UNCHANGED <<plan, pass, bid, mTempBuffer2, group>>
  BY RunningIs, GroupIsDone DEF Return
<1>1. PlanInv' /\ InStep' /\ Written' /\ \A u \in Items' : SumOf(u)'
  BY <1>0, GroupKept
<1>2. mInputSize' = mInputSize
  BY <1>0, PlanKept
<1>3. mTempBuffer2[0] = 0 .. mInputSize - 1
  <2>1. CASE pass = 1
    <3>1. Len(passes) = 1 /\ bid + 1 = blocks
      BY <2>1 DEF Return
    <3>2. passes[1].blocks = 1 /\ blocks = passes[1].blocks /\ bid \in Nat
      BY <1>0, <2>1, <3>1, GroupShape DEF Planned
    <3>3. bid = 0
      BY <3>1, <3>2
    <3> QED
      BY <1>0, <2>1, <3>2, <3>3, GroupSum, OneBlockIsAll
  <2>2. CASE pass = 2
    BY <1>0, <2>2, GroupSum, GroupShape
  <2> QED
    BY <1>0, <2>1, <2>2, GroupShape
<1>4. SumComplete'
  BY <1>2, <1>3 DEF Return, SumComplete
<1> QED
  BY <1>1, <1>4 DEF GroupInv

\* If the items of the last warp run in lockstep, then in every reachable state each
\* item holds the part of the input that its level has added up, and nothing that
\* another bundle still needs is overwritten
\* (reduce_sum_float_nvidia.cl, CRoutine_Sum_NVidia.cpp 151-220).
THEOREM SumInvariant == Spec => [](Lockstep => GroupInv)
<1> DEFINE Inv == PlanInv /\ (Lockstep => GroupInv)
<1>1. Init => Inv
  <2> SUFFICES ASSUME Init PROVE PlanInv /\ GroupInv
    OBVIOUS
  <2>1. PlanInv /\ at = [b \in Group |-> 1] /\ pass = 1 /\ bid = 0 /\ result = NotYet
    BY InitPlan DEF Init
  <2>2. /\ Len(program) \in Nat /\ Len(program) >= 3
        /\ \A u \in Items : Bundle(u) \in Group
    BY <2>1, PlanGroups
  <2>3. InStep
    BY <2>1, <2>2 DEF InStep
  <2>4. Written
    BY <2>1 DEF Written
  <2>5. ASSUME NEW u \in Items PROVE SumOf(u)
    <3>1. at[Bundle(u)] = 1
      BY <2>1, <2>2
    <3>2. \A h : \A i \in 3 .. Len(program) : InLevel(u, i, h)
      BY <3>1 DEF InLevel
    <3>3. PICK n \in Nat : n = Len(program) /\ n >= 3
      BY <2>2
    <3>4. /\ at[Bundle(u)] # 2 /\ at[Bundle(u)] # Len(program)
          /\ ~ (at[Bundle(u)] > Len(program))
      BY <3>1, <3>3
    <3>5. \A i \in 3 .. Len(program) : InLevel(u, i, program[i].h)
      BY <3>2
    <3> QED
      BY <3>4, <3>5 DEF SumOf
  <2>6. SumComplete
    BY <2>1 DEF SumComplete
  <2> QED
    BY <2>1, <2>3, <2>4, <2>5, <2>6 DEF GroupInv
<1>2. Inv /\ PlanInv' /\ [Next]_vars => Inv'
  <2> SUFFICES ASSUME Running, [Next]_vars PROVE GroupInv'
    BY DEF Running, Lockstep
  <2>1. CASE UNCHANGED vars
    <3>1. UNCHANGED <<plan, pass, bid, mTempBuffer2, group>> /\ result' = result
      BY <2>1 DEF vars
    <3>2. mInputSize' = mInputSize
      BY <3>1 DEF plan
    <3>3. SumComplete'
      BY <3>1, <3>2, RunningIs DEF SumComplete
    <3> QED
      BY <3>1, <3>3, GroupKept DEF GroupInv
  <2>2. CASE NextGroup \/ NextPass
    BY <2>2, HostStep
  <2>3. CASE Return
    BY <2>3, ReturnStep
  <2>4. ASSUME NEW b \in DOMAIN at, Fill(b) \/ Load(b) \/ Store(b) \/ Write(b) \/ WaitBarrier(b)
        PROVE  GroupInv'
    <3>1. b \in Group
      BY RunningIs, GroupIs
    <3> QED
      BY <2>4, <3>1, FillStep, LoadStep, StoreStep, WriteStep, BarrierStep
  <2> QED
    BY <2>1, <2>2, <2>3, <2>4 DEF Next
<1> QED
  BY <1>1, <1>2, PlanInvariant, PTL DEF Spec

\* On a device whose bundles are at least as wide as the last warp - what the kernels
\* rely on -, whatever the size of the image and the order in which the bundles run,
\* the sum has every element of the input once and nothing else
\* (CRoutine_Sum_NVidia.cpp 151-220, reduce_sum_float_nvidia.cl).
THEOREM SumIsComplete == LastWarp <= Width => (Spec => []SumComplete)
<1>1. SUFFICES ASSUME LastWarp <= Width PROVE Spec => []SumComplete
  OBVIOUS
<1>2. Lockstep
  BY <1>1 DEF Lockstep
<1>3. (Lockstep => GroupInv) => SumComplete
  BY <1>2 DEF GroupInv
<1> QED
  BY <1>3, SumInvariant, PTL
=============================================================================
