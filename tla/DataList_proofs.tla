-------------------------- MODULE DataList_proofs --------------------------
(***************************************************************************)
(* Proofs about DataList: the device buffers of a data set live exactly as *)
(* long as the list or a thread has it, for every number of threads and    *)
(* data sets.                                                              *)
(***************************************************************************)
EXTENDS DataList, SequenceTheorems, FiniteSetTheorems, TLAPS

\* A thread that is in a critical section holds the mutex.
InCriticalSection(t) == pc[t] \in {"in1", "build", "in2"}
Exclusive == \A t \in Threads : InCriticalSection(t) => mDataMutex = t

\* The threads that may still construct a data set find room for it.
Loading == {t \in Threads : pc[t] \in {"wait1", "in1"} /\ call[t].op = "LoadData"}
RoomLeft == loads + Cardinality(Loading) <= MaxLoads

\* No data set is in the list twice.
NoRepeats(s) == \A i, j \in 1 .. Len(s) : s[i] = s[j] => i = j

\* A data set that is being constructed is known to its thread only.
Fresh ==
  \A t \in Threads : pc[t] = "build" =>
    /\ data[t] \notin ToSet(mDataList)
    /\ \A u \in Threads \ {t} : InUse(u) => data[u] # data[t]

\* What a thread has, and what the list or a thread has.
Used == {data[t] : t \in {u \in Threads : InUse(u)}}
Kept == ToSet(mDataList) \cup Used

\* What a constructor that threw left behind is nobody's.
Apart == abandoned \cap Kept = {}

\* Shared pointers are counted right.
Users(d) == {t \in Threads : pc[t] = "use" /\ data[t] = d}
Counted ==
  \A d \in 1 .. MaxLoads :
    uses[d] = (IF d \in ToSet(mDataList) THEN 1 ELSE 0) + Cardinality(Users(d))

Owned == NoRepeats(mDataList) /\ Fresh /\ Apart /\ Counted /\ MemoryMatchesUse

ListInv == TypeOK /\ Exclusive /\ RoomLeft /\ Owned
-----------------------------------------------------------------------------
(* Lists without repetition *)

\* Appending a new element adds just that one.
LEMMA AppendNew ==
  ASSUME NEW S, NEW s \in Seq(S), NEW e \in S, NoRepeats(s), e \notin ToSet(s)
  PROVE  /\ Append(s, e) \in Seq(S)
         /\ ToSet(Append(s, e)) = ToSet(s) \cup {e}
         /\ NoRepeats(Append(s, e))
<1> DEFINE z == Append(s, e)
<1>1. /\ z \in Seq(S) /\ Len(s) \in Nat /\ Len(z) = Len(s) + 1 /\ DOMAIN s = 1 .. Len(s)
      /\ DOMAIN z = 1 .. Len(s) + 1
      /\ \A i \in 1 .. Len(s) : z[i] = s[i]
      /\ z[Len(s) + 1] = e
  BY AppendProperties, LenProperties
<1> HIDE DEF z
<1>2. \A i \in 1 .. Len(s) : s[i] # e
  BY <1>1 DEF ToSet
<1>3. \A i \in 1 .. Len(z) : i \in 1 .. Len(s) \/ i = Len(s) + 1
  BY <1>1
<1>4. ToSet(z) = ToSet(s) \cup {e}
  <2>1. \A i \in 1 .. Len(s) : i \in 1 .. Len(s) + 1
    BY <1>1
  <2>2. Len(s) + 1 \in 1 .. Len(s) + 1
    BY <1>1
  <2> QED
    BY <1>1, <1>3, <2>1, <2>2 DEF ToSet
<1>5. NoRepeats(z)
  BY <1>1, <1>2, <1>3 DEF NoRepeats
<1> QED
  BY <1>1, <1>4, <1>5 DEF z

\* Erasing an element takes just that one away.
LEMMA RemoveOne ==
  ASSUME NEW S, NEW s \in Seq(S), NEW i \in 1 .. Len(s), NoRepeats(s)
  PROVE  /\ RemoveAt(s, i) \in Seq(S)
         /\ ToSet(RemoveAt(s, i)) = ToSet(s) \ {s[i]}
         /\ NoRepeats(RemoveAt(s, i))
<1> DEFINE a == SubSeq(s, 1, i - 1)
           b == SubSeq(s, i + 1, Len(s))
           z == a \o b
<1>0. Len(s) \in Nat /\ i \in Nat /\ DOMAIN s = 1 .. Len(s)
  BY LenProperties
<1>1. /\ a \in Seq(S) /\ Len(a) = i - 1
      /\ \A k \in 1 .. i - 1 : a[k] = s[k]
  BY SubSeqProperties
<1>2. /\ b \in Seq(S) /\ Len(b) = Len(s) - i
      /\ \A k \in 1 .. Len(s) - i : b[k] = s[i + k]
  BY SubSeqProperties
<1> HIDE DEF a, b
<1>3. /\ z \in Seq(S) /\ Len(z) = Len(s) - 1 /\ DOMAIN z = 1 .. Len(s) - 1
      /\ \A k \in 1 .. Len(s) - 1 : z[k] = IF k <= i - 1 THEN a[k] ELSE b[k - (i - 1)]
  <2>1. /\ z \in Seq(S) /\ Len(z) = Len(a) + Len(b)
        /\ \A k \in 1 .. Len(a) + Len(b) :
             z[k] = IF k <= Len(a) THEN a[k] ELSE b[k - Len(a)]
    BY <1>1, <1>2, ConcatProperties
  <2>2. Len(a) + Len(b) = Len(s) - 1
    BY <1>0, <1>1, <1>2
  <2> HIDE DEF z
  <2> QED
    BY <1>1, <2>1, <2>2, LenProperties
<1> HIDE DEF z
<1> DEFINE Before(k) == IF k <= i - 1 THEN k ELSE k + 1
<1>4. ASSUME NEW k \in 1 .. Len(s) - 1
      PROVE  Before(k) \in 1 .. Len(s) /\ Before(k) # i /\ z[k] = s[Before(k)]
  <2>0. k \in Nat
    OBVIOUS
  <2>1. CASE k <= i - 1
    BY <1>0, <1>1, <1>3, <2>0, <2>1
  <2>2. CASE k > i - 1
    <3>1. k - (i - 1) \in 1 .. Len(s) - i /\ k + 1 \in 1 .. Len(s) /\ i + (k - (i - 1)) = k + 1
      BY <1>0, <2>0, <2>2
    <3>2. z[k] = s[k + 1]
      BY <1>0, <1>2, <1>3, <2>2, <3>1
    <3> QED
      BY <1>0, <2>0, <2>2, <3>1, <3>2
  <2> QED
    BY <1>0, <2>0, <2>1, <2>2
<1>5. ASSUME NEW j \in 1 .. Len(s), j # i
      PROVE  \E k \in 1 .. Len(s) - 1 : z[k] = s[j]
  <2>1. CASE j < i
    <3>1. j \in 1 .. Len(s) - 1 /\ Before(j) = j
      BY <1>0, <2>1
    <3> HIDE DEF Before
    <3> QED
      BY <1>4, <3>1
  <2>2. CASE j > i
    <3>1. j - 1 \in 1 .. Len(s) - 1 /\ Before(j - 1) = j
      BY <1>0, <2>2
    <3> HIDE DEF Before
    <3> QED
      BY <1>4, <3>1
  <2> QED
    BY <1>0, <1>5, <2>1, <2>2
<1>6. \A k, l \in 1 .. Len(s) - 1 : Before(k) = Before(l) => k = l
  BY <1>0
<1> HIDE DEF Before
<1>7. NoRepeats(z)
  BY <1>3, <1>4, <1>6 DEF NoRepeats
<1>8. ToSet(z) = ToSet(s) \ {s[i]}
  <2>1. ToSet(z) \subseteq ToSet(s) \ {s[i]}
    BY <1>0, <1>3, <1>4 DEF ToSet, NoRepeats
  <2>2. ToSet(s) \ {s[i]} \subseteq ToSet(z)
    <3> SUFFICES ASSUME NEW x \in ToSet(s), x # s[i]
                 PROVE  x \in ToSet(z)
      OBVIOUS
    <3>1. PICK j \in 1 .. Len(s) : s[j] = x
      BY <1>0 DEF ToSet
    <3>2. PICK k \in 1 .. Len(s) - 1 : z[k] = s[j]
      BY <1>5, <3>1
    <3> QED
      BY <1>3, <3>1, <3>2 DEF ToSet
  <2> QED
    BY <2>1, <2>2
<1> QED
  BY <1>3, <1>7, <1>8 DEF RemoveAt, a, b, z

\* The elements of the list are data sets.
LEMMA ListElements ==
  ASSUME TypeOK
  PROVE  /\ Len(mDataList) \in Nat
         /\ \A i \in 1 .. Len(mDataList) :
              mDataList[i] \in 1 .. MaxLoads /\ mDataList[i] \in ToSet(mDataList)
         /\ ToSet(mDataList) \subseteq 1 .. MaxLoads
<1>1. mDataList \in Seq(1 .. MaxLoads)
  BY DEF TypeOK
<1>2. /\ Len(mDataList) \in Nat /\ DOMAIN mDataList = 1 .. Len(mDataList)
      /\ \A i \in 1 .. Len(mDataList) : mDataList[i] \in 1 .. MaxLoads
  BY <1>1, LenProperties, ElementOfSeq
<1> QED
  BY <1>2 DEF ToSet
-----------------------------------------------------------------------------
(* What a step leaves alone *)

\* Sets of threads are finite.
LEMMA ThreadSets ==
  ASSUME NEW U \in SUBSET Threads
  PROVE  IsFiniteSet(U) /\ Cardinality(U) \in Nat
BY ThreadsAssumption, FS_Subset, FS_CardinalityType

\* Whoever has a data set keeps it, and the list, the pointers and the buffers
\* are as they were.
LEMMA SameOwners ==
  ASSUME Owned, UNCHANGED <<mDataList, uses, allocated, abandoned>>,
         \A t \in Threads : /\ pc'[t] = "build" <=> pc[t] = "build"
                            /\ pc'[t] = "use" <=> pc[t] = "use"
                            /\ InUse(t) => data'[t] = data[t]
  PROVE  Owned'
<1>1. \A t \in Threads : InUse(t)' <=> InUse(t)
  BY DEF InUse
<1>2. Used' = Used
  BY <1>1 DEF Used
<1>3. \A d : Users(d)' = Users(d)
  BY DEF Users, InUse
<1>4. Fresh'
  BY <1>1 DEF Owned, Fresh, InUse
<1>5. Apart'
  BY <1>2 DEF Owned, Apart, Kept
<1>6. Counted'
  BY <1>3 DEF Owned, Counted
<1>7. MemoryMatchesUse'
  BY <1>2 DEF Owned, MemoryMatchesUse, Used
<1> QED
  BY <1>4, <1>5, <1>6, <1>7 DEF Owned

\* A return keeps the types of what it writes.
PCs == {"idle", "wait1", "in1", "build", "wait2", "in2", "use"}
Results == [out : {"ok", "refused", "throw", "undefined"}, index : Int]
LEMMA ReturnType ==
  ASSUME TypeOK, NEW t \in Threads, NEW index \in Int,
         NEW out \in {"ok", "refused", "throw", "undefined"}, Returns(t, out, index)
  PROVE  /\ pc' = [pc EXCEPT ![t] = "idle"]
         /\ pc' \in [Threads -> PCs] /\ result' \in [Threads -> Results]
<1> DEFINE r == [out |-> out, index |-> index]
<1>1. r \in Results
  BY DEF Results
<1> HIDE DEF r
<1>2. result' = [result EXCEPT ![t] = r] /\ pc' = [pc EXCEPT ![t] = "idle"]
  BY DEF Returns, Goes, r
<1>3. result \in [Threads -> Results] /\ pc \in [Threads -> PCs]
  BY DEF TypeOK, Results, PCs
<1> QED
  BY <1>1, <1>2, <1>3 DEF PCs

\* Room is left if nothing is constructed and no thread begins to load.
LEMMA SameRoom ==
  ASSUME TypeOK, RoomLeft, loads' = loads, Loading' \subseteq Loading
  PROVE  RoomLeft'
<1>1. Loading \subseteq Threads
  BY DEF Loading
<1>2. Cardinality(Loading') <= Cardinality(Loading) /\ Cardinality(Loading) \in Nat
      /\ Cardinality(Loading') \in Nat
  BY <1>1, ThreadSets, FS_Subset
<1> QED
  BY <1>2, ListAssumption DEF RoomLeft, TypeOK

\* The data sets that are kept have been constructed.
LEMMA KeptAreLoaded ==
  ASSUME TypeOK, Owned
  PROVE  /\ allocated = Kept \cup abandoned /\ Kept \subseteq 1 .. loads
         /\ 1 .. loads \subseteq 1 .. MaxLoads
         /\ \A t \in Threads : InUse(t) => data[t] \in Used
BY ListAssumption DEF TypeOK, Owned, MemoryMatchesUse, Kept, Used
-----------------------------------------------------------------------------
(* The steps *)

LEMMA StartStep ==
  ASSUME ListInv, NEW t \in Threads, Start(t)
  PROVE  ListInv'
<1> USE DEF ListInv
<1>1. PICK op \in Ops, i \in 0 .. MaxLoads - 1 :
        /\ op = "LoadData" => MayLoad /\ i = 0
        /\ call' = [call EXCEPT ![t] = [op |-> op, i |-> i]]
  BY DEF Start
<1>2. pc[t] = "idle" /\ pc' = [pc EXCEPT ![t] = "wait1"]
  BY DEF Start, Goes
<1>3. TypeOK'
  <2>1. i \in 0 .. MaxLoads
    BY ListAssumption
  <2> QED
    BY <1>1, <1>2, <2>1 DEF Start, TypeOK, memory
<1>4. Exclusive'
  BY <1>2 DEF Start, Exclusive, InCriticalSection, TypeOK
<1>5. Owned'
  <2>1. Owned /\ UNCHANGED <<mDataList, uses, allocated, abandoned, data>>
    BY DEF Start, memory
  <2> QED
    BY <1>2, <2>1, SameOwners DEF TypeOK
<1>6. RoomLeft'
  <2>1. loads' = loads
    BY DEF Start, memory
  <2>2. CASE op # "LoadData"
    <3>1. Loading' \subseteq Loading
      BY <1>1, <1>2, <2>2 DEF Loading, TypeOK
    <3> QED
      BY <2>1, <3>1, SameRoom
  <2>3. CASE op = "LoadData"
    <3>1. loads + Cardinality(Loading) < MaxLoads
      BY <1>1, <2>3 DEF MayLoad, Loading
    <3>2. Loading' = Loading \cup {t}
      BY <1>1, <1>2, <2>3 DEF Loading, TypeOK
    <3>3. IsFiniteSet(Loading) /\ Cardinality(Loading) \in Nat
      BY ThreadSets DEF Loading
    <3>4. Cardinality(Loading \cup {t})
            = IF t \in Loading THEN Cardinality(Loading) ELSE Cardinality(Loading) + 1
      BY <3>3, FS_AddElement
    <3>5. Cardinality(Loading') \in {Cardinality(Loading), Cardinality(Loading) + 1}
      BY <3>2, <3>4
    <3> QED
      BY <2>1, <3>1, <3>3, <3>5, ListAssumption DEF RoomLeft, TypeOK
  <2> QED
    BY <2>2, <2>3
<1> QED
  BY <1>3, <1>4, <1>5, <1>6

LEMMA LockStep ==
  ASSUME ListInv, NEW t \in Threads, Lock(t)
  PROVE  ListInv'
<1> USE DEF ListInv
<1>1. \/ pc[t] = "wait1" /\ pc' = [pc EXCEPT ![t] = "in1"]
      \/ pc[t] = "wait2" /\ pc' = [pc EXCEPT ![t] = "in2"]
  BY DEF Lock, Goes
<1>2. TypeOK'
  BY <1>1 DEF Lock, TypeOK, memory
<1>3. Exclusive'
  <2>1. mDataMutex = NoThread /\ mDataMutex' = t
    BY DEF Lock
  <2>2. \A u \in Threads : ~InCriticalSection(u)
    BY <2>1, ThreadsAssumption DEF Exclusive
  <2> QED
    BY <1>1, <2>1, <2>2 DEF Exclusive, InCriticalSection, TypeOK
<1>4. Owned'
  <2>1. Owned /\ UNCHANGED <<mDataList, uses, allocated, abandoned, data>>
    BY DEF Lock, memory
  <2> QED
    BY <1>1, <2>1, SameOwners DEF TypeOK
<1>5. RoomLeft'
  <2>1. loads' = loads /\ Loading' \subseteq Loading
    BY <1>1 DEF Lock, memory, Loading, TypeOK
  <2> QED
    BY <2>1, SameRoom
<1> QED
  BY <1>2, <1>3, <1>4, <1>5

\* The list changes only under the mutex.
LEMMA UnlockedExclusive ==
  ASSUME TypeOK, Exclusive, NEW t \in Threads, InCriticalSection(t),
         NEW to \in {"idle", "wait2", "use"},
         pc' = [pc EXCEPT ![t] = to]
  PROVE  Exclusive'
<1>1. \A u \in Threads \ {t} : ~InCriticalSection(u)
  BY DEF Exclusive
<1>2. \A u \in Threads : ~InCriticalSection(u)'
  BY <1>1 DEF InCriticalSection, TypeOK
<1> QED
  BY <1>2 DEF Exclusive

LEMMA ConstructStep ==
  ASSUME ListInv, NEW t \in Threads, Construct(t)
  PROVE  ListInv'
<1> USE DEF ListInv
<1> DEFINE d == loads + 1
<1>1. /\ pc[t] = "in1" /\ call[t].op = "LoadData" /\ pc' = [pc EXCEPT ![t] = "build"]
      /\ loads' = d /\ allocated' = allocated \cup {d} /\ data' = [data EXCEPT ![t] = d]
      /\ UNCHANGED <<mDataList, mDataMutex, uses, abandoned, call, disturbed, result, dead>>
  BY DEF Construct, Goes
<1>2. RoomLeft' /\ d <= MaxLoads
  <2>1. Loading' = Loading \ {t} /\ t \in Loading
    BY <1>1 DEF Loading, TypeOK
  <2>2. IsFiniteSet(Loading) /\ Cardinality(Loading) \in Nat
    BY ThreadSets DEF Loading
  <2>3. Cardinality(Loading \ {t}) = Cardinality(Loading) - 1
    BY <2>1, <2>2, FS_RemoveElement
  <2>4. Cardinality(Loading') = Cardinality(Loading) - 1 /\ Cardinality(Loading') \in Nat
    <3>1. Cardinality(Loading') \in Nat
      BY <2>1, ThreadSets DEF Loading
    <3> QED
      BY <2>1, <2>3, <3>1
  <2> QED
    BY <1>1, <2>2, <2>4, ListAssumption DEF RoomLeft, TypeOK
<1>3. TypeOK'
  <2>1. loads \in Nat /\ d \in 0 .. MaxLoads /\ 1 .. loads \subseteq 1 .. d /\ d \in 1 .. d
    BY <1>2, ListAssumption DEF TypeOK
  <2> HIDE DEF d
  <2> QED
    BY <1>1, <2>1 DEF TypeOK
<1>4. Exclusive'
  BY <1>1 DEF Exclusive, InCriticalSection, TypeOK
<1>5. Owned'
  <2>1. d \notin 1 .. loads /\ d \in Nat
    BY DEF TypeOK
  <2> HIDE DEF d
  <2>2. d \notin Kept /\ d \notin allocated /\ d \notin abandoned
    BY <2>1, KeptAreLoaded DEF TypeOK
  <2>3. \A u \in Threads : /\ InUse(u) => data[u] # d /\ u # t
                           /\ InUse(u)' <=> InUse(u) \/ u = t
                           /\ data'[u] = IF u = t THEN d ELSE data[u]
    <3>1. \A u \in Threads : InUse(u) => data[u] # d
      BY <2>2, KeptAreLoaded DEF Kept
    <3> QED
      BY <1>1, <3>1 DEF InUse, TypeOK
  <2>4. Used' = Used \cup {d}
    BY <2>3 DEF Used
  <2>5. \A e : Users(e)' = Users(e)
    BY <1>1 DEF Users, TypeOK
  <2>6. NoRepeats(mDataList)'
    BY <1>1 DEF Owned, NoRepeats
  <2>7. Fresh'
    <3>1. d \notin ToSet(mDataList)
      BY <2>2 DEF Kept
    <3>2. \A u \in Threads : pc'[u] = "build" => u = t \/ pc[u] = "build"
      BY <1>1 DEF TypeOK
    <3>3. \A u \in Threads : pc[u] = "build" => InUse(u)
      BY DEF InUse
    <3> QED
      BY <1>1, <2>3, <3>1, <3>2, <3>3 DEF Owned, Fresh
  <2>8. Apart'
    BY <1>1, <2>2, <2>4 DEF Owned, Apart, Kept
  <2>9. Counted'
    BY <1>1, <2>5 DEF Owned, Counted
  <2>10. MemoryMatchesUse'
    BY <1>1, <2>4 DEF Owned, MemoryMatchesUse, Used
  <2> QED
    BY <2>6, <2>7, <2>8, <2>9, <2>10 DEF Owned
<1> QED
  BY <1>2, <1>3, <1>4, <1>5

LEMMA ConstructorThrowsStep ==
  ASSUME ListInv, NEW t \in Threads, ConstructorThrows(t)
  PROVE  ListInv'
<1> USE DEF ListInv
<1>1. /\ pc[t] \in {"in1", "build"} /\ pc' = [pc EXCEPT ![t] = "idle"]
      /\ mDataMutex' = NoThread
      /\ pc' \in [Threads -> PCs] /\ result' \in [Threads -> Results]
      /\ UNCHANGED <<mDataList, loads, uses, allocated, call, disturbed, dead>>
  BY ReturnType DEF ConstructorThrows, Unlock, MutexAfter
<1>2. Exclusive'
  BY <1>1, UnlockedExclusive DEF InCriticalSection
<1>3. RoomLeft'
  <2>1. Loading' \subseteq Loading
    BY <1>1 DEF Loading, TypeOK
  <2> QED
    BY <1>1, <2>1, SameRoom
<1>4. CASE pc[t] = "in1"
  <2>1. UNCHANGED <<abandoned, data>>
    BY <1>4 DEF ConstructorThrows
  <2>2. TypeOK'
    BY <1>1, <2>1 DEF TypeOK, PCs, Results
  <2>3. Owned'
    BY <1>1, <1>4, <2>1, SameOwners DEF TypeOK
  <2> QED
    BY <1>2, <1>3, <2>2, <2>3
<1>5. CASE pc[t] = "build"
  <2> DEFINE d == data[t]
  <2>1. abandoned' = abandoned \cup {d} /\ data' = [data EXCEPT ![t] = NoSet]
    BY <1>5 DEF ConstructorThrows
  <2>2. InUse(t) /\ d \in Used /\ d \in 1 .. loads
    BY <1>5, KeptAreLoaded DEF InUse, Kept
  <2>3. TypeOK'
    <3>1. abandoned' \subseteq 1 .. loads
      BY <2>1, <2>2 DEF TypeOK
    <3>2. data' \in [Threads -> 0 .. MaxLoads]
      BY <2>1, ListAssumption DEF TypeOK, NoSet
    <3> QED
      BY <1>1, <3>1, <3>2 DEF TypeOK, PCs, Results
  <2>4. \A u \in Threads : /\ InUse(u)' <=> InUse(u) /\ u # t
                           /\ u # t => data'[u] = data[u]
                           /\ InUse(u) /\ u # t => data[u] # d
    BY <1>1, <1>5, <2>1 DEF InUse, TypeOK, Owned, Fresh
  <2>5. d \notin ToSet(mDataList)
    BY <1>5 DEF Owned, Fresh
  <2> HIDE DEF d
  <2>6. Used' = Used \ {d}
    <3>1. Used' \subseteq Used \ {d}
      BY <2>4 DEF Used
    <3>2. Used \ {d} \subseteq Used'
      BY <2>4 DEF Used, d
    <3> QED
      BY <3>1, <3>2
  <2>7. \A e : Users(e)' = Users(e)
    BY <1>1, <1>5, <2>1 DEF Users, TypeOK
  <2>8. NoRepeats(mDataList)' /\ Counted'
    BY <1>1, <2>7 DEF Owned, NoRepeats, Counted
  <2>9. Fresh'
    <3>1. \A u \in Threads : pc'[u] = "build" => u # t /\ pc[u] = "build"
      BY <1>1 DEF TypeOK
    <3> QED
      BY <1>1, <2>4, <3>1 DEF Owned, Fresh
  <2>10. Apart' /\ MemoryMatchesUse'
    BY <1>1, <2>1, <2>2, <2>5, <2>6 DEF Owned, Apart, Kept, MemoryMatchesUse, Used
  <2> QED
    BY <1>2, <1>3, <2>3, <2>8, <2>9, <2>10 DEF Owned
<1> QED
  BY <1>1, <1>4, <1>5

LEMMA PushBackStep ==
  ASSUME ListInv, NEW t \in Threads, PushBack(t)
  PROVE  ListInv'
<1> USE DEF ListInv
<1> DEFINE d == data[t]
<1>1. /\ pc[t] = "build" /\ pc' = [pc EXCEPT ![t] = "wait2"]
      /\ mDataMutex' = NoThread
      /\ mDataList' = Append(mDataList, d) /\ uses' = [uses EXCEPT ![d] = 1]
      /\ disturbed' \in [Threads -> BOOLEAN]
      /\ UNCHANGED <<loads, allocated, abandoned, call, data, result, dead>>
  BY DEF PushBack, Unlock, MutexAfter, Goes, Disturbs, TypeOK
<1>2. InUse(t) /\ d \in Used /\ d \in 1 .. MaxLoads
  BY <1>1, KeptAreLoaded DEF InUse, Kept
<1>3. d \notin ToSet(mDataList) /\ \A u \in Threads \ {t} : InUse(u) => data[u] # d
  BY <1>1 DEF Owned, Fresh
<1> HIDE DEF d
<1>4. /\ mDataList' \in Seq(1 .. MaxLoads)
      /\ ToSet(mDataList)' = ToSet(mDataList) \cup {d}
      /\ NoRepeats(mDataList)'
  <2>1. mDataList \in Seq(1 .. MaxLoads) /\ NoRepeats(mDataList)
    BY DEF TypeOK, Owned
  <2>2. /\ Append(mDataList, d) \in Seq(1 .. MaxLoads)
        /\ ToSet(Append(mDataList, d)) = ToSet(mDataList) \cup {d}
        /\ NoRepeats(Append(mDataList, d))
    BY <1>2, <1>3, <2>1, AppendNew
  <2> QED
    BY <1>1, <2>2 DEF NoRepeats
<1>5. TypeOK'
  BY <1>1, <1>2, <1>4 DEF TypeOK
<1>6. Exclusive'
  BY <1>1, UnlockedExclusive DEF InCriticalSection
<1>7. RoomLeft'
  <2>1. Loading' \subseteq Loading
    BY <1>1 DEF Loading, TypeOK
  <2> QED
    BY <1>1, <2>1, SameRoom
<1>8. \A u \in Threads : InUse(u)' <=> InUse(u) /\ u # t
  BY <1>1 DEF InUse, TypeOK
<1>9. Kept' = Kept
  <2>1. Used' = Used \ {d}
    BY <1>1, <1>3, <1>8 DEF Used, d
  <2> QED
    BY <1>2, <1>4, <2>1 DEF Kept
<1>10. Fresh'
  <2>1. \A u \in Threads : pc'[u] = "build" => u # t /\ pc[u] = "build"
    BY <1>1 DEF TypeOK
  <2>2. \A u \in Threads : pc[u] = "build" => InUse(u)
    BY DEF InUse
  <2> QED
    BY <1>1, <1>3, <1>4, <1>8, <2>1, <2>2 DEF Owned, Fresh
<1>11. Apart' /\ MemoryMatchesUse'
  BY <1>1, <1>9 DEF Owned, Apart, MemoryMatchesUse, Kept, Used
<1>12. Counted'
  <2>1. Users(d) = {}
    BY <1>1, <1>3 DEF Users, InUse
  <2>2. \A e : Users(e)' = Users(e)
    BY <1>1 DEF Users, TypeOK
  <2>3. Cardinality(Users(d)) = 0
    BY <2>1, FS_EmptySet
  <2> SUFFICES ASSUME NEW e \in 1 .. MaxLoads
               PROVE  uses'[e] = (IF e \in ToSet(mDataList)' THEN 1 ELSE 0)
                                 + Cardinality(Users(e)')
    BY DEF Counted
  <2>4. CASE e = d
    BY <1>1, <1>2, <1>4, <2>2, <2>3, <2>4 DEF TypeOK
  <2>5. CASE e # d
    BY <1>1, <1>4, <2>2, <2>5 DEF TypeOK, Owned, Counted
  <2> QED
    BY <2>4, <2>5
<1> QED
  BY <1>4, <1>5, <1>6, <1>7, <1>10, <1>11, <1>12 DEF Owned

LEMMA LoadIndexStep ==
  ASSUME ListInv, NEW t \in Threads, LoadIndex(t)
  PROVE  ListInv'
<1> USE DEF ListInv
<1>1. /\ pc[t] = "in2" /\ pc' = [pc EXCEPT ![t] = "idle"] /\ mDataMutex' = NoThread
      /\ pc' \in [Threads -> PCs] /\ result' \in [Threads -> Results]
      /\ data' = [data EXCEPT ![t] = NoSet]
      /\ UNCHANGED <<mDataList, loads, uses, allocated, abandoned, call, disturbed, dead>>
  <2>1. Len(mDataList) - 1 \in Int
    BY ListElements
  <2> QED
    BY <2>1, ReturnType DEF LoadIndex, Unlock, MutexAfter, memory
<1>2. TypeOK'
  <2>1. data' \in [Threads -> 0 .. MaxLoads]
    BY <1>1, ListAssumption DEF TypeOK, NoSet
  <2> QED
    BY <1>1, <2>1 DEF TypeOK, PCs, Results
<1>3. Exclusive'
  BY <1>1, UnlockedExclusive DEF InCriticalSection
<1>4. RoomLeft'
  <2>1. Loading' \subseteq Loading
    BY <1>1 DEF Loading, TypeOK
  <2> QED
    BY <1>1, <2>1, SameRoom
<1>5. Owned'
  BY <1>1, SameOwners DEF TypeOK, InUse
<1> QED
  BY <1>2, <1>3, <1>4, <1>5

LEMMA SizeStep ==
  ASSUME ListInv, NEW t \in Threads, Size(t)
  PROVE  ListInv'
<1> USE DEF ListInv
<1>1. /\ pc[t] = "in1" /\ mDataMutex' = NoThread
      /\ UNCHANGED <<mDataList, loads, uses, allocated, abandoned, call, data, disturbed, dead>>
      /\ pc' = [pc EXCEPT ![t] = "wait2"] \/ pc' = [pc EXCEPT ![t] = "idle"]
      /\ pc' \in [Threads -> PCs] /\ result' \in [Threads -> Results]
  <2>1. CASE Returns(t, "refused", 0)
    BY <2>1, ReturnType DEF Size, Unlock, MutexAfter, memory
  <2>2. CASE Goes(t, "wait2") /\ UNCHANGED result
    BY <2>2 DEF Size, Unlock, MutexAfter, memory, Goes, TypeOK, PCs, Results
  <2> QED
    BY <2>1, <2>2 DEF Size
<1>2. TypeOK'
  BY <1>1 DEF TypeOK, PCs, Results
<1>3. Exclusive'
  BY <1>1, UnlockedExclusive DEF InCriticalSection
<1>4. RoomLeft'
  <2>1. Loading' \subseteq Loading
    BY <1>1 DEF Loading, TypeOK
  <2> QED
    BY <1>1, <2>1, SameRoom
<1>5. Owned'
  BY <1>1, SameOwners DEF TypeOK
<1> QED
  BY <1>2, <1>3, <1>4, <1>5

LEMMA AtStep ==
  ASSUME ListInv, NEW t \in Threads, At(t)
  PROVE  ListInv'
<1> USE DEF ListInv
<1>1. /\ pc[t] = "in2" /\ mDataMutex' = NoThread
      /\ UNCHANGED <<mDataList, loads, allocated, abandoned, call, disturbed, dead>>
  BY DEF At, Unlock, MutexAfter
<1>2. CASE ~InList(t)
  <2>1. /\ pc' = [pc EXCEPT ![t] = "idle"] /\ UNCHANGED <<data, uses>>
        /\ pc' \in [Threads -> PCs] /\ result' \in [Threads -> Results]
    BY <1>2, ReturnType DEF At
  <2>2. TypeOK'
    BY <1>1, <2>1 DEF TypeOK, PCs, Results
  <2>3. Exclusive'
    BY <1>1, <2>1, UnlockedExclusive DEF InCriticalSection
  <2>4. RoomLeft'
    <3>1. Loading' \subseteq Loading
      BY <1>1, <2>1 DEF Loading, TypeOK
    <3> QED
      BY <1>1, <3>1, SameRoom
  <2>5. Owned'
    BY <1>1, <2>1, SameOwners DEF TypeOK
  <2> QED
    BY <2>2, <2>3, <2>4, <2>5
<1>3. CASE InList(t)
  <2>1. PICK d \in 1 .. MaxLoads : d = Named(t) /\ d \in ToSet(mDataList)
    <3>1. call[t].i \in 0 .. MaxLoads
      BY DEF TypeOK
    <3>2. call[t].i + 1 \in 1 .. Len(mDataList)
      BY <1>3, <3>1, ListElements, ListAssumption DEF InList
    <3> QED
      BY <3>2, ListElements DEF Named
  <2>2. /\ pc' = [pc EXCEPT ![t] = "use"] /\ UNCHANGED result
        /\ data' = [data EXCEPT ![t] = d]
    BY <1>3, <2>1 DEF At, Goes
  <2>3. PICK n \in Nat : n = uses[d] + 1
    <3>1. uses[d] \in Nat
      BY ListElements DEF TypeOK
    <3> QED
      BY <3>1
  <2>4. uses' = [uses EXCEPT ![d] = n]
    <3>1. uses' = [uses EXCEPT ![Named(t)] = uses[Named(t)] + 1]
      BY <1>3 DEF At, PointerCopy
    <3> QED
      BY <2>1, <2>3, <3>1
  <2>5. TypeOK'
    <3>1. uses' \in [1 .. MaxLoads -> Nat]
      BY <2>3, <2>4 DEF TypeOK
    <3>2. data' \in [Threads -> 0 .. MaxLoads]
      BY <2>2 DEF TypeOK
    <3> QED
      BY <1>1, <2>2, <3>1, <3>2 DEF TypeOK
  <2>6. Exclusive'
    BY <1>1, <2>2, UnlockedExclusive DEF InCriticalSection
  <2>7. RoomLeft'
    <3>1. Loading' \subseteq Loading
      BY <1>1, <2>2 DEF Loading, TypeOK
    <3> QED
      BY <1>1, <3>1, SameRoom
  <2>8. \A u \in Threads : /\ InUse(u)' <=> InUse(u) \/ u = t
                           /\ data'[u] = IF u = t THEN d ELSE data[u]
                           /\ pc'[u] = "build" <=> pc[u] = "build"
    BY <1>1, <2>2 DEF InUse, TypeOK
  <2>9. ~InUse(t) /\ pc[t] # "build"
    BY <1>1 DEF InUse
  <2>10. Kept' = Kept
    <3>1. Used' = Used \cup {d}
      BY <2>8, <2>9 DEF Used
    <3> QED
      BY <1>1, <2>1, <3>1 DEF Kept
  <2>11. NoRepeats(mDataList)'
    BY <1>1 DEF Owned, NoRepeats
  <2>12. Apart' /\ MemoryMatchesUse'
    BY <1>1, <2>10 DEF Owned, Apart, MemoryMatchesUse, Kept, Used
  <2>13. Fresh'
    BY <1>1, <2>1, <2>8, <2>9 DEF Owned, Fresh
  <2>14. Counted'
    <3>1. Users(d)' = Users(d) \cup {t} /\ t \notin Users(d)
      BY <1>1, <2>2 DEF Users, TypeOK
    <3>2. \A e \in 1 .. MaxLoads : e # d => Users(e)' = Users(e)
      BY <1>1, <2>2 DEF Users, TypeOK
    <3>3. IsFiniteSet(Users(d)) /\ Cardinality(Users(d)) \in Nat
      BY ThreadSets DEF Users
    <3>4. Cardinality(Users(d) \cup {t}) = Cardinality(Users(d)) + 1
      BY <3>1, <3>3, FS_AddElement
    <3> SUFFICES ASSUME NEW e \in 1 .. MaxLoads
                 PROVE  uses'[e] = (IF e \in ToSet(mDataList)' THEN 1 ELSE 0)
                                   + Cardinality(Users(e)')
      BY DEF Counted
    <3>5. uses[e] = (IF e \in ToSet(mDataList) THEN 1 ELSE 0) + Cardinality(Users(e))
      BY DEF Owned, Counted
    <3>6. CASE e = d
      <4>1. uses'[d] = uses[d] + 1 /\ uses[d] = 1 + Cardinality(Users(d))
        BY <2>1, <2>3, <2>4, <3>5, <3>6 DEF TypeOK
      <4>2. Cardinality(Users(d)') = Cardinality(Users(d)) + 1
        BY <3>1, <3>4
      <4>3. uses'[d] = 1 + Cardinality(Users(d)')
        BY <3>3, <4>1, <4>2
      <4> QED
        BY <1>1, <2>1, <3>6, <4>3
    <3>7. CASE e # d
      BY <1>1, <2>4, <3>2, <3>5, <3>7 DEF TypeOK
    <3> QED
      BY <3>6, <3>7
  <2> QED
    BY <2>5, <2>6, <2>7, <2>11, <2>12, <2>13, <2>14 DEF Owned
<1> QED
  BY <1>2, <1>3

\* Dropping a pointer to a data set that is counted right frees its buffers
\* exactly if nothing else keeps it.
LEMMA DropPointer ==
  ASSUME TypeOK, Owned, NEW d \in 1 .. MaxLoads, Drop(d),
         NEW users \in SUBSET Threads, NEW inList \in {0, 1},
         uses[d] = inList + Cardinality(users) + 1
  PROVE  /\ uses' \in [1 .. MaxLoads -> Nat]
         /\ uses'[d] = inList + Cardinality(users)
         /\ \A e \in 1 .. MaxLoads : e # d => uses'[e] = uses[e]
         /\ allocated' = IF inList = 0 /\ users = {} THEN allocated \ {d} ELSE allocated
<1>1. IsFiniteSet(users) /\ Cardinality(users) \in Nat
  BY ThreadSets
<1>2. Cardinality(users) = 0 <=> users = {}
  BY <1>1, FS_EmptySet
<1>3. PICK n \in Nat : n = inList + Cardinality(users)
  <2>1. inList + Cardinality(users) \in Nat
    BY <1>1
  <2> QED
    BY <2>1
<1>4. uses[d] - 1 = n /\ (uses[d] = 1 <=> inList = 0 /\ users = {})
  BY <1>1, <1>2, <1>3
<1>5. uses' = [uses EXCEPT ![d] = n]
  <2>1. uses' = [uses EXCEPT ![d] = uses[d] - 1]
    BY DEF Drop
  <2> QED
    BY <1>4, <2>1
<1> QED
  BY <1>3, <1>4, <1>5 DEF TypeOK, Drop

LEMMA UseStep ==
  ASSUME ListInv, NEW t \in Threads, Use(t)
  PROVE  ListInv'
<1> USE DEF ListInv
<1>1. /\ pc[t] = "use" /\ InUse(t)
      /\ pc' = [pc EXCEPT ![t] = "idle"] /\ data' = [data EXCEPT ![t] = NoSet]
      /\ pc' \in [Threads -> PCs] /\ result' \in [Threads -> Results]
      /\ UNCHANGED <<mDataList, mDataMutex, loads, abandoned, call, disturbed, dead>>
  BY ReturnType DEF Use, InUse
<1>2. PICK d \in 1 .. MaxLoads : d = data[t] /\ d \in Kept
  BY <1>1, KeptAreLoaded DEF Kept
<1>3. PICK inList \in {0, 1} : inList = IF d \in ToSet(mDataList) THEN 1 ELSE 0
  OBVIOUS
<1> DEFINE users == Users(d) \ {t}
<1>4. t \in Users(d) /\ users \in SUBSET Threads
  BY <1>1, <1>2 DEF Users
<1>5. uses[d] = inList + Cardinality(users) + 1
  <2>1. IsFiniteSet(Users(d)) /\ Cardinality(Users(d)) \in Nat
    BY ThreadSets DEF Users
  <2>2. Cardinality(users) = Cardinality(Users(d)) - 1
    BY <1>4, <2>1, FS_RemoveElement
  <2>3. uses[d] = inList + Cardinality(Users(d))
    BY <1>3 DEF Owned, Counted
  <2> HIDE DEF users
  <2> QED
    BY <2>1, <2>2, <2>3
<1>6. Drop(d)
  BY <1>2 DEF Use
<1> HIDE DEF users
<1>7. /\ uses' \in [1 .. MaxLoads -> Nat]
      /\ uses'[d] = inList + Cardinality(users)
      /\ \A e \in 1 .. MaxLoads : e # d => uses'[e] = uses[e]
      /\ allocated' = IF inList = 0 /\ users = {} THEN allocated \ {d} ELSE allocated
  BY <1>4, <1>5, <1>6, DropPointer
<1>8. TypeOK'
  <2>1. data' \in [Threads -> 0 .. MaxLoads]
    BY <1>1, ListAssumption DEF TypeOK, NoSet
  <2>2. allocated' \subseteq 1 .. loads'
    BY <1>1, <1>7 DEF TypeOK
  <2> QED
    BY <1>1, <1>7, <2>1, <2>2 DEF TypeOK, PCs, Results
<1>9. Exclusive'
  BY <1>1 DEF Exclusive, InCriticalSection, TypeOK
<1>10. RoomLeft'
  <2>1. Loading' \subseteq Loading
    BY <1>1 DEF Loading, TypeOK
  <2> QED
    BY <1>1, <2>1, SameRoom
<1>11. \A u \in Threads : /\ InUse(u)' <=> InUse(u) /\ u # t
                          /\ u # t => data'[u] = data[u]
                          /\ pc'[u] = "build" <=> pc[u] = "build"
  BY <1>1 DEF InUse, TypeOK
<1>12. \A u \in Threads : pc[u] = "build" => data[u] # d
  BY <1>1, <1>2 DEF Owned, Fresh
<1>13. users = {u \in Threads : InUse(u) /\ u # t /\ data[u] = d}
  BY <1>12 DEF users, Users, InUse
<1>14. Kept' = IF inList = 0 /\ users = {} THEN Kept \ {d} ELSE Kept
  <2>1. Used' = {data[u] : u \in {v \in Threads : InUse(v) /\ v # t}}
    BY <1>11 DEF Used
  <2>2. Used \ {d} \subseteq Used' /\ Used' \subseteq Used
    BY <1>2, <2>1 DEF Used
  <2>3. d \in Used' <=> users # {}
    BY <1>13, <2>1
  <2>4. ToSet(mDataList)' = ToSet(mDataList)
    BY <1>1
  <2> QED
    BY <1>2, <1>3, <2>2, <2>3, <2>4 DEF Kept
<1>15. Apart' /\ MemoryMatchesUse'
  <2>1. allocated = Kept \cup abandoned /\ abandoned \cap Kept = {}
    BY KeptAreLoaded DEF Owned, Apart
  <2>2. allocated' = Kept' \cup abandoned
    BY <1>2, <1>7, <1>14, <2>1
  <2>3. abandoned' \cap Kept' = {}
    BY <1>1, <1>14, <2>1
  <2>4. allocated' = ToSet(mDataList)' \cup Used' \cup abandoned'
    BY <1>1, <2>2 DEF Kept
  <2> QED
    BY <2>3, <2>4 DEF Apart, MemoryMatchesUse, Used
<1>16. NoRepeats(mDataList)' /\ Fresh'
  BY <1>1, <1>11 DEF Owned, NoRepeats, Fresh, InUse
<1>17. Counted'
  <2>1. Users(d)' = users
    BY <1>1, <1>2 DEF Users, users, TypeOK
  <2>2. \A e \in 1 .. MaxLoads : e # d => Users(e)' = Users(e)
    BY <1>1, <1>2 DEF Users, TypeOK
  <2> SUFFICES ASSUME NEW e \in 1 .. MaxLoads
               PROVE  uses'[e] = (IF e \in ToSet(mDataList)' THEN 1 ELSE 0)
                                 + Cardinality(Users(e)')
    BY DEF Counted
  <2>3. CASE e = d
    BY <1>1, <1>3, <1>7, <2>1, <2>3
  <2>4. CASE e # d
    <3>1. uses[e] = (IF e \in ToSet(mDataList) THEN 1 ELSE 0) + Cardinality(Users(e))
      BY DEF Owned, Counted
    <3> QED
      BY <1>1, <1>7, <2>2, <2>4, <3>1
  <2> QED
    BY <2>3, <2>4
<1> QED
  BY <1>8, <1>9, <1>10, <1>15, <1>16, <1>17 DEF Owned

\* Calls that end with the list, the pointers and the buffers as they were.
LEMMA EndsUnchanged ==
  ASSUME ListInv, NEW t \in Threads, pc[t] = "in2", pc' = [pc EXCEPT ![t] = "idle"],
         pc' \in [Threads -> PCs], result' \in [Threads -> Results], dead' \in BOOLEAN,
         mDataMutex' \in {mDataMutex, NoThread},
         UNCHANGED <<mDataList, memory, call, data, disturbed>>
  PROVE  ListInv'
<1> USE DEF ListInv
<1>1. TypeOK'
  BY DEF TypeOK, PCs, Results, memory
<1>2. Exclusive'
  BY UnlockedExclusive DEF InCriticalSection
<1>3. RoomLeft'
  <2>1. Loading' \subseteq Loading
    BY DEF Loading, TypeOK
  <2> QED
    BY <2>1, SameRoom DEF memory
<1>4. Owned'
  BY SameOwners DEF TypeOK, memory
<1> QED
  BY <1>1, <1>2, <1>3, <1>4

LEMMA ReplaceDataStep ==
  ASSUME ListInv, NEW t \in Threads, ReplaceData(t)
  PROVE  ListInv'
<1>1. /\ pc[t] = "in2" /\ UNCHANGED <<mDataList, memory, call, data, disturbed>>
      /\ mDataMutex' \in {mDataMutex, NoThread} /\ dead' \in BOOLEAN
      /\ \E out \in {"ok", "throw", "undefined"} : Returns(t, out, 0)
  BY DEF ReplaceData, Unlock, MutexAfter, ListInv, TypeOK
<1> QED
  BY <1>1, EndsUnchanged, ReturnType DEF ListInv

LEMMA RemoveDataStep ==
  ASSUME ListInv, NEW t \in Threads, RemoveData(t)
  PROVE  ListInv'
<1> USE DEF ListInv
<1>1. CASE ~InList(t)
  <2>1. /\ pc[t] = "in2" /\ UNCHANGED <<mDataList, memory, call, data, disturbed>>
        /\ mDataMutex' = mDataMutex /\ dead' = TRUE /\ Returns(t, "undefined", 0)
    BY <1>1 DEF RemoveData, memory
  <2> QED
    BY <2>1, EndsUnchanged, ReturnType
<1>2. CASE InList(t)
  <2>1. PICK i \in 1 .. Len(mDataList) : i = call[t].i + 1
    <3>1. call[t].i \in 0 .. MaxLoads
      BY DEF TypeOK
    <3>2. call[t].i + 1 \in 1 .. Len(mDataList)
      BY <1>2, <3>1, ListElements, ListAssumption DEF InList
    <3> QED
      BY <3>2
  <2>2. PICK d \in 1 .. MaxLoads : d = mDataList[i] /\ d \in ToSet(mDataList)
    BY ListElements
  <2>3. /\ pc[t] = "in2" /\ pc' = [pc EXCEPT ![t] = "idle"]
        /\ pc' \in [Threads -> PCs] /\ result' \in [Threads -> Results]
        /\ mDataMutex' = NoThread /\ disturbed' \in [Threads -> BOOLEAN]
        /\ UNCHANGED <<loads, abandoned, call, data, dead>>
    <3>1. Returns(t, "ok", 0) /\ Disturbs(t)
      BY <1>2 DEF RemoveData
    <3>2. disturbed' \in [Threads -> BOOLEAN]
      BY <3>1 DEF Disturbs, TypeOK
    <3> QED
      BY <1>2, <3>1, <3>2, ReturnType DEF RemoveData, Unlock, MutexAfter
  <2>4. mDataList' = RemoveAt(mDataList, i) /\ Drop(d)
    BY <1>2, <2>1, <2>2 DEF RemoveData, Named
  <2>5. /\ mDataList' \in Seq(1 .. MaxLoads)
        /\ ToSet(mDataList)' = ToSet(mDataList) \ {d}
        /\ NoRepeats(mDataList)'
    <3>1. mDataList \in Seq(1 .. MaxLoads) /\ NoRepeats(mDataList)
      BY DEF TypeOK, Owned
    <3>2. /\ RemoveAt(mDataList, i) \in Seq(1 .. MaxLoads)
          /\ ToSet(RemoveAt(mDataList, i)) = ToSet(mDataList) \ {d}
          /\ NoRepeats(RemoveAt(mDataList, i))
      BY <2>2, <3>1, RemoveOne
    <3> QED
      BY <2>4, <3>2 DEF NoRepeats
  <2>6. uses[d] = 0 + Cardinality(Users(d)) + 1
    <3>1. Cardinality(Users(d)) \in Nat
      BY ThreadSets DEF Users
    <3>2. uses[d] = 1 + Cardinality(Users(d))
      BY <2>2 DEF Owned, Counted
    <3> QED
      BY <3>1, <3>2
  <2>7. /\ uses' \in [1 .. MaxLoads -> Nat]
        /\ uses'[d] = 0 + Cardinality(Users(d))
        /\ \A e \in 1 .. MaxLoads : e # d => uses'[e] = uses[e]
        /\ allocated' = IF Users(d) = {} THEN allocated \ {d} ELSE allocated
    <3>1. Users(d) \in SUBSET Threads
      BY DEF Users
    <3> QED
      BY <2>4, <2>6, <3>1, DropPointer
  <2>8. TypeOK'
    <3>1. allocated' \subseteq 1 .. loads'
      BY <2>3, <2>7 DEF TypeOK
    <3> QED
      BY <2>3, <2>5, <2>7, <3>1 DEF TypeOK, PCs, Results
  <2>9. Exclusive'
    BY <2>3, UnlockedExclusive DEF InCriticalSection
  <2>10. RoomLeft'
    <3>1. Loading' \subseteq Loading
      BY <2>3 DEF Loading, TypeOK
    <3> QED
      BY <2>3, <3>1, SameRoom
  <2>11. \A u \in Threads : /\ InUse(u)' <=> InUse(u)
                            /\ pc'[u] = "build" <=> pc[u] = "build"
    BY <2>3 DEF InUse, TypeOK
  <2>12. \A e : Users(e)' = Users(e)
    BY <2>3 DEF Users, TypeOK
  <2>13. Used' = Used
    BY <2>3, <2>11 DEF Used
  <2>14. d \in Used <=> Users(d) # {}
    <3>1. \A u \in Threads : pc[u] = "build" => data[u] # d
      BY <2>2 DEF Owned, Fresh
    <3> QED
      BY <3>1 DEF Used, Users, InUse
  <2>15. Kept' = IF Users(d) = {} THEN Kept \ {d} ELSE Kept
    BY <2>2, <2>5, <2>13, <2>14 DEF Kept
  <2>16. Apart' /\ MemoryMatchesUse'
    <3>1. allocated = Kept \cup abandoned /\ abandoned \cap Kept = {} /\ d \in Kept
      BY <2>2, KeptAreLoaded DEF Owned, Apart, Kept
    <3>2. allocated' = Kept' \cup abandoned
      BY <2>7, <2>15, <3>1
    <3>3. abandoned' \cap Kept' = {}
      BY <2>3, <2>15, <3>1
    <3>4. allocated' = ToSet(mDataList)' \cup Used' \cup abandoned'
      BY <2>3, <3>2 DEF Kept
    <3> QED
      BY <3>3, <3>4 DEF Apart, MemoryMatchesUse, Used
  <2>17. Fresh'
    BY <2>3, <2>5, <2>11 DEF Owned, Fresh
  <2>18. Counted'
    <3> SUFFICES ASSUME NEW e \in 1 .. MaxLoads
                 PROVE  uses'[e] = (IF e \in ToSet(mDataList)' THEN 1 ELSE 0)
                                   + Cardinality(Users(e)')
      BY DEF Counted
    <3>1. CASE e = d
      BY <2>5, <2>7, <2>12, <3>1
    <3>2. CASE e # d
      <4>1. uses[e] = (IF e \in ToSet(mDataList) THEN 1 ELSE 0) + Cardinality(Users(e))
        BY DEF Owned, Counted
      <4> QED
        BY <2>5, <2>7, <2>12, <3>2, <4>1
    <3> QED
      BY <3>1, <3>2
  <2> QED
    BY <2>5, <2>8, <2>9, <2>10, <2>16, <2>17, <2>18 DEF Owned
<1> QED
  BY <1>1, <1>2
-----------------------------------------------------------------------------
(* The theorems *)

\* ListInv holds initially and is kept by every step of every thread.
THEOREM ListInvariant == Spec => []ListInv
<1>1. Init => ListInv
  <2> SUFFICES ASSUME Init PROVE ListInv
    OBVIOUS
  <2>1. \A t \in Threads : pc[t] = "idle"
    BY DEF Init
  <2>2. ToSet(mDataList) = {} /\ Used = {} /\ Loading = {} /\ \A d : Users(d) = {}
    <3>1. ToSet(mDataList) = {}
      BY DEF Init, ToSet
    <3> QED
      BY <2>1, <3>1 DEF Used, Loading, Users, InUse
  <2>3. TypeOK
    <3>1. << >> \in Seq(1 .. MaxLoads)
      OBVIOUS
    <3>2. [op |-> "GetNT3", i |-> 0] \in [op : Ops, i : 0 .. MaxLoads]
      BY ListAssumption DEF Ops
    <3>3. call \in [Threads -> [op : Ops, i : 0 .. MaxLoads]]
      BY <3>2 DEF Init
    <3>4. [out |-> "ok", index |-> 0] \in Results
      BY DEF Results
    <3>5. result \in [Threads -> Results]
      BY <3>4 DEF Init
    <3>6. /\ pc \in [Threads -> PCs]
          /\ data \in [Threads -> 0 .. MaxLoads] /\ disturbed \in [Threads -> BOOLEAN]
          /\ loads \in 0 .. MaxLoads /\ uses \in [1 .. MaxLoads -> Nat]
      BY ListAssumption DEF Init, NoSet, PCs
    <3> QED
      BY <3>1, <3>3, <3>5, <3>6 DEF Init, TypeOK, PCs, Results
  <2>4. Exclusive /\ RoomLeft
    BY <2>1, <2>2, FS_EmptySet, ListAssumption DEF Init, Exclusive, InCriticalSection, RoomLeft
  <2>5. NoRepeats(mDataList) /\ Fresh /\ Apart /\ MemoryMatchesUse
    BY <2>1, <2>2 DEF Init, NoRepeats, Fresh, Apart, Kept, Used, MemoryMatchesUse
  <2>6. Counted
    <3>1. \A d : Cardinality(Users(d)) = 0
      BY <2>2, FS_EmptySet
    <3>2. \A d \in 1 .. MaxLoads : uses[d] = 0
      BY DEF Init
    <3> QED
      BY <2>2, <3>1, <3>2 DEF Counted
  <2> QED
    BY <2>3, <2>4, <2>5, <2>6 DEF ListInv, Owned
<1>2. ListInv /\ [Next]_vars => ListInv'
  <2> SUFFICES ASSUME ListInv, [Next]_vars PROVE ListInv'
    OBVIOUS
  <2>1. CASE UNCHANGED vars
    <3>1. TypeOK' /\ Exclusive' /\ RoomLeft'
      BY <2>1 DEF vars, memory, ListInv, TypeOK, Exclusive, InCriticalSection, RoomLeft, Loading
    <3>2. Owned'
      BY <2>1, SameOwners DEF vars, memory, ListInv
    <3> QED
      BY <3>1, <3>2 DEF ListInv
  <2>2. ASSUME NEW t \in Threads, Start(t) \/ Lock(t) \/ Runs(t)
        PROVE  ListInv'
    <3>1. CASE Start(t) \/ Lock(t)
      BY <3>1, StartStep, LockStep
    <3>2. CASE Construct(t) \/ ConstructorThrows(t) \/ PushBack(t) \/ LoadIndex(t)
      BY <3>2, ConstructStep, ConstructorThrowsStep, PushBackStep, LoadIndexStep
    <3>3. CASE Size(t) \/ At(t) \/ Use(t)
      BY <3>3, SizeStep, AtStep, UseStep
    <3>4. CASE RemoveData(t) \/ ReplaceData(t)
      BY <3>4, RemoveDataStep, ReplaceDataStep
    <3> QED
      BY <2>2, <3>1, <3>2, <3>3, <3>4 DEF Runs
  <2> QED
    BY <2>1, <2>2 DEF Next
<1> QED
  BY <1>1, <1>2, PTL DEF Spec

\* The variables keep their types: no pointer count becomes negative, and no
\* thread constructs more than there is room for.
THEOREM ListTypeCorrect == Spec => []TypeOK
<1>1. ListInv => TypeOK
  BY DEF ListInv
<1> QED
  BY <1>1, ListInvariant, PTL

\* A data set keeps its device buffers exactly as long as the list or a thread
\* has it, whichever threads load, remove, replace and use data sets
\* (COILibDataList.cpp:51-57, 220-233, COILibData.cpp:153-166).
THEOREM MemoryAlwaysMatchesUse == Spec => []MemoryMatchesUse
<1>1. ListInv => MemoryMatchesUse
  BY DEF ListInv, Owned
<1> QED
  BY <1>1, ListInvariant, PTL
-----------------------------------------------------------------------------
(* Calls that are not disturbed *)

\* What the first critical section of a call found still holds.
StillChecked(t) ==
  IF call[t].op = "LoadData"
    THEN mDataList # << >> /\ mDataList[Len(mDataList)] = data[t]
    ELSE InList(t) \/ (call[t].op = "ImageTo" /\ mDataList = << >>)

Between(t) == pc[t] \in {"wait2", "in2"} /\ ~disturbed[t]
Undisturbed ==
  \A t \in Threads : /\ pc[t] = "build" => call[t].op = "LoadData"
                     /\ Between(t) => StillChecked(t)

\* A step that leaves the list alone, and keeps or ends every such call.
LEMMA SameList ==
  ASSUME TypeOK, Undisturbed, mDataList' = mDataList,
         \A t \in Threads : /\ Between(t)' => Between(t)
                            /\ pc'[t] = "build" => pc[t] = "build" \/ call[t].op = "LoadData"
                            /\ Between(t)' \/ pc'[t] = "build" => call'[t] = call[t]
                            /\ Between(t)' => data'[t] = data[t]
  PROVE  Undisturbed'
<1> SUFFICES ASSUME NEW t \in Threads
             PROVE  (pc'[t] = "build" => call'[t].op = "LoadData")
                    /\ (Between(t)' => StillChecked(t)')
  BY DEF Undisturbed
<1>1. ASSUME pc'[t] = "build" PROVE call'[t].op = "LoadData"
  BY <1>1 DEF Undisturbed
<1>2. ASSUME Between(t)' PROVE StillChecked(t)'
  <2>1. StillChecked(t) /\ call'[t] = call[t] /\ data'[t] = data[t]
    BY <1>2 DEF Undisturbed
  <2> QED
    BY <2>1 DEF StillChecked, InList
<1> QED
  BY <1>1, <1>2

\* A step of t that changes the list disturbs all other calls.
LEMMA OthersDisturbed ==
  ASSUME TypeOK, Undisturbed, NEW t \in Threads, NEW to, Goes(t, to), Disturbs(t),
         to # "build", call' = call,
         pc'[t] \in {"wait2", "in2"} => StillChecked(t)'
  PROVE  Undisturbed'
<1>1. \A u \in Threads : pc'[u] = IF u = t THEN to ELSE pc[u]
  BY DEF Goes, TypeOK
<1>2. \A u \in Threads : disturbed'[u] = (disturbed[u] \/ (u # t /\ pc[u] \in {"wait2", "in2"}))
  BY DEF Disturbs
<1>3. \A u \in Threads : u # t => ~ Between(u)'
  BY <1>1, <1>2 DEF Between
<1> QED
  BY <1>1, <1>3 DEF Undisturbed, Between

\* The check of the first section lets a thread go on only with an index of the
\* list; but on an empty list size() - 1 lets every index pass.
LEMMA CheckedIndex ==
  ASSUME TypeOK, NEW t \in Threads,
         NotRefused(call[t].op, call[t].i, Len(mDataList)), call[t].op # "LoadData"
  PROVE  StillChecked(t)
<1>1. Len(mDataList) \in Nat /\ call[t].i \in Nat /\ (Len(mDataList) = 0 => mDataList = << >>)
  BY LenProperties, EmptySeq, ListAssumption DEF TypeOK
<1>2. CASE call[t].op # "ImageTo"
  BY <1>2 DEF NotRefused, Exists, StillChecked, InList
<1>3. CASE call[t].op = "ImageTo" /\ Len(mDataList) # 0
  <2>1. PICK n \in Nat : n = Len(mDataList) - 1
    BY <1>1, <1>3
  <2>2. PICK m \in Nat \ {0} : m = MaxUInt + 1
    BY ListAssumption
  <2>3. n % m <= n /\ n % m \in Nat
    BY SMTT(30)
  <2>4. call[t].i <= n
    BY <1>1, <1>3, <2>1, <2>2, <2>3 DEF NotRefused
  <2> QED
    BY <1>1, <1>3, <2>1, <2>4 DEF StillChecked, InList
<1> QED
  BY <1>1, <1>2, <1>3 DEF StillChecked

LEMMA UndisturbedStep ==
  ASSUME TypeOK, TypeOK', Undisturbed, NEW t \in Threads, Start(t) \/ Lock(t) \/ Runs(t)
  PROVE  Undisturbed'
<1>1. CASE Start(t)
  <2>1. /\ mDataList' = mDataList /\ data' = data
        /\ \A u \in Threads : pc'[u] = IF u = t THEN "wait1" ELSE pc[u]
        /\ \A u \in Threads : u # t => call'[u] = call[u] /\ disturbed'[u] = disturbed[u]
    BY <1>1 DEF Start, Goes, TypeOK
  <2> QED
    BY <2>1, SameList DEF Between
<1>2. CASE Lock(t)
  <2>1. /\ mDataList' = mDataList /\ data' = data /\ call' = call /\ disturbed' = disturbed
        /\ \A u \in Threads : u # t => pc'[u] = pc[u]
        /\ \/ pc[t] = "wait1" /\ pc'[t] = "in1"
           \/ pc[t] = "wait2" /\ pc'[t] = "in2"
    BY <1>2 DEF Lock, Goes, TypeOK
  <2> QED
    BY <2>1, SameList DEF Between
<1>3. CASE Construct(t)
  <2>1. /\ mDataList' = mDataList /\ call' = call /\ disturbed' = disturbed
        /\ call[t].op = "LoadData"
        /\ \A u \in Threads : pc'[u] = IF u = t THEN "build" ELSE pc[u]
        /\ \A u \in Threads : u # t => data'[u] = data[u]
    BY <1>3 DEF Construct, Goes, TypeOK
  <2> QED
    BY <2>1, SameList DEF Between
<1>4. CASE ConstructorThrows(t)
  <2>1. /\ mDataList' = mDataList /\ call' = call /\ disturbed' = disturbed
        /\ \A u \in Threads : pc'[u] = IF u = t THEN "idle" ELSE pc[u]
        /\ \A u \in Threads : u # t => data'[u] = data[u]
    BY <1>4 DEF ConstructorThrows, Returns, Goes, TypeOK
  <2> QED
    BY <2>1, SameList DEF Between
<1>5. CASE PushBack(t)
  <2>1. /\ mDataList' = Append(mDataList, data[t]) /\ call' = call /\ data' = data
        /\ call[t].op = "LoadData" /\ Goes(t, "wait2") /\ Disturbs(t)
    BY <1>5 DEF PushBack, Undisturbed
  <2>2. mDataList' # << >> /\ mDataList'[Len(mDataList')] = data[t]
    <3>1. mDataList \in Seq(1 .. MaxLoads) /\ mDataList' \in Seq(1 .. MaxLoads)
      BY DEF TypeOK
    <3>2. PICK z : z = mDataList'
      OBVIOUS
    <3>3. PICK s \in Seq(1 .. MaxLoads) : s = mDataList
      BY <3>1
    <3>4. Len(z) = Len(s) + 1 /\ z[Len(s) + 1] = data[t] /\ Len(s) \in Nat
      BY <2>1, <3>2, <3>3, AppendProperties, LenProperties
    <3> QED
      BY <3>2, <3>4
  <2>3. StillChecked(t)'
    BY <2>1, <2>2 DEF StillChecked
  <2> QED
    BY <2>1, <2>3, OthersDisturbed
<1>6. CASE LoadIndex(t)
  <2>1. /\ mDataList' = mDataList /\ call' = call /\ disturbed' = disturbed
        /\ \A u \in Threads : pc'[u] = IF u = t THEN "idle" ELSE pc[u]
        /\ \A u \in Threads : u # t => data'[u] = data[u]
    BY <1>6 DEF LoadIndex, Returns, Goes, TypeOK
  <2> QED
    BY <2>1, SameList DEF Between
<1>7. CASE Size(t)
  <2>1. /\ mDataList' = mDataList /\ call' = call /\ disturbed' = disturbed /\ data' = data
        /\ call[t].op # "LoadData" /\ pc[t] = "in1"
        /\ \A u \in Threads : u # t => pc'[u] = pc[u]
    BY <1>7 DEF Size, Returns, Goes, TypeOK
  <2>2. CASE NotRefused(call[t].op, call[t].i, Len(mDataList))
    <3>1. pc'[t] = "wait2" /\ StillChecked(t)
      BY <1>7, <2>1, <2>2, CheckedIndex DEF Size, Goes, TypeOK
    <3>2. StillChecked(t)'
      BY <2>1, <3>1 DEF StillChecked, InList
    <3>3. ASSUME NEW u \in Threads, u # t
          PROVE  (pc'[u] = "build" => call'[u].op = "LoadData") /\ (Between(u)' => StillChecked(u)')
      BY <2>1, <3>3 DEF Undisturbed, Between, StillChecked, InList
    <3> QED
      BY <3>1, <3>2, <3>3 DEF Undisturbed
  <2>3. CASE ~ NotRefused(call[t].op, call[t].i, Len(mDataList))
    <3>1. pc'[t] = "idle"
      BY <1>7, <2>3 DEF Size, Returns, Goes, TypeOK
    <3> QED
      BY <2>1, <3>1, SameList DEF Between
  <2> QED
    BY <2>2, <2>3
<1>8. CASE At(t)
  <2>1. /\ mDataList' = mDataList /\ call' = call /\ disturbed' = disturbed
        /\ \A u \in Threads : u # t => pc'[u] = pc[u] /\ data'[u] = data[u]
        /\ pc'[t] \in {"use", "idle"}
    BY <1>8 DEF At, Returns, Goes, TypeOK
  <2> QED
    BY <2>1, SameList DEF Between
<1>9. CASE Use(t)
  <2>1. /\ mDataList' = mDataList /\ call' = call /\ disturbed' = disturbed
        /\ \A u \in Threads : u # t => pc'[u] = pc[u] /\ data'[u] = data[u]
        /\ pc'[t] = "idle"
    BY <1>9 DEF Use, Returns, Goes, TypeOK
  <2> QED
    BY <2>1, SameList DEF Between
<1>10. CASE RemoveData(t) /\ InList(t)
  <2>1. Goes(t, "idle") /\ Disturbs(t) /\ call' = call /\ pc'[t] = "idle"
    BY <1>10 DEF RemoveData, Returns, Goes, TypeOK
  <2> QED
    BY <2>1, OthersDisturbed
<1>11. CASE (RemoveData(t) /\ ~ InList(t)) \/ ReplaceData(t)
  <2>1. /\ mDataList' = mDataList /\ call' = call /\ disturbed' = disturbed /\ data' = data
        /\ \A u \in Threads : u # t => pc'[u] = pc[u]
        /\ pc'[t] = "idle"
    BY <1>11 DEF RemoveData, ReplaceData, Returns, Goes, TypeOK
  <2> QED
    BY <2>1, SameList DEF Between
<1> QED
  BY <1>1, <1>2, <1>3, <1>4, <1>5, <1>6, <1>7, <1>8, <1>9, <1>10, <1>11 DEF Runs

\* At the end of the second section the call does what was checked.
LEMMA SecondSection ==
  ASSUME TypeOK, Undisturbed, NEW t \in Threads, NEW u \in Threads,
         Start(u) \/ Lock(u) \/ Runs(u),
         pc[t] = "in2", pc'[t] # "in2", ~ disturbed[t]
  PROVE  /\ InList(t) \/ call[t].op = "LoadData"
              \/ (call[t].op = "ImageTo" /\ mDataList = << >>)
         /\ call[t].op = "LoadData" => mDataList[result'[t].index + 1] = data[t]
<1>1. StillChecked(t)
  BY DEF Undisturbed, Between
<1>2. ASSUME call[t].op = "LoadData" PROVE mDataList[result'[t].index + 1] = data[t]
  <2>1. u = t
    BY DEF Start, Lock, Runs, Construct, ConstructorThrows, PushBack, LoadIndex, Size, At, Use,
           RemoveData, ReplaceData, Returns, Goes, TypeOK
  <2>2. LoadIndex(t)
    BY <1>2, <2>1 DEF Start, Lock, Runs, Construct, ConstructorThrows, PushBack, Size, At, Use,
           RemoveData, ReplaceData
  <2>3. result'[t].index = Len(mDataList) - 1
    BY <2>2 DEF LoadIndex, Returns, TypeOK
  <2>4. Len(mDataList) - 1 + 1 = Len(mDataList)
    BY LenProperties DEF TypeOK
  <2> QED
    BY <1>1, <1>2, <2>3, <2>4 DEF StillChecked
<1> QED
  BY <1>1, <1>2 DEF StillChecked

\* A call during whose two critical sections no other thread changed the list
\* means what it means in a sequential program, for any number of threads
\* (liboi.cpp:338-352, 366-474, 636-656).
THEOREM CallsAreSequential == Spec => SequentialUnlessDisturbed
<1> DEFINE Step ==
      \A t \in Threads :
        pc[t] = "in2" /\ pc'[t] # "in2" /\ ~disturbed[t]
          => /\ InList(t) \/ call[t].op = "LoadData"
                \/ (call[t].op = "ImageTo" /\ mDataList = << >>)
             /\ call[t].op = "LoadData" => mDataList[result'[t].index + 1] = data[t]
<1>1. Init => Undisturbed
  BY DEF Init, Undisturbed, Between
<1>2. TypeOK /\ TypeOK' /\ Undisturbed /\ [Next]_vars => Undisturbed'
  <2> SUFFICES ASSUME TypeOK, TypeOK', Undisturbed, [Next]_vars PROVE Undisturbed'
    OBVIOUS
  <2>1. CASE UNCHANGED vars
    BY <2>1 DEF vars, Undisturbed, Between, StillChecked, InList
  <2>2. CASE Next
    BY <2>2, UndisturbedStep DEF Next
  <2> QED
    BY <2>1, <2>2
<1>3. TypeOK /\ Undisturbed /\ [Next]_vars => [Step]_vars
  BY SecondSection DEF Next
<1>4. Spec => [](TypeOK /\ Undisturbed)
  BY <1>1, <1>2, ListTypeCorrect, PTL DEF Spec
<1> QED
  BY <1>3, <1>4, PTL DEF Spec, SequentialUnlessDisturbed
=============================================================================
