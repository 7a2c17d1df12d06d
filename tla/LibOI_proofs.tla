---------------------------- MODULE LibOI_proofs ----------------------------
(***************************************************************************)
(* Proofs about LibOI and LibOIClient, for all data sets, images, client   *)
(* buffers and bounds.  First, for any sequence of calls: the types of the *)
(* variables, and the invariant that every loaded data set fits the        *)
(* buffers allocated for data - if no InitRoutines was called by itself    *)
(* for data that no InitMemory had seen.  Then, for a client that keeps to the       *)
(* documented order of calls: it is a client of LibOI, so that the first   *)
(* part holds for it; its images are treated as they are described; what   *)
(* the object holds is released; and if its data sets are large enough for *)
(* the sums, it is served.                                                 *)
(***************************************************************************)
EXTENDS LibOIClient, SequenceTheorems, WellFoundedInduction, TLAPS

\* Largest picks a member of S \cup {0} that is not below any other, provided
\* S is bounded; by the least-number principle on the upper bounds of S.
LEMMA LargestProperty ==
  ASSUME NEW S \in SUBSET Nat, NEW b \in Nat, \A n \in S : n <= b
  PROVE  /\ Largest(S) \in S \cup {0}
         /\ \A n \in S : n <= Largest(S)
<1> DEFINE Above == {m \in Nat : \A n \in S : n <= m}
           Less == OpToRel(<, Nat)
<1>1. Above \subseteq Nat /\ Above # {}
  OBVIOUS
<1>2. PICK m \in Above : \A k \in Above : ~(<<k, m>> \in Less)
  <2>1. IsWellFoundedOn(Less, Nat)
    BY NatLessThanWellFounded
  <2> HIDE DEF Less, Above
  <2>2. QED
    BY <1>1, <2>1, WFMin
<1>3. \A k \in Above : m <= k
  <2> SUFFICES ASSUME NEW k \in Above, k < m PROVE FALSE
    OBVIOUS
  <2>1. <<k, m>> \in Less
    BY DEF OpToRel
  <2> QED
    BY <1>2, <2>1
<1>4. m \in S \cup {0}
  <2>1. CASE m = 0
    BY <2>1
  <2>2. CASE m # 0
    <3>1. m - 1 \in Nat /\ m - 1 \notin Above
      BY <1>3, <2>2
    <3>2. PICK n \in S : ~(n <= m - 1)
      BY <3>1
    <3>3. n = m
      BY <3>1, <3>2
    <3> QED
      BY <3>2, <3>3
  <2> QED
    BY <2>1, <2>2
<1>5. \A n \in S \cup {0} : n <= m
  OBVIOUS
<1> QED
  BY <1>4, <1>5 DEF Largest

\* Every data set in the list after an erase was in the list before.
LEMMA RemoveAtElements ==
  ASSUME NEW S, NEW s \in Seq(S), NEW i \in 1 .. Len(s)
  PROVE  /\ RemoveAt(s, i) \in Seq(S)
         /\ \A k \in 1 .. Len(RemoveAt(s, i)) : \E j \in 1 .. Len(s) : RemoveAt(s, i)[k] = s[j]
<1> DEFINE a == SubSeq(s, 1, i - 1)
           z == SubSeq(s, i + 1, Len(s))
<1>0. Len(s) \in Nat /\ i \in Nat
  BY LenProperties
<1>1. /\ a \in Seq(S) /\ Len(a) = i - 1
      /\ \A k \in 1 .. i - 1 : a[k] = s[k]
  BY SubSeqProperties
<1>2. /\ z \in Seq(S) /\ Len(z) = Len(s) - i
      /\ \A k \in 1 .. Len(s) - i : z[k] = s[i + k]
  BY SubSeqProperties
<1> HIDE DEF a, z
<1>3. /\ a \o z \in Seq(S) /\ Len(a \o z) = Len(s) - 1
      /\ \A k \in 1 .. Len(s) - 1 : (a \o z)[k] = IF k <= i - 1 THEN a[k] ELSE z[k - (i - 1)]
  <2>1. /\ a \o z \in Seq(S) /\ Len(a \o z) = Len(a) + Len(z)
        /\ \A k \in 1 .. Len(a) + Len(z) :
             (a \o z)[k] = IF k <= Len(a) THEN a[k] ELSE z[k - Len(a)]
    BY <1>1, <1>2, ConcatProperties
  <2>2. Len(a) + Len(z) = Len(s) - 1
    BY <1>0, <1>1, <1>2
  <2> QED
    BY <1>1, <2>1, <2>2
<1>4. ASSUME NEW k \in 1 .. Len(s) - 1
      PROVE  \E j \in 1 .. Len(s) : (a \o z)[k] = s[j]
  <2>1. CASE k <= i - 1
    BY <1>1, <1>3, <2>1
  <2>2. CASE k > i - 1
    <3>1. k - (i - 1) \in 1 .. Len(s) - i
      BY <1>0, <2>2
    <3>2. k + 1 \in 1 .. Len(s) /\ i + (k - (i - 1)) = k + 1
      BY <1>0
    <3>3. z[k - (i - 1)] = s[k + 1]
      BY <1>2, <3>1, <3>2
    <3>4. ~(k <= i - 1)
      BY <1>0, <2>2
    <3>5. (a \o z)[k] = s[k + 1]
      BY <1>3, <3>3, <3>4
    <3> QED
      BY <3>2, <3>5
  <2> QED
    <3>1. k \in Int /\ i - 1 \in Int
      BY <1>0
    <3>2. k <= i - 1 \/ k > i - 1
      BY <3>1
    <3> QED
      BY <2>1, <2>2, <3>2
<1> QED
  BY <1>3, <1>4 DEF RemoveAt, a, z

\* The counts of a loaded data set are natural numbers.
LEMMA LoadedCounts ==
  ASSUME mDataList \in Seq(Storable)
  PROVE  /\ \A d \in Loaded : d \in Storable
         /\ \A d \in Loaded : NumData(d) \in Nat /\ d.nUV \in Nat
<1>1. \A d \in Loaded : d \in Storable
  BY ElementOfSeq DEF Loaded, NumLoaded
<1>2. \A d \in Loaded : NumData(d) \in Nat /\ d.nUV \in Nat
  BY <1>1 DEF Storable, Count, NumData, TotalBufferSize
<1> QED
  BY <1>1, <1>2

\* The maxima InitMemory caches are upper bounds over the list.
LEMMA MaximaProperty ==
  ASSUME mDataList \in Seq(Storable)
  PROVE  /\ MaxNumData \in Nat /\ MaxUVPoints \in Nat
         /\ \A d \in Loaded : NumData(d) <= MaxNumData /\ d.nUV <= MaxUVPoints
<1>1. \A d \in Loaded : d \in Storable
  BY LoadedCounts
<1>2. \A d \in Loaded : NumData(d) \in Nat /\ d.nUV \in Nat
  BY LoadedCounts
<1> DEFINE N == {NumData(d) : d \in Loaded}
           U == {d.nUV : d \in Loaded}
<1>3. N \in SUBSET Nat /\ U \in SUBSET Nat
  BY <1>2
<1>4. \A n \in N \cup U : n <= MaxUInt
  BY <1>1, <1>2 DEF Storable
<1>5. Largest(N) \in N \cup {0} /\ \A n \in N : n <= Largest(N)
  <2> HIDE DEF N
  <2> QED
    BY <1>3, <1>4, WordAssumption, LargestProperty
<1>6. Largest(U) \in U \cup {0} /\ \A n \in U : n <= Largest(U)
  <2> HIDE DEF U
  <2> QED
    BY <1>3, <1>4, WordAssumption, LargestProperty
<1> QED
  BY <1>3, <1>5, <1>6 DEF MaxNumData, MaxUVPoints
-----------------------------------------------------------------------------
(* Type correctness *)

\* Whatever happens inside a computation, its outcome is one of the five.
LEMMA OutcomeType ==
  /\ FluxStep \in Outcomes /\ NormalizeStep \in Outcomes
  /\ \A d : \A op \in ComputeOps : ComputeStep(op, d) \in Outcomes
<1>1. FluxStep \in Outcomes /\ NormalizeStep \in Outcomes
  BY DEF FluxStep, NormalizeStep, Then, Outcomes
<1>2. ASSUME NEW d, NEW op \in ComputeOps
      PROVE  ComputeStep(op, d) \in Outcomes
  <2>1. ImageToDataStep(d) \in Outcomes
    BY <1>1 DEF ImageToDataStep, FTToDataStep, Then, Outcomes
  <2>2. ChiStep(d) \in Outcomes /\ Chi2Step(d) \in Outcomes /\ LogLikeStep(d) \in Outcomes
    BY DEF ChiStep, Chi2Step, LogLikeStep, AMDSumStep, Then, Outcomes
  <2> QED
    BY <2>1, <2>2 DEF ComputeStep, ComputeOps, Then, Outcomes
<1> QED
  BY <1>1, <1>2

\* Returns keeps the types of the variables it sets.
LEMMA ReturnsType ==
  ASSUME phase \in {"alive", "destroyed", "dead"}, NEW op \in Calls, NEW out \in Outcomes,
         NEW n \in Nat, Returns(op, out, n)
  PROVE  /\ last' \in [op : Calls, out : Outcomes, n : Nat]
         /\ phase' \in {"alive", "destroyed", "dead"}
BY DEF Returns

\* The initial values have the types of TypeOK.
LEMMA TypeInit == InitMembers => TypeOK
<1>1. "CLibOI" \in Calls /\ "ok" \in Outcomes
  BY DEF Calls, Outcomes
<1>2. InitMembers => last \in [op : Calls, out : Outcomes, n : Nat]
  BY <1>1 DEF InitMembers
<1>3. InitMembers => sized \in [{"TotalFlux", "FT", "Chi", "LogLike"} -> Nat]
  BY DEF InitMembers
<1>4. UserBuffers \subseteq Handle
  BY BufferAssumption
<1>5. InitMembers => mDataList \in Seq(Storable)
  BY EmptySeq DEF InitMembers
<1>6. InitMembers => routine \in [Routines -> {"null", "made", "ready"}]
  BY DEF InitMembers
<1>7. InitMembers => /\ mImage_cl \in Handle /\ mImage_gl \in Handle
                     /\ mFluxBuffer \in Handle /\ mFTBuffer \in Handle
                     /\ mSimDataBuffer \in Handle
  BY DEF InitMembers, NULL, Handle
<1>8. InitMembers => mImage \in ImageInfo /\ mImageType \in ImageTypes
  BY DEF InitMembers, ImageInfo, ImageTypes
<1>9. InitMembers => live \subseteq Handle
  <2> SUFFICES ASSUME InitMembers PROVE live = UserBuffers
    BY <1>4
  <2> QED
    BY Zenon DEF InitMembers
<1>10. InitMembers => mMaxData \in Nat /\ epoch \in Nat
  BY DEF InitMembers
<1>11. InitMembers => /\ mDataRoutinesInitialized \in BOOLEAN
                      /\ mKernelSourcePath \in BOOLEAN
                      /\ phase \in {"alive", "destroyed", "dead"}
                      /\ memory \in Memory
  BY Zenon DEF InitMembers, Memory
<1> QED
  BY <1>2, <1>3, <1>5, <1>6, <1>7, <1>8, <1>9, <1>10, <1>11 DEF TypeOK

\* The configuration calls preserve the types.
LEMMA TypeConfigure == TypeOK /\ Configure => TypeOK'
<1> SUFFICES ASSUME TypeOK, Configure PROVE TypeOK'
  OBVIOUS
<1> USE DEF TypeOK, config, handles, inited
<1>0. /\ {"ok", "throw", "abort"} \subseteq Outcomes
      /\ {"SetKernelSourcePath", "SetImageInfo", "SetImageSource"} \subseteq Calls
  BY DEF Outcomes, Calls
<1>1. CASE SetKernelSourcePath
  BY <1>0, <1>1, ReturnsType DEF SetKernelSourcePath
<1>2. CASE SetImageInfo
  BY <1>0, <1>2, ReturnsType, ImageAssumption DEF SetImageInfo
<1>3. CASE SetImageSourceHost
  BY <1>0, <1>3, ReturnsType DEF SetImageSourceHost, ImageTypes
<1>4. CASE SetImageSourceCL
  <2>1. mImage_cl' \in Handle
    BY <1>4, BufferAssumption DEF SetImageSourceCL
  <2>2. /\ last' \in [op : Calls, out : Outcomes, n : Nat]
        /\ phase' \in {"alive", "destroyed", "dead"}
    BY <1>0, <1>4, ReturnsType DEF SetImageSourceCL
  <2> QED
    BY <1>4, <2>1, <2>2 DEF SetImageSourceCL, ImageTypes
<1>5. CASE SetImageSourceGL
  <2>1. PICK type \in ImageTypes, out \in {"ok", "throw", "abort"} :
          SetImageSourceGL!4!(type, out)
    BY <1>5 DEF SetImageSourceGL
  <2>2. /\ last' \in [op : Calls, out : Outcomes, n : Nat]
        /\ phase' \in {"alive", "destroyed", "dead"}
    <3>1. /\ out \in Outcomes /\ "SetImageSource" \in Calls
          /\ Returns("SetImageSource", out, 0)
      BY <1>0, <2>1
    <3> QED
      BY <3>1, ReturnsType
  <2>3. epoch' \in Nat
    BY <1>5 DEF SetImageSourceGL
  <2>4. /\ [kind |-> "gl", gen |-> epoch', size |-> 1] \in Handle
        /\ NULL \in Handle
    BY <2>3 DEF Handle, NULL
  <2>5. mImage_gl' \in Handle /\ live' \subseteq Handle
    BY <2>1, <2>4
  <2> QED
    BY <1>5, <2>1, <2>2, <2>3, <2>5 DEF SetImageSourceGL
<1> QED
  BY <1>1, <1>2, <1>3, <1>4, <1>5 DEF Configure

\* Loading, removing and replacing data preserve the types.
LEMMA TypeData ==
  ASSUME TypeOK, NEW i \in 0 .. MaxSets, LoadData \/ ChangeData(i)
  PROVE  TypeOK'
<1> USE DEF TypeOK, config, handles, inited
<1>0. /\ {"ok", "refused", "throw", "abort", "undefined"} \subseteq Outcomes
      /\ {"LoadData", "RemoveData", "ReplaceData"} \subseteq Calls
  BY DEF Outcomes, Calls
<1>1. CASE LoadData
  <2>1. PICK d \in DataSets, out \in {"ok", "refused", "throw", "abort"} :
          LoadData!(d, out)
    BY <1>1 DEF LoadData
  <2>2. Padded(d) \in Storable
    BY DataAssumption
  <2>3. mDataList' \in Seq(Storable)
    <3>1. Append(mDataList, Padded(d)) \in Seq(Storable)
      BY <2>2, AppendProperties
    <3>2. mDataList' = Append(mDataList, Padded(d)) \/ mDataList' = mDataList
      BY <2>1
    <3> QED
      BY <3>1, <3>2
  <2>4. out \in Outcomes /\ "LoadData" \in Calls /\ Returns("LoadData", out, 0)
    BY <1>0, <2>1
  <2>5. /\ last' \in [op : Calls, out : Outcomes, n : Nat]
        /\ phase' \in {"alive", "destroyed", "dead"}
    BY <2>4, ReturnsType
  <2>6. memory' \in Memory
    BY <2>1 DEF Memory
  <2> QED
    BY <2>1, <2>3, <2>5, <2>6
<1>2. CASE RemoveData(i)
  <2>1. CASE i < NumLoaded /\ mDataList' = RemoveAt(mDataList, i + 1) /\ Returns("RemoveData", "ok", 0)
    <3>1. i + 1 \in 1 .. Len(mDataList)
      BY <2>1, BoundAssumption, LenProperties DEF NumLoaded
    <3>2. mDataList' \in Seq(Storable)
      BY <2>1, <3>1, RemoveAtElements
    <3> QED
      BY <1>0, <1>2, <2>1, <3>2, ReturnsType DEF RemoveData
  <2>2. CASE UNCHANGED mDataList /\ Returns("RemoveData", "undefined", 0)
    BY <1>0, <1>2, <2>2, ReturnsType DEF RemoveData
  <2> QED
    BY <1>2, <2>1, <2>2 DEF RemoveData
<1>3. CASE ReplaceData(i)
  <2>1. PICK out \in {"ok", "throw", "undefined"} :
          Returns("ReplaceData", out, 0)
    BY <1>3 DEF ReplaceData
  <2>2. /\ last' \in [op : Calls, out : Outcomes, n : Nat]
        /\ phase' \in {"alive", "destroyed", "dead"}
    <3>1. out \in Outcomes /\ "ReplaceData" \in Calls
      BY <1>0
    <3> QED
      BY <2>1, <3>1, ReturnsType
  <2> QED
    BY <1>3, <2>2 DEF ReplaceData
<1> QED
  BY <1>1, <1>2, <1>3 DEF ChangeData

\* A call that only returns an outcome preserves the types.
LEMMA TypeQuiet ==
  ASSUME TypeOK, UNCHANGED <<mDataList, config, handles, inited, live, epoch>>,
         NEW op \in Calls, NEW out \in Outcomes, NEW n \in Nat, Returns(op, out, n)
  PROVE  TypeOK'
<1>1. /\ last' \in [op : Calls, out : Outcomes, n : Nat]
      /\ phase' \in {"alive", "destroyed", "dead"}
  BY ReturnsType DEF TypeOK
<1> QED
  BY <1>1 DEF TypeOK, config, handles, inited

\* The computations and the destructor preserve the types.
LEMMA TypeCompute ==
  ASSUME TypeOK, NEW i \in 0 .. MaxSets,
         ComputeImage \/ ImageTo(i) \/ QueryData(i) \/ Destroy
  PROVE  TypeOK'
<1>0. /\ {"ok", "refused", "throw", "abort", "undefined"} \subseteq Outcomes
      /\ {"TotalFlux", "Normalize", "CopyImageToBuffer", "ExportImage", "~CLibOI"} \subseteq Calls
  BY DEF Outcomes, Calls
<1>1. i \in Nat /\ sized.TotalFlux \in Nat /\ mImage.w * mImage.w \in Nat
  <2>1. mImage.w \in Nat
    BY DEF TypeOK, ImageInfo
  <2> QED
    BY <2>1, BoundAssumption DEF TypeOK
<1>2. CASE TotalFlux
  BY <1>0, <1>1, <1>2, OutcomeType, TypeQuiet DEF TotalFlux
<1>3. CASE Normalize
  BY <1>0, <1>1, <1>3, OutcomeType, TypeQuiet DEF Normalize
<1>4. CASE CopyImageToBuffer
  <2>1. PICK out \in Outcomes : Returns("CopyImageToBuffer", out, 0)
    BY <1>0, <1>4 DEF CopyImageToBuffer
  <2> QED
    BY <1>0, <1>4, <2>1, TypeQuiet DEF CopyImageToBuffer
<1>5. CASE ExportImage
  <2>1. PICK out \in Outcomes : Returns("ExportImage", out, mImage.w * mImage.w)
    BY <1>0, <1>5, OutcomeType DEF ExportImage, Then
  <2> QED
    BY <1>0, <1>1, <1>5, <2>1, TypeQuiet DEF ExportImage
<1>6. CASE ImageTo(i)
  <2>1. PICK op \in ComputeOps : ImageTo(i)!(op)
    BY <1>6 DEF ImageTo
  <2>2. op \in Calls
    BY DEF Calls
  <2>3. PICK out \in Outcomes : Returns(op, out, i)
    BY <1>0, <2>1, OutcomeType
  <2> QED
    BY <1>1, <2>1, <2>2, <2>3, TypeQuiet
<1>7. CASE QueryData(i)
  <2>1. PICK out \in {"ok", "throw", "undefined", "refused"} : QueryData(i)!(out)
    BY <1>7 DEF QueryData
  <2>2. "Query" \in Calls /\ out \in Outcomes
    BY <1>0, <2>1 DEF Calls
  <2> QED
    BY <2>1, <2>2, TypeQuiet
<1>8. CASE Destroy
  <2>1. last' \in [op : Calls, out : Outcomes, n : Nat]
    <3>1. "~CLibOI" \in Calls /\ "ok" \in Outcomes
      BY <1>0
    <3> QED
      BY <1>8, <3>1 DEF Destroy
  <2>2. phase' \in {"alive", "destroyed", "dead"} /\ live' \subseteq Handle
    BY <1>8 DEF Destroy, TypeOK
  <2> QED
    BY <1>8, <2>1, <2>2 DEF Destroy, TypeOK, config, handles, inited
<1> QED
  BY <1>2, <1>3, <1>4, <1>5, <1>6, <1>7, <1>8 DEF ComputeImage

\* Init and its halves preserve the types, wherever they fail.
LEMMA TypeInitCall ==
  TypeOK /\ (InitCall \/ InitMemoryCall \/ InitRoutinesCall) => TypeOK'
<1> SUFFICES ASSUME TypeOK, InitCall \/ InitMemoryCall \/ InitRoutinesCall PROVE TypeOK'
  OBVIOUS
<1>1. Pixels \in Nat /\ MaxNumData \in Nat /\ MaxUVPoints \in Nat /\ epoch' \in Nat
  <2>1. mImage.w \in Nat /\ mImage.h \in Nat
    BY DEF TypeOK, ImageInfo
  <2>2. epoch' \in Nat
    BY DEF InitCall, InitMemoryCall, InitRoutinesCall, TypeOK
  <2> QED
    BY <2>1, <2>2, MaximaProperty DEF TypeOK, Pixels
<1>2. \A k \in {"image", "flux", "ft", "sim"} : Fresh(k) \in Handle
  <2>1. epoch + 1 \in Nat
    BY DEF TypeOK
  <2> QED
    BY <1>1, <2>1 DEF Fresh, Handle, MemorySize
<1>3. \A fail : CreatedMemory(fail) \subseteq {"image", "flux", "ft", "sim"}
  BY DEF CreatedMemory, WantedMemory
<1>4. ASSUME NEW fail, InitMemory(fail)
      PROVE  /\ mImage_cl' \in Handle /\ mFluxBuffer' \in Handle
             /\ mFTBuffer' \in Handle /\ mSimDataBuffer' \in Handle
             /\ live' \subseteq Handle /\ mMaxData' \in Nat /\ memory' \in Memory
  <2>1. \A k \in {"image", "flux", "ft", "sim"} : \A old \in Handle :
          Created(k, old, fail) \in Handle
    <3>1. NULL \in Handle
      BY DEF NULL, Handle
    <3> QED
      BY <1>2, <3>1 DEF Created
  <2>2. live' \subseteq Handle
    BY <1>2, <1>3, <1>4 DEF InitMemory, TypeOK
  <2>3. mMaxData' \in Nat
    BY <1>1, <1>4 DEF InitMemory, TypeOK
  <2>4. memory' \in Memory
    BY <1>4 DEF InitMemory, TypeOK, Memory
  <2> QED
    BY <1>4, <2>1, <2>2, <2>3, <2>4 DEF InitMemory, TypeOK
<1>5. ASSUME NEW max \in Nat, NEW fail, InitRoutines(fail, max)
      PROVE  /\ mDataRoutinesInitialized' \in BOOLEAN
             /\ routine' \in [Routines -> {"null", "made", "ready"}]
             /\ sized' \in [{"TotalFlux", "FT", "Chi", "LogLike"} -> Nat]
  <2>1. mDataRoutinesInitialized' \in BOOLEAN
    BY <1>5 DEF InitRoutines, ReachesDataRoutines, TypeOK
  <2>2. routine' \in [Routines -> {"null", "made", "ready"}]
    BY <1>5 DEF InitRoutines, Built, TypeOK
  <2>3. mImage.scale \in Nat
    BY DEF TypeOK, ImageInfo
  <2>4. sized' \in [{"TotalFlux", "FT", "Chi", "LogLike"} -> Nat]
    BY <1>1, <1>5, <2>3 DEF InitRoutines, ReachesDataRoutines, InitArgument, TypeOK
  <2> QED
    BY <2>1, <2>2, <2>4
<1>6. ASSUME NEW op \in {"Init", "InitMemory", "InitRoutines"}, NEW out \in {"ok", "throw"},
             Returns(op, out, 0)
      PROVE  /\ last' \in [op : Calls, out : Outcomes, n : Nat]
             /\ phase' \in {"alive", "destroyed", "dead"}
  <2>1. op \in Calls /\ out \in Outcomes
    BY DEF Calls, Outcomes
  <2> QED
    BY <1>6, <2>1, ReturnsType DEF TypeOK
<1>7. CASE InitCall
  <2>1. UNCHANGED <<mDataList, config, mImage_gl>>
    BY <1>7 DEF InitCall
  <2>2. CASE \E fail \in WantedMemory :
            /\ InitMemory(fail)
            /\ Returns("Init", "throw", 0)
            /\ UNCHANGED <<mDataRoutinesInitialized, routine, sized>>
    BY <1>1, <1>4, <1>6, <2>1, <2>2 DEF TypeOK, config
  <2>3. CASE /\ InitMemory("none")
             /\ \E fail \in RoutineFailures(MaxNumData) :
                  /\ InitRoutines(fail, MaxNumData)
                  /\ Returns("Init", IF fail = "none" THEN "ok" ELSE "throw", 0)
    BY <1>1, <1>4, <1>5, <1>6, <2>1, <2>3 DEF TypeOK, config
  <2> QED
    BY <1>7, <2>2, <2>3 DEF InitCall
<1>8. CASE InitMemoryCall
  <2>1. PICK fail \in WantedMemory \cup {"none"} :
          /\ InitMemory(fail)
          /\ Returns("InitMemory", IF fail = "none" THEN "ok" ELSE "throw", 0)
    BY <1>8 DEF InitMemoryCall
  <2>2. UNCHANGED <<mDataList, config, mImage_gl, mDataRoutinesInitialized, routine, sized>>
    BY <1>8 DEF InitMemoryCall
  <2> QED
    BY <1>1, <1>4, <1>6, <2>1, <2>2 DEF TypeOK, config
<1>9. CASE InitRoutinesCall
  <2>1. PICK fail \in RoutineFailures(mMaxData) :
          /\ InitRoutines(fail, mMaxData)
          /\ Returns("InitRoutines", IF fail = "none" THEN "ok" ELSE "throw", 0)
    BY <1>9 DEF InitRoutinesCall
  <2>2. UNCHANGED <<mDataList, config, handles, mMaxData, live>>
    BY <1>9 DEF InitRoutinesCall
  <2>3. memory' \in Memory
    BY <1>9 DEF InitRoutinesCall, Memory, TypeOK
  <2>4. mMaxData \in Nat
    BY DEF TypeOK
  <2> QED
    BY <1>1, <1>5, <1>6, <2>1, <2>2, <2>3, <2>4 DEF TypeOK, config, handles
<1> QED
  BY <1>7, <1>8, <1>9

\* The types are preserved by every call, in any order.
LEMMA TypeStep == TypeOK /\ [Next]_vars => TypeOK'
<1> SUFFICES ASSUME TypeOK, [Next]_vars PROVE TypeOK'
  OBVIOUS
<1>1. CASE UNCHANGED vars
  BY <1>1 DEF vars, config, handles, inited, TypeOK
<1>2. CASE Next
  <2>1. 0 \in 0 .. MaxSets
    BY BoundAssumption
  <2>2. CASE Configure \/ InitCall \/ InitMemoryCall \/ InitRoutinesCall
    BY <2>2, TypeConfigure, TypeInitCall
  <2>3. CASE LoadData \/ ComputeImage \/ Destroy
    BY <2>1, <2>3, TypeData, TypeCompute
  <2>4. CASE \E i \in 0 .. MaxSets : ChangeData(i) \/ ImageTo(i) \/ QueryData(i)
    BY <2>4, TypeData, TypeCompute
  <2> QED
    BY <1>2, <2>2, <2>3, <2>4 DEF Next
<1> QED
  BY <1>1, <1>2

\* The variables have their types at any time, whatever is called.
THEOREM TypeCorrect == Spec => []TypeOK
<1> QED
  BY TypeInit, TypeStep, PTL DEF Spec
-----------------------------------------------------------------------------
(* Every loaded data set fits                                              *)

\* While memory is current, the data buffers and the maximum InitMemory cached
\* cover every loaded data set.
Covered ==
  memory = "current" =>
    \A d \in Loaded : /\ mFTBuffer = NULL \/ Fits(mFTBuffer, d.nUV)
                      /\ mSimDataBuffer = NULL \/ Fits(mSimDataBuffer, NumData(d))
                      /\ NumData(d) <= mMaxData

\* Once the data routines are flagged nothing is loaded, and memory stays current.
FlagKeeps == mDataRoutinesInitialized => memory # "stale"

\* Data sets without observations are not loaded.
Observed == \A d \in Loaded : NumData(d) > 0

\* The inductive invariant: the properties and the reasons they last.
BuffersInv ==
  /\ TypeOK /\ DataBuffersFit /\ ChiBuffersFit /\ DataRoutinesFlagged
  /\ Covered /\ FlagKeeps /\ Observed

\* A list that one data set was appended to holds that one and those before.
LEMMA LoadedAppend ==
  ASSUME TypeOK, NEW d \in Storable, mDataList' = Append(mDataList, d)
  PROVE  Loaded' \subseteq Loaded \cup {d}
<1>1. mDataList \in Seq(Storable) /\ NumLoaded \in Nat
  BY LenProperties DEF TypeOK, NumLoaded
<1>2. /\ Len(mDataList') = NumLoaded + 1
      /\ \A k \in 1 .. NumLoaded : mDataList'[k] = mDataList[k]
      /\ mDataList'[NumLoaded + 1] = d
  BY <1>1, AppendProperties DEF NumLoaded
<1>3. ASSUME NEW k \in 1 .. NumLoaded + 1
      PROVE  mDataList'[k] \in Loaded \cup {d}
  <2>1. k \in 1 .. NumLoaded \/ k = NumLoaded + 1
    BY <1>1
  <2> QED
    BY <1>2, <2>1 DEF Loaded
<1> QED
  BY <1>2, <1>3 DEF Loaded, NumLoaded

\* A step that leaves the data buffers and the routines alone, and adds nothing
\* to the list, preserves the invariant.
LEMMA QuietStep ==
  ASSUME BuffersInv, TypeOK', UNCHANGED <<mFTBuffer, mSimDataBuffer, inited>>,
         Loaded' \subseteq Loaded
  PROVE  BuffersInv'
<1>1. DataRoutinesFlagged' /\ FlagKeeps'
  BY DEF BuffersInv, DataRoutinesFlagged, FlagKeeps, inited
<1>2. Covered'
  BY DEF BuffersInv, Covered, Fits, inited
<1>3. DataBuffersFit'
  BY DEF BuffersInv, DataBuffersFit, Fits, inited
<1>4. ChiBuffersFit' /\ Observed'
  BY DEF BuffersInv, ChiBuffersFit, Observed, inited
<1> QED
  BY <1>1, <1>2, <1>3, <1>4 DEF BuffersInv

\* Every element of the list after an erase was there before.
LEMMA RemoveShrinks ==
  ASSUME TypeOK, NEW i \in 0 .. MaxSets, RemoveData(i)
  PROVE  Loaded' \subseteq Loaded
<1>1. CASE i < NumLoaded /\ mDataList' = RemoveAt(mDataList, i + 1)
  <2>1. mDataList \in Seq(Storable)
    BY DEF TypeOK
  <2>2. i + 1 \in 1 .. Len(mDataList)
    BY <1>1, <2>1, BoundAssumption, LenProperties DEF NumLoaded
  <2> QED
    BY <1>1, <2>1, <2>2, RemoveAtElements DEF Loaded, NumLoaded
<1>2. CASE UNCHANGED mDataList
  BY <1>2 DEF Loaded, NumLoaded
<1> QED
  BY <1>1, <1>2 DEF RemoveData

\* A data set is loaded only while no data routine exists; it makes memory stale.
LEMMA LoadStep ==
  ASSUME BuffersInv, TypeOK', LoadData
  PROVE  BuffersInv'
<1>1. UNCHANGED <<mFTBuffer, mSimDataBuffer, mMaxData, mDataRoutinesInitialized, routine, sized>>
  BY DEF LoadData, handles
<1>2. CASE mDataList' = mDataList /\ memory' = memory
  <2>1. Loaded' \subseteq Loaded
    BY <1>2 DEF Loaded, NumLoaded
  <2> QED
    BY <1>1, <1>2, <2>1, QuietStep DEF inited
<1>3. CASE /\ ~mDataRoutinesInitialized /\ memory' = "stale"
           /\ \E d \in DataSets : NumData(d) > 0 /\ mDataList' = Append(mDataList, Padded(d))
  <2>1. PICK d \in DataSets : NumData(d) > 0 /\ mDataList' = Append(mDataList, Padded(d))
    BY <1>3
  <2>2. d \in Count /\ Padded(d) \in Storable
    BY DataAssumption
  <2>3. NumData(Padded(d)) = NumData(d)
    BY <2>2 DEF Count, Padded, NumData
  <2>4. Loaded' \subseteq Loaded \cup {Padded(d)}
    BY <2>1, <2>2, LoadedAppend DEF BuffersInv
  <2>5. Observed'
    BY <2>1, <2>3, <2>4 DEF BuffersInv, Observed
  <2>6. DataRoutinesFlagged' /\ FlagKeeps' /\ Covered' /\ DataBuffersFit'
    BY <1>1, <1>3 DEF BuffersInv, DataRoutinesFlagged, FlagKeeps, Covered, DataBuffersFit
  <2>7. \A r \in {"Chi", "LogLike"} : routine'[r] = "null"
    BY <1>1, <1>3 DEF BuffersInv, DataRoutinesFlagged, DataRoutines
  <2>8. ChiBuffersFit'
    BY <2>7 DEF ChiBuffersFit
  <2> QED
    BY <2>5, <2>6, <2>8 DEF BuffersInv
<1> QED
  BY <1>2, <1>3 DEF LoadData

\* InitMemory makes the data buffers anew for the largest data set, or leaves
\* buffers that covered the list before; where OpenCL refused, the handle is
\* NULL.
LEMMA MemoryFits ==
  ASSUME BuffersInv, NEW fail \in WantedMemory \cup {"none"}, InitMemory(fail),
         UNCHANGED mDataList
  PROVE  Covered' /\ Observed'
<1>1. /\ MaxNumData \in Nat /\ MaxUVPoints \in Nat
      /\ \A d \in Loaded : NumData(d) <= MaxNumData /\ d.nUV <= MaxUVPoints
  BY MaximaProperty DEF BuffersInv, TypeOK
<1>2. \A d \in Loaded : NumData(d) \in Nat /\ d.nUV \in Nat /\ NumData(d) > 0
  BY LoadedCounts DEF BuffersInv, Observed, TypeOK
<1>3. Fresh("ft").size = MaxUVPoints /\ Fresh("sim").size = MaxNumData
  BY DEF Fresh, MemorySize
<1>4. /\ mFTBuffer' = Created("ft", mFTBuffer, fail)
      /\ mSimDataBuffer' = Created("sim", mSimDataBuffer, fail)
      /\ mMaxData' = IF fail = "image" THEN mMaxData ELSE MaxNumData
      /\ memory' = IF fail = "none" /\ memory # "missed" THEN "current" ELSE memory
  BY DEF InitMemory
<1>5. Loaded' = Loaded
  BY DEF Loaded, NumLoaded
<1>6. Observed'
  BY <1>5 DEF BuffersInv, Observed
<1>7. SUFFICES ASSUME memory' = "current", NEW d \in Loaded
               PROVE  /\ mFTBuffer' = NULL \/ Fits(mFTBuffer', d.nUV)
                      /\ mSimDataBuffer' = NULL \/ Fits(mSimDataBuffer', NumData(d))
                      /\ NumData(d) <= mMaxData'
  BY <1>5, <1>6 DEF Covered
<1>8. fail = "none" \/ memory = "current"
  BY <1>4, <1>7
<1>9. memory = "current" =>
        /\ mFTBuffer = NULL \/ Fits(mFTBuffer, d.nUV)
        /\ mSimDataBuffer = NULL \/ Fits(mSimDataBuffer, NumData(d))
        /\ NumData(d) <= mMaxData
  BY DEF BuffersInv, Covered
<1>10. \A k \in {"ft", "sim"} : fail = "none" => k \in CreatedMemory(fail)
  <2>1. MaxNumData > 0
    BY <1>1, <1>2
  <2> QED
    BY <2>1 DEF CreatedMemory, WantedMemory, MemoryRank
<1>11. mFTBuffer' = NULL \/ mFTBuffer' = Fresh("ft") \/ (mFTBuffer' = mFTBuffer /\ fail # "none")
  BY <1>4, <1>10 DEF Created
<1>12. \/ mSimDataBuffer' = NULL \/ mSimDataBuffer' = Fresh("sim")
       \/ mSimDataBuffer' = mSimDataBuffer /\ fail # "none"
  BY <1>4, <1>10 DEF Created
<1>13. mFTBuffer' = NULL \/ Fits(mFTBuffer', d.nUV)
  BY <1>1, <1>2, <1>3, <1>8, <1>9, <1>11 DEF Fits
<1>14. mSimDataBuffer' = NULL \/ Fits(mSimDataBuffer', NumData(d))
  BY <1>1, <1>2, <1>3, <1>8, <1>9, <1>12 DEF Fits
<1>15. NumData(d) <= mMaxData'
  BY <1>1, <1>4, <1>8, <1>9
<1> QED
  BY <1>13, <1>14, <1>15

\* InitRoutines flags the data routines before it builds the first of them.
LEMMA RoutinesFlagged ==
  ASSUME BuffersInv, NEW max, NEW fail \in Routines \cup {"none"}, InitRoutines(fail, max)
  PROVE  DataRoutinesFlagged'
<1>1. routine' = Built(fail, max)
  BY DEF InitRoutines
<1>2. SUFFICES ASSUME NEW r \in DataRoutines, routine'[r] # "null"
               PROVE  mDataRoutinesInitialized'
  BY DEF DataRoutinesFlagged
<1>3. r \in Routines
  BY DEF Routines
<1>4. CASE routine[r] # "null"
  BY <1>4 DEF BuffersInv, DataRoutinesFlagged, InitRoutines
<1>5. CASE routine[r] = "null"
  <2>1. r \in Uninitialized(max)
    BY <1>1, <1>2, <1>3, <1>5 DEF Built
  <2>2. max > 0
    BY <2>1 DEF Uninitialized
  <2>3. fail = "none" \/ r = fail \/ Rank[r] < Rank[fail]
    BY <1>1, <1>2, <1>3, <2>1 DEF Built
  <2>4. fail \notin BaseRoutines
    BY <2>3 DEF BaseRoutines, DataRoutines, Rank
  <2> QED
    BY <2>2, <2>4 DEF InitRoutines, ReachesDataRoutines
<1> QED
  BY <1>4, <1>5

\* It sizes a routine for max when it builds it; a routine that was there keeps
\* its size.
LEMMA RoutinesFit ==
  ASSUME BuffersInv, NEW max \in Nat, NEW fail, InitRoutines(fail, max),
         UNCHANGED mDataList, memory # "missed",
         \A d \in Loaded : NumData(d) <= max
  PROVE  ChiBuffersFit'
<1>1. Loaded' = Loaded
  BY DEF Loaded, NumLoaded
<1>2. routine' = Built(fail, max)
  BY DEF InitRoutines
<1>3. SUFFICES ASSUME NEW r \in {"Chi", "LogLike"}, routine'[r] = "ready", NEW d \in Loaded
               PROVE  sized'[r] >= NumData(d)
  BY <1>1 DEF ChiBuffersFit
<1>4. r \in Routines /\ r \in DOMAIN sized
  BY DEF Routines, DataRoutines, BuffersInv, TypeOK
<1>5. CASE routine[r] = "null"
  <2>1. sized'[r] = max
    BY <1>3, <1>4, <1>5 DEF InitRoutines, InitArgument
  <2>2. NumData(d) \in Nat
    <3>1. mDataList \in Seq(Storable)
      BY DEF BuffersInv, TypeOK
    <3> QED
      BY <3>1, LoadedCounts
  <2> QED
    BY <2>1, <2>2
<1>6. CASE routine[r] # "null"
  <2>1. sized'[r] = sized[r]
    BY <1>4, <1>6 DEF InitRoutines
  <2>2. routine[r] = "ready"
    BY <1>2, <1>3, <1>4, <1>6 DEF Built, Uninitialized
  <2> QED
    BY <2>1, <2>2 DEF BuffersInv, ChiBuffersFit
<1> QED
  BY <1>5, <1>6

\* Every failure of InitRoutines is that of a routine, or none.
LEMMA FailureIsRoutine ==
  \A max : \A fail \in RoutineFailures(max) : fail \in Routines \cup {"none"}
<1> QED
  BY DEF RoutineFailures, Uninitialized

\* InitMemory, alone or before the routines are reached, preserves the invariant.
LEMMA MemoryStep ==
  ASSUME BuffersInv, TypeOK', NEW fail \in WantedMemory \cup {"none"}, InitMemory(fail),
         UNCHANGED <<mDataList, mDataRoutinesInitialized, routine, sized>>
  PROVE  BuffersInv'
<1>1. Covered' /\ Observed'
  BY MemoryFits
<1>2. memory' = IF fail = "none" /\ memory # "missed" THEN "current" ELSE memory
  BY DEF InitMemory
<1>3. FlagKeeps'
  BY <1>2 DEF BuffersInv, FlagKeeps
<1>4. DataBuffersFit'
  BY <1>1, <1>3 DEF TypeOK, Memory, Covered, FlagKeeps, DataBuffersFit
<1>5. ChiBuffersFit' /\ DataRoutinesFlagged'
  BY <1>2 DEF BuffersInv, ChiBuffersFit, DataRoutinesFlagged, Loaded, NumLoaded
<1> QED
  BY <1>1, <1>3, <1>4, <1>5 DEF BuffersInv

\* Init preserves the invariant, wherever it fails.
LEMMA InitStep ==
  ASSUME BuffersInv, TypeOK', InitCall
  PROVE  BuffersInv'
<1>1. UNCHANGED mDataList
  BY DEF InitCall
<1>2. CASE \E fail \in WantedMemory :
          /\ InitMemory(fail)
          /\ UNCHANGED <<mDataRoutinesInitialized, routine, sized>>
  BY <1>1, <1>2, MemoryStep
<1>3. CASE /\ InitMemory("none")
           /\ \E fail \in RoutineFailures(MaxNumData) : InitRoutines(fail, MaxNumData)
  <2>1. PICK fail \in RoutineFailures(MaxNumData) : InitRoutines(fail, MaxNumData)
    BY <1>3
  <2>2. Covered' /\ Observed'
    BY <1>1, <1>3, MemoryFits
  <2>3. DataRoutinesFlagged'
    BY <2>1, FailureIsRoutine, RoutinesFlagged
  <2>4. memory' = IF memory = "missed" THEN "missed" ELSE "current"
    BY <1>3 DEF InitMemory
  <2>5. FlagKeeps'
    BY <2>4 DEF FlagKeeps
  <2>6. DataBuffersFit'
    BY <2>2, <2>5 DEF TypeOK, Memory, Covered, FlagKeeps, DataBuffersFit
  <2>7. ChiBuffersFit'
    <3>1. MaxNumData \in Nat /\ \A d \in Loaded : NumData(d) <= MaxNumData
      BY MaximaProperty DEF BuffersInv, TypeOK
    <3>2. CASE memory = "missed"
      BY <2>4, <3>2 DEF ChiBuffersFit
    <3>3. CASE memory # "missed"
      BY <1>1, <2>1, <3>1, <3>3, RoutinesFit
    <3> QED
      BY <3>2, <3>3
  <2> QED
    BY <2>2, <2>3, <2>5, <2>6, <2>7 DEF BuffersInv
<1> QED
  BY <1>2, <1>3 DEF InitCall

\* InitRoutines called by itself: memory is current, and the cached maximum
\* covers the list; or it comes to no data routine; or memory is missed.
LEMMA RoutinesStep ==
  ASSUME BuffersInv, TypeOK', InitRoutinesCall
  PROVE  BuffersInv'
<1>1. PICK fail \in RoutineFailures(mMaxData) : InitRoutines(fail, mMaxData)
  BY DEF InitRoutinesCall
<1>2. UNCHANGED <<mDataList, mFTBuffer, mSimDataBuffer, mMaxData>> /\ Loaded' = Loaded
  BY DEF InitRoutinesCall, handles, Loaded, NumLoaded
<1>3. memory' = IF memory = "stale" /\ mDataRoutinesInitialized' THEN "missed" ELSE memory
  BY DEF InitRoutinesCall
<1>4. DataRoutinesFlagged'
  BY <1>1, FailureIsRoutine, RoutinesFlagged
<1>5. Covered' /\ Observed'
  BY <1>2, <1>3 DEF BuffersInv, Covered, Observed, Fits
<1>6. FlagKeeps'
  BY <1>3 DEF FlagKeeps
<1>7. DataBuffersFit'
  BY <1>5, <1>6 DEF TypeOK, Memory, Covered, FlagKeeps, DataBuffersFit
<1>8. ChiBuffersFit'
  <2>1. CASE memory' = "missed"
    BY <2>1 DEF ChiBuffersFit
  <2>2. CASE memory = "stale" /\ memory' # "missed"
    <3>1. ~mDataRoutinesInitialized'
      BY <1>3, <2>2
    <3>2. \A r \in {"Chi", "LogLike"} : routine'[r] = "null"
      BY <1>4, <3>1 DEF DataRoutinesFlagged, DataRoutines
    <3> QED
      BY <3>2 DEF ChiBuffersFit
  <2>3. CASE memory = "current"
    <3>1. mMaxData \in Nat /\ \A d \in Loaded : NumData(d) <= mMaxData
      BY <2>3 DEF BuffersInv, TypeOK, Covered
    <3> QED
      BY <1>1, <1>2, <2>3, <3>1, RoutinesFit
  <2>4. memory = "missed" => memory' = "missed"
    BY <1>3
  <2> QED
    BY <2>1, <2>2, <2>3, <2>4 DEF BuffersInv, TypeOK, Memory
<1> QED
  BY <1>4, <1>5, <1>6, <1>7, <1>8 DEF BuffersInv

\* The invariant holds initially and every call preserves it.
THEOREM BuffersInvariant == Spec => []BuffersInv
<1>1. InitMembers => BuffersInv
  <2> SUFFICES ASSUME InitMembers PROVE BuffersInv
    OBVIOUS
  <2>1. Loaded = {} /\ \A r \in Routines : routine[r] = "null"
    BY DEF InitMembers, Loaded, NumLoaded
  <2>2. DataRoutinesFlagged
    BY <2>1 DEF DataRoutinesFlagged, Routines
  <2>3. DataBuffersFit /\ ChiBuffersFit /\ Covered /\ Observed
    BY <2>1 DEF DataBuffersFit, ChiBuffersFit, Covered, Observed
  <2>4. FlagKeeps
    BY DEF InitMembers, FlagKeeps
  <2> QED
    BY <2>2, <2>3, <2>4, TypeInit DEF BuffersInv
<1>2. BuffersInv /\ TypeOK' /\ [Next]_vars => BuffersInv'
  <2> SUFFICES ASSUME BuffersInv, TypeOK', [Next]_vars PROVE BuffersInv'
    OBVIOUS
  <2>1. ASSUME UNCHANGED <<mDataList, mFTBuffer, mSimDataBuffer, inited>>
        PROVE  BuffersInv'
    <3>1. Loaded' \subseteq Loaded
      BY <2>1 DEF Loaded, NumLoaded
    <3> QED
      BY <2>1, <3>1, QuietStep
  <2>2. CASE UNCHANGED vars
    BY <2>1, <2>2 DEF vars, handles
  <2>3. CASE Configure
    BY <2>1, <2>3 DEF Configure, SetKernelSourcePath, SetImageInfo, SetImageSourceHost,
       SetImageSourceCL, SetImageSourceGL, handles
  <2>4. CASE LoadData
    BY <2>4, LoadStep
  <2>5. ASSUME NEW i \in 0 .. MaxSets, RemoveData(i)
        PROVE  BuffersInv'
    <3>1. UNCHANGED <<mFTBuffer, mSimDataBuffer, inited>>
      BY <2>5 DEF RemoveData, handles
    <3>2. Loaded' \subseteq Loaded
      BY <2>5, RemoveShrinks DEF BuffersInv
    <3> QED
      BY <3>1, <3>2, QuietStep
  <2>6. ASSUME NEW i \in 0 .. MaxSets, ReplaceData(i) \/ ImageTo(i) \/ QueryData(i)
        PROVE  BuffersInv'
    BY <2>1, <2>6 DEF ReplaceData, ImageTo, QueryData, handles
  <2>7. CASE ComputeImage \/ Destroy
    BY <2>1, <2>7 DEF ComputeImage, TotalFlux, Normalize, CopyImageToBuffer, ExportImage,
       Destroy, handles
  <2>8. CASE InitCall
    BY <2>8, InitStep
  <2>9. CASE InitMemoryCall
    BY <2>9, MemoryStep DEF InitMemoryCall
  <2>10. CASE InitRoutinesCall
    BY <2>10, RoutinesStep
  <2> QED
    BY <2>2, <2>3, <2>4, <2>5, <2>6, <2>7, <2>8, <2>9, <2>10 DEF Next, ChangeData
<1> QED
  BY <1>1, <1>2, TypeCorrect, PTL DEF Spec

\* Whatever was loaded, removed, replaced and re-initialised, every loaded data
\* set fits the Fourier and simulated-data buffers (liboi.cpp:541-547, 638), if
\* no InitRoutines was called by itself for data that no InitMemory had seen
\* (liboi.cpp:592).
THEOREM DataAlwaysFits == Spec => []DataBuffersFit
<1>1. BuffersInv => DataBuffersFit
  BY DEF BuffersInv
<1> QED
  BY <1>1, BuffersInvariant, PTL

\* The chi and log-likelihood buffers, sized once, are always large enough
\* (liboi.cpp:618-630), under the same condition.
THEOREM ChiAlwaysFits == Spec => []ChiBuffersFit
<1>1. BuffersInv => ChiBuffersFit
  BY DEF BuffersInv
<1> QED
  BY <1>1, BuffersInvariant, PTL

\* The flag that keeps LoadData out is up before any data routine exists
\* (liboi.cpp:592-631).
THEOREM RoutinesAlwaysFlagged == Spec => []DataRoutinesFlagged
<1>1. BuffersInv => DataRoutinesFlagged
  BY DEF BuffersInv
<1> QED
  BY <1>1, BuffersInvariant, PTL

-----------------------------------------------------------------------------
(* The list stays within its bound                                         *)

ListBound == NumLoaded <= MaxSets

\* Erasing one element of a list makes it shorter by one.
LEMMA RemoveAtLength ==
  ASSUME NEW S, NEW s \in Seq(S), NEW i \in 1 .. Len(s)
  PROVE  Len(RemoveAt(s, i)) = Len(s) - 1
<1> DEFINE a == SubSeq(s, 1, i - 1)
           z == SubSeq(s, i + 1, Len(s))
<1>1. Len(s) \in Nat /\ i \in Nat
  BY LenProperties
<1>2. a \in Seq(S) /\ Len(a) = i - 1
  BY SubSeqProperties
<1>3. z \in Seq(S) /\ Len(z) = Len(s) - i
  BY SubSeqProperties
<1> HIDE DEF a, z
<1>4. Len(a \o z) = Len(a) + Len(z)
  BY <1>2, <1>3, ConcatProperties
<1>5. Len(a \o z) = Len(s) - 1
  BY <1>1, <1>2, <1>3, <1>4
<1> QED
  BY <1>5 DEF RemoveAt, a, z

\* No call of a client makes the list longer than its bound.
LEMMA BoundStep ==
  ASSUME TypeOK, ListBound, ClientNext
  PROVE  ListBound'
<1>0. mDataList \in Seq(Storable) /\ NumLoaded \in Nat /\ MaxSets \in Nat
  BY BoundAssumption, LenProperties DEF TypeOK, NumLoaded
<1>1. ASSUME UNCHANGED mDataList PROVE ListBound'
  BY <1>1 DEF ListBound, NumLoaded
<1>2. CASE LoadData
  <2>1. PICK d \in DataSets : UNCHANGED mDataList \/ mDataList' = Append(mDataList, Padded(d))
    BY <1>2 DEF LoadData
  <2>2. Padded(d) \in Storable
    BY DataAssumption
  <2>3. CASE mDataList' = Append(mDataList, Padded(d))
    <3>1. Len(mDataList') = Len(mDataList) + 1
      BY <1>0, <2>2, <2>3, AppendProperties
    <3>2. NumLoaded < MaxSets
      BY <1>2 DEF LoadData
    <3> QED
      BY <1>0, <3>1, <3>2 DEF ListBound, NumLoaded
  <2> QED
    BY <1>1, <2>1, <2>3
<1>3. ASSUME NEW i \in 0 .. NumLoaded - 1, RemoveData(i) PROVE ListBound'
  <2>1. i + 1 \in 1 .. Len(mDataList) /\ i < NumLoaded
    BY <1>0 DEF NumLoaded
  <2>2. mDataList' = RemoveAt(mDataList, i + 1)
    BY <1>0, <1>3, <2>1 DEF RemoveData
  <2> QED
    BY <1>0, <2>1, <2>2, RemoveAtLength DEF ListBound, NumLoaded
<1>4. ASSUME NEW i \in 0 .. NumLoaded - 1, ReplaceData(i) \/ ImageTo(i) \/ QueryData(i)
      PROVE  ListBound'
  BY <1>1, <1>4 DEF ReplaceData, ImageTo, QueryData
<1>5. CASE ClientConfigure \/ Rescale
  BY <1>1, <1>5 DEF ClientConfigure, Rescale, SetKernelSourcePath, SetImageInfo,
     SetImageSourceHost, SetImageSourceCL, SetImageSourceGL
<1>6. CASE ClientInit \/ ClientCompute \/ Destroy
  BY <1>1, <1>6 DEF ClientInit, InitCall, ClientCompute, TotalFlux, Normalize,
     CopyImageToBuffer, ExportImage, Destroy
<1> QED
  BY <1>2, <1>3, <1>4, <1>5, <1>6 DEF ClientNext, ChangeData

\* Every call of a client is a call of LibOI.
LEMMA ClientCalls ==
  ASSUME TypeOK, ListBound, ClientNext
  PROVE  Next
<1>1. \A i \in 0 .. NumLoaded - 1 : i \in 0 .. MaxSets
  BY BoundAssumption, LenProperties DEF TypeOK, NumLoaded, ListBound
<1>2. ClientConfigure \/ Rescale => Configure
  BY DEF ClientConfigure, Rescale, Configure
<1>3. ClientInit => InitCall
  BY DEF ClientInit
<1>4. ClientCompute => ComputeImage
  BY DEF ClientCompute, ComputeImage
<1> QED
  BY <1>1, <1>2, <1>3, <1>4 DEF ClientNext, Next

\* The client's behaviours are behaviours of LibOI: whatever is true of any
\* sequence of calls is true of a client that keeps to the documented order.
THEOREM ClientIsLibOI == ClientSpec => Spec
<1>1. InitMembers => TypeOK /\ ListBound
  <2>1. InitMembers => ListBound
    BY BoundAssumption DEF InitMembers, ListBound, NumLoaded
  <2> QED
    BY <2>1, TypeInit
<1>2. TypeOK /\ ListBound /\ [ClientNext]_vars => (TypeOK /\ ListBound)' /\ [Next]_vars
  <2> SUFFICES ASSUME TypeOK, ListBound, [ClientNext]_vars
               PROVE  (TypeOK /\ ListBound)' /\ [Next]_vars
    OBVIOUS
  <2>1. [Next]_vars
    BY ClientCalls
  <2>2. ListBound'
    BY BoundStep DEF ListBound, NumLoaded, vars
  <2>3. TypeOK'
    BY <2>1, TypeStep
  <2> QED
    BY <2>1, <2>2, <2>3
<1> QED
  BY <1>1, <1>2, PTL DEF ClientSpec, Spec
-----------------------------------------------------------------------------
(* Images are treated as they are described                                *)

\* No routine is built before the first, so a client that may still describe
\* its image has none.
BuiltInOrder == NotYetInit => \A r \in Routines : routine[r] = "null"

\* The routines that depend on the image were built for the present one.
BuiltForImage ==
  /\ routine["FT"] # "null" => sized.FT = mImage.scale
  /\ routine["TotalFlux"] # "null" => sized.TotalFlux = Pixels

\* Who got an answer has a transform; who got a total flux got that of as many
\* pixels as the routine was built for.
Answered ==
  /\ last.op \in ComputeOps /\ last.out = "ok" => routine["FT"] # "null"
  /\ last.op = "TotalFlux" /\ last.out = "ok" =>
       routine["TotalFlux"] # "null" /\ last.n = sized.TotalFlux

ImageInv == TypeOK /\ ListBound /\ BuiltInOrder /\ BuiltForImage /\ Answered

\* The Init of the routines leaves none of them unbuilt that was built, and
\* builds the first, whichever of them throws.
LEMMA RoutinesBuilt ==
  ASSUME TypeOK, NEW max, NEW fail \in RoutineFailures(max), InitRoutines(fail, max)
  PROVE  /\ routine'["Zero"] # "null"
         /\ \A r \in Routines : routine[r] # "null" => routine'[r] = routine[r]
<1>1. fail \in Routines \cup {"none"}
  BY DEF RoutineFailures, Uninitialized
<1>2. routine' = Built(fail, max)
  BY DEF InitRoutines
<1>3. "Zero" \in Routines
  BY DEF Routines, BaseRoutines
<1>4. routine["Zero"] = "null" => "Zero" \in Uninitialized(max)
  BY <1>3 DEF Uninitialized, DataRoutines
<1>5. fail \in Routines \ {"Zero"} => Rank["Zero"] < Rank[fail]
  BY DEF Routines, BaseRoutines, DataRoutines, Rank
<1>6. routine'["Zero"] # "null"
  BY <1>1, <1>2, <1>3, <1>4, <1>5 DEF Built
<1>7. \A r \in Routines : routine[r] # "null" => routine'[r] = routine[r]
  BY <1>2 DEF Built, Uninitialized
<1> QED
  BY <1>6, <1>7

\* Each step of Init either leaves the routines alone and throws, or is
\* InitRoutines for the failure of one of them, or of none.
LEMMA InitCases ==
  ASSUME InitCall
  PROVE  \/ UNCHANGED <<routine, sized>> /\ last'.out = "throw"
         \/ \E fail \in RoutineFailures(MaxNumData) : InitRoutines(fail, MaxNumData)
<1> QED
  BY DEF InitCall, Returns

\* A call that leaves routines and image alone, and answers nothing, preserves
\* the invariant.
LEMMA ImageQuiet ==
  ASSUME ImageInv, TypeOK', ListBound', UNCHANGED <<routine, sized, mImage>>,
         last'.op \notin ComputeOps \cup {"TotalFlux"}
  PROVE  ImageInv'
<1> QED
  BY DEF ImageInv, BuiltInOrder, NotYetInit, BuiltForImage, Pixels, Answered

\* A new description of the image finds no routine built for the old one.
LEMMA ImageDescribed ==
  ASSUME ImageInv, TypeOK', ListBound', ClientConfigure \/ Rescale
  PROVE  ImageInv'
<1>1. last'.op \in {"SetKernelSourcePath", "SetImageInfo", "SetImageSource"}
  BY DEF ClientConfigure, Rescale, SetKernelSourcePath, SetImageInfo,
     SetImageSourceHost, SetImageSourceCL, SetImageSourceGL, Returns
<1>2. last'.op \notin ComputeOps \cup {"TotalFlux"}
  BY <1>1 DEF ComputeOps
<1>3. UNCHANGED <<routine, sized>>
  BY DEF ClientConfigure, Rescale, SetKernelSourcePath, SetImageInfo,
     SetImageSourceHost, SetImageSourceCL, SetImageSourceGL, inited
<1>4. BuiltInOrder' /\ Answered'
  BY <1>2, <1>3 DEF ImageInv, BuiltInOrder, NotYetInit, Answered
<1>5. CASE NotYetInit
  <2>1. routine["FT"] = "null" /\ routine["TotalFlux"] = "null"
    BY <1>5 DEF ImageInv, BuiltInOrder, Routines, BaseRoutines, DataRoutines
  <2> QED
    BY <1>3, <1>4, <2>1 DEF ImageInv, BuiltForImage
<1>6. CASE Rescale
  <2>1. mImage \in ImageInfo /\ mImage' \in ImageInfo
    BY DEF ImageInv, TypeOK
  <2>2. mImage'.w = mImage.w /\ mImage'.h = mImage.h
    BY <1>6, <2>1 DEF Rescale, ImageInfo
  <2>3. Pixels' = Pixels
    BY <2>2 DEF Pixels
  <2>4. routine["FT"] = "null"
    BY <1>6 DEF Rescale
  <2> QED
    BY <1>3, <1>4, <2>3, <2>4 DEF ImageInv, BuiltForImage
<1> QED
  BY <1>5, <1>6 DEF ClientConfigure

\* Init builds a routine for the present image, and keeps it if it was built.
LEMMA ImageInit ==
  ASSUME ImageInv, TypeOK', ListBound', InitCall
  PROVE  ImageInv'
<1>1. UNCHANGED mImage
  BY DEF InitCall, config
<1>2. last'.op \notin ComputeOps \cup {"TotalFlux"}
  BY DEF InitCall, Returns, ComputeOps
<1>3. CASE \E fail \in RoutineFailures(MaxNumData) : InitRoutines(fail, MaxNumData)
  <2>1. PICK fail \in RoutineFailures(MaxNumData) : InitRoutines(fail, MaxNumData)
    BY <1>3
  <2>2. /\ routine'["Zero"] # "null"
        /\ \A r \in Routines : routine[r] # "null" => routine'[r] = routine[r]
    BY <2>1, RoutinesBuilt DEF ImageInv
  <2>3. "FT" \in Routines /\ "TotalFlux" \in Routines
    BY DEF Routines, BaseRoutines, DataRoutines
  <2>4. \A r \in {"FT", "TotalFlux"} :
          sized'[r] = IF routine[r] = "null" /\ routine'[r] # "null"
                        THEN InitArgument(r, MaxNumData) ELSE sized[r]
    BY <2>1 DEF InitRoutines, ImageInv, TypeOK
  <2>5. /\ InitArgument("FT", MaxNumData) = mImage.scale
        /\ InitArgument("TotalFlux", MaxNumData) = Pixels
    BY DEF InitArgument
  <2>6. Pixels' = Pixels
    BY <1>1 DEF Pixels
  <2>7. BuiltForImage'
    BY <1>1, <2>2, <2>3, <2>4, <2>5, <2>6 DEF ImageInv, BuiltForImage
  <2> QED
    BY <1>2, <2>2, <2>7 DEF ImageInv, BuiltInOrder, NotYetInit, Answered
<1>4. CASE UNCHANGED <<routine, sized>>
  BY <1>1, <1>2, <1>4, ImageQuiet
<1> QED
  BY <1>3, <1>4, InitCases

\* An answer comes from a transform that was built.
LEMMA ImageAnswers ==
  ASSUME ImageInv, TypeOK', ListBound', NEW i, ImageTo(i)
  PROVE  ImageInv'
<1>1. UNCHANGED <<routine, sized, mImage>>
  BY DEF ImageTo, config, inited
<1>2. PICK op \in ComputeOps :
        last' = [op |-> op,
                 out |-> IF DataNumRefused(i) THEN "refused"
                         ELSE IF i >= NumLoaded THEN "throw"
                         ELSE ComputeStep(op, DataSet(i)),
                 n |-> i]
  BY DEF ImageTo, Returns
<1>3. last'.op # "TotalFlux"
  BY <1>2 DEF ComputeOps
<1>4. ASSUME last'.out = "ok" PROVE routine["FT"] # "null"
  <2>1. ComputeStep(op, DataSet(i)) = "ok"
    BY <1>2, <1>4
  <2>2. ImageToDataStep(DataSet(i)) = "ok"
    BY <2>1 DEF ComputeStep, Then
  <2>3. FTToDataStep(DataSet(i)) = "ok"
    BY <2>2 DEF ImageToDataStep, Then
  <2>4. Ready({"FT", "V2", "T3"})
    BY <2>3 DEF FTToDataStep
  <2> QED
    BY <2>4 DEF Ready
<1> QED
  BY <1>1, <1>3, <1>4 DEF ImageInv, BuiltInOrder, NotYetInit, BuiltForImage, Pixels, Answered

\* The calls on the image answer for as many pixels as the sum was built for.
LEMMA ImageFlux ==
  ASSUME ImageInv, TypeOK', ListBound', ClientCompute
  PROVE  ImageInv'
<1>1. UNCHANGED <<routine, sized, mImage>>
  BY DEF ClientCompute, TotalFlux, Normalize, CopyImageToBuffer, ExportImage, config, inited
<1>2. CASE TotalFlux
  <2>1. last' = [op |-> "TotalFlux", out |-> FluxStep, n |-> sized.TotalFlux]
    BY <1>2 DEF TotalFlux, Returns
  <2>2. FluxStep = "ok" => Ready({"Zero", "TotalFlux"})
    BY DEF FluxStep
  <2>3. last'.op \notin ComputeOps
    BY <2>1 DEF ComputeOps
  <2> QED
    BY <1>1, <2>1, <2>2, <2>3
       DEF ImageInv, BuiltInOrder, NotYetInit, BuiltForImage, Pixels, Answered, Ready
<1>3. CASE Normalize \/ CopyImageToBuffer \/ ExportImage
  <2>1. last'.op \in {"Normalize", "CopyImageToBuffer", "ExportImage"}
    BY <1>3 DEF Normalize, CopyImageToBuffer, ExportImage, Returns
  <2> QED
    BY <1>1, <2>1, ImageQuiet DEF ComputeOps
<1> QED
  BY <1>2, <1>3 DEF ClientCompute

\* The invariant holds initially and every call of a client preserves it.
THEOREM ImageInvariant == ClientSpec => []ImageInv
<1>1. InitMembers => ImageInv
  <2> SUFFICES ASSUME InitMembers PROVE ImageInv
    OBVIOUS
  <2>1. ListBound
    BY BoundAssumption DEF InitMembers, ListBound, NumLoaded
  <2>2. BuiltInOrder /\ BuiltForImage
    BY DEF InitMembers, BuiltInOrder, BuiltForImage, Routines, BaseRoutines, DataRoutines
  <2>3. Answered
    BY DEF InitMembers, Answered, ComputeOps
  <2> QED
    BY <2>1, <2>2, <2>3, TypeInit DEF ImageInv
<1>2. ImageInv /\ [ClientNext]_vars => ImageInv'
  <2> SUFFICES ASSUME ImageInv, [ClientNext]_vars PROVE ImageInv'
    OBVIOUS
  <2>1. CASE UNCHANGED vars
    <3>1. TypeOK' /\ ListBound'
      BY <2>1, TypeStep DEF ImageInv, ListBound, NumLoaded, vars
    <3> QED
      BY <2>1, <3>1 DEF ImageInv, BuiltInOrder, NotYetInit, BuiltForImage, Pixels, Answered,
         vars, config, inited
  <2>2. CASE ClientNext
    <3>1. TypeOK' /\ ListBound'
      BY <2>2, ClientCalls, TypeStep, BoundStep DEF ImageInv
    <3>2. CASE ClientConfigure \/ Rescale
      BY <3>1, <3>2, ImageDescribed
    <3>3. CASE ClientInit
      BY <3>1, <3>3, ImageInit DEF ClientInit
    <3>4. CASE ClientCompute
      BY <3>1, <3>4, ImageFlux
    <3>5. CASE \E i \in 0 .. NumLoaded - 1 : ImageTo(i)
      BY <3>1, <3>5, ImageAnswers
    <3>6. CASE LoadData \/ Destroy \/ \E i \in 0 .. NumLoaded - 1 : ChangeData(i) \/ QueryData(i)
      <4>1. UNCHANGED <<routine, sized, mImage>>
        BY <3>6 DEF LoadData, Destroy, ChangeData, RemoveData, ReplaceData, QueryData,
           config, inited
      <4>2. last'.op \in {"LoadData", "~CLibOI", "RemoveData", "ReplaceData", "Query"}
        BY <3>6 DEF LoadData, Destroy, ChangeData, RemoveData, ReplaceData, QueryData, Returns
      <4> QED
        BY <3>1, <4>1, <4>2, ImageQuiet DEF ComputeOps
    <3> QED
      BY <2>2, <3>2, <3>3, <3>4, <3>5, <3>6 DEF ClientNext
  <2> QED
    BY <2>1, <2>2
<1> QED
  BY <1>1, <1>2, PTL DEF ClientSpec

\* The transform behind an answer is the one for the scale of the image, for
\* any images and scales (liboi.cpp:590-596).
THEOREM ScaleAlwaysCurrent == ClientSpec => []ScaleIsCurrent
<1>1. ImageInv => ScaleIsCurrent
  BY DEF ImageInv, BuiltForImage, Answered, ScaleIsCurrent
<1> QED
  BY <1>1, ImageInvariant, PTL

\* A total flux is the sum of all pixels of the image, for images of any size
\* (liboi.cpp:566-571).
THEOREM FluxAlwaysCovers == ClientSpec => []TotalFluxCoversImage
<1>1. ImageInv => TotalFluxCoversImage
  BY DEF ImageInv, BuiltForImage, Answered, TotalFluxCoversImage
<1> QED
  BY <1>1, ImageInvariant, PTL
-----------------------------------------------------------------------------
(* What the object holds is released                                       *)

\* The members hold buffers of their own kind, or a buffer of the client's.
HandleKinds ==
  /\ mImage_cl.kind \in {"none", "image", "user"}
  /\ mImage_cl.kind = "user" => mImage_cl \in UserBuffers
  /\ mFTBuffer.kind \in {"none", "ft"} /\ mSimDataBuffer.kind \in {"none", "sim"}

\* The image and data buffers that the members hold are not newer than the
\* last Init.
HandleAges ==
  \A h \in {mImage_cl, mFTBuffer, mSimDataBuffer} : h.kind # "user" => h.gen <= epoch

LiveKinds == \A h \in live : h.kind # "none" /\ (h.kind = "user" => h \in UserBuffers)

\* A client that still may hand over a buffer of its own overwrites none that
\* an Init created.
NothingOverwritten == phase = "alive" /\ NotYetInit /\ ~Failed => mImage_cl.kind # "image"

\* What is alive is held, or an image or data buffer of an earlier Init.
Accounted ==
  phase = "alive" =>
    \A h \in live \ UserBuffers :
      h \in Held \/ (h.kind \in {"image", "ft", "sim"} /\ h.gen < epoch)

HeldInv == /\ HandleKinds /\ HandleAges /\ LiveKinds
           /\ NothingOverwritten /\ Accounted /\ NothingLeaks

\* The client's buffers are of their own kind, which is not that of NULL.
LEMMA UserKinds == \A h \in UserBuffers : h.kind = "user"
<1> QED
  BY BufferAssumption

\* A call that leaves buffers and routines alone preserves the invariant, if it
\* does not follow one that failed.
LEMMA HeldQuiet ==
  ASSUME HeldInv, phase = "alive", ~Failed, UNCHANGED <<handles, live, epoch, routine>>,
         phase' \in {"alive", "dead"}
  PROVE  HeldInv'
<1>1. HandleKinds' /\ HandleAges' /\ LiveKinds'
  BY DEF HeldInv, HandleKinds, HandleAges, LiveKinds, handles
<1>2. NothingOverwritten'
  BY DEF HeldInv, NothingOverwritten, NotYetInit, handles
<1>3. Accounted'
  BY DEF HeldInv, Accounted, Held, handles
<1>4. NothingLeaks'
  BY DEF NothingLeaks
<1> QED
  BY <1>1, <1>2, <1>3, <1>4 DEF HeldInv

\* Returning leaves a living object alive, or dead.
LEMMA ReturnsPhase ==
  ASSUME phase = "alive", NEW op, NEW out, NEW n, Returns(op, out, n)
  PROVE  phase' \in {"alive", "dead"}
<1> QED
  BY DEF Returns

\* A buffer of the client's replaces no buffer that the object created.
LEMMA HeldSourceCL ==
  ASSUME HeldInv, phase = "alive", NotYetInit, ~Failed, SetImageSourceCL
  PROVE  HeldInv'
<1>1. PICK user \in UserBuffers : mImage_cl' = user
  BY DEF SetImageSourceCL
<1>2. user.kind = "user"
  BY UserKinds
<1>3. UNCHANGED <<mImage_gl, mFluxBuffer, mFTBuffer, mSimDataBuffer, live, epoch>>
  BY DEF SetImageSourceCL
<1>4. phase' \in {"alive", "dead"}
  BY ReturnsPhase DEF SetImageSourceCL
<1>5. HandleKinds' /\ HandleAges' /\ LiveKinds' /\ NothingOverwritten'
  BY <1>1, <1>2, <1>3 DEF HeldInv, HandleKinds, HandleAges, LiveKinds, NothingOverwritten
<1>6. ASSUME NEW h \in live \ UserBuffers, h \in Held PROVE h \in Held'
  <2>1. h # mImage_cl
    BY <1>6 DEF HeldInv, HandleKinds, LiveKinds, NothingOverwritten
  <2> QED
    BY <1>3, <1>6, <2>1 DEF Held
<1>7. Accounted'
  BY <1>3, <1>6 DEF HeldInv, Accounted
<1> QED
  BY <1>4, <1>5, <1>7 DEF HeldInv, NothingLeaks

\* A buffer for an OpenGL source is held when it is created, and replaces none.
LEMMA HeldSourceGL ==
  ASSUME HeldInv, TypeOK, phase = "alive", NotYetInit, ~Failed,
         mImage_gl = NULL, SetImageSourceGL
  PROVE  HeldInv'
<1>1. UNCHANGED <<mImage_cl, mFluxBuffer, mFTBuffer, mSimDataBuffer, routine>>
  BY DEF SetImageSourceGL, inited
<1>2. epoch \in Nat /\ epoch' = epoch + 1
  BY DEF TypeOK, SetImageSourceGL
<1>3. phase' \in {"alive", "dead"}
  BY ReturnsPhase DEF SetImageSourceGL
<1>4. \/ mImage_gl'.kind = "gl" /\ live' = live \cup {mImage_gl'}
      \/ UNCHANGED live
  BY DEF SetImageSourceGL
<1>5. HandleKinds' /\ NothingOverwritten'
  BY <1>1 DEF HeldInv, HandleKinds, NothingOverwritten, NotYetInit
<1>6. HandleAges'
  <2>1. \A h \in {mImage_cl, mFTBuffer, mSimDataBuffer} : h.gen \in Nat
    BY DEF TypeOK, Handle
  <2> QED
    BY <1>1, <1>2, <2>1 DEF HeldInv, HandleAges
<1>7. LiveKinds'
  BY <1>4 DEF HeldInv, LiveKinds
<1>8. ASSUME NEW h \in live \ UserBuffers
      PROVE  h \in Held' \/ (h.kind \in {"image", "ft", "sim"} /\ h.gen < epoch')
  <2>1. h # mImage_gl
    BY DEF HeldInv, LiveKinds, NULL
  <2>2. h \in Held => h \in Held'
    BY <1>1, <2>1 DEF Held
  <2>3. h.gen \in Nat
    BY DEF TypeOK, Handle
  <2> QED
    BY <1>2, <2>2, <2>3 DEF HeldInv, Accounted
<1>9. Accounted'
  BY <1>4, <1>8 DEF Accounted, Held
<1> QED
  BY <1>3, <1>5, <1>6, <1>7, <1>9 DEF HeldInv, NothingLeaks

\* Creating buffers, however far it gets: each that is created is held, and
\* what it replaces is older, and not the flux buffer.
LEMMA HeldMemory ==
  ASSUME HeldInv, TypeOK, phase = "alive", NEW fail \in WantedMemory \cup {"none"},
         InitMemory(fail), epoch' = epoch + 1, UNCHANGED mImage_gl
  PROVE  HandleKinds' /\ HandleAges' /\ LiveKinds' /\ Accounted'
<1>0. epoch \in Nat
  BY DEF TypeOK
<1>1. \A k : k \in CreatedMemory(fail) => Fresh(k).kind = k /\ Fresh(k).gen = epoch'
  BY DEF Fresh
<1>2. CreatedMemory(fail) \subseteq {"image", "flux", "ft", "sim"} /\ fail \notin CreatedMemory(fail)
  <2>1. CreatedMemory(fail) \subseteq {"image", "flux", "ft", "sim"}
    BY DEF CreatedMemory, WantedMemory
  <2>2. fail \in {"image", "flux", "ft", "sim", "none"}
    BY DEF WantedMemory
  <2>3. MemoryRank[fail] \in Nat
    BY <2>2 DEF MemoryRank
  <2>4. fail \notin CreatedMemory(fail)
    BY <2>3 DEF CreatedMemory
  <2> QED
    BY <2>1, <2>4
<1>3. /\ mImage_cl' = Created("image", mImage_cl, fail)
      /\ mFluxBuffer' = Created("flux", mFluxBuffer, fail)
      /\ mFTBuffer' = Created("ft", mFTBuffer, fail)
      /\ mSimDataBuffer' = Created("sim", mSimDataBuffer, fail)
      /\ live' = live \cup {Fresh(k) : k \in CreatedMemory(fail)}
  BY DEF InitMemory
<1>4. NULL.kind = "none" /\ NULL.gen = 0
  BY DEF NULL
<1>5. /\ mImage_cl' \in {NULL, mImage_cl} \/ (mImage_cl'.kind = "image" /\ mImage_cl'.gen = epoch')
      /\ mFTBuffer' \in {NULL, mFTBuffer} \/ (mFTBuffer'.kind = "ft" /\ mFTBuffer'.gen = epoch')
      /\ mSimDataBuffer' \in {NULL, mSimDataBuffer}
           \/ (mSimDataBuffer'.kind = "sim" /\ mSimDataBuffer'.gen = epoch')
  BY <1>1, <1>3 DEF Created
<1>6. HandleKinds'
  BY <1>4, <1>5 DEF HeldInv, HandleKinds
<1>7. HandleAges'
  <2>1. \A h \in {mImage_cl, mFTBuffer, mSimDataBuffer} : h.gen \in Nat
    BY DEF TypeOK, Handle
  <2> QED
    BY <1>0, <1>4, <1>5, <2>1 DEF HeldInv, HandleAges
<1>8. LiveKinds'
  <2>1. \A h \in live' : h \in live \/ h.kind \in {"image", "flux", "ft", "sim"}
    BY <1>1, <1>2, <1>3
  <2> QED
    BY <2>1 DEF HeldInv, LiveKinds
<1>9. ASSUME NEW h \in live \ UserBuffers, h \in Held
      PROVE  h \in Held' \/ (h.kind \in {"image", "ft", "sim"} /\ h.gen < epoch')
  <2>0. h.kind \notin {"none", "user"} /\ h.gen \in Nat
    BY DEF HeldInv, LiveKinds, TypeOK, Handle
  <2>1. CASE h = mFluxBuffer
    <3>1. h # NULL
      BY <1>4, <2>0
    <3>2. "flux" \notin WantedMemory
      BY <2>1, <3>1 DEF WantedMemory
    <3>3. mFluxBuffer' = mFluxBuffer
      BY <1>3, <3>2 DEF Created, CreatedMemory
    <3> QED
      BY <2>1, <3>3 DEF Held
  <2>2. CASE h = mImage_gl
    BY <2>2 DEF Held
  <2>3. CASE h \in {mImage_cl, mFTBuffer, mSimDataBuffer}
    <3>1. h.kind \in {"image", "ft", "sim"}
      BY <2>0, <2>3 DEF HeldInv, HandleKinds
    <3>2. h.gen <= epoch
      BY <2>0, <2>3 DEF HeldInv, HandleAges
    <3> QED
      BY <1>0, <2>0, <3>1, <3>2
  <2> QED
    BY <1>9, <2>1, <2>2, <2>3 DEF Held
<1>10. ASSUME NEW k \in CreatedMemory(fail) PROVE Fresh(k) \in Held'
  BY <1>2, <1>3 DEF Created, Held
<1>11. ASSUME NEW h \in live' \ UserBuffers
       PROVE  h \in Held' \/ (h.kind \in {"image", "ft", "sim"} /\ h.gen < epoch')
  <2>1. CASE h \in live /\ h \notin Held
    <3>1. h.gen \in Nat
      BY <2>1 DEF TypeOK, Handle
    <3>2. h.kind \in {"image", "ft", "sim"} /\ h.gen < epoch
      BY <1>11, <2>1 DEF HeldInv, Accounted
    <3> QED
      BY <1>0, <3>1, <3>2
  <2>2. CASE h \in live /\ h \in Held
    BY <1>9, <1>11, <2>2
  <2>3. CASE \E k \in CreatedMemory(fail) : h = Fresh(k)
    BY <1>10, <2>3
  <2> QED
    BY <1>3, <1>11, <2>1, <2>2, <2>3
<1>12. Accounted'
  BY <1>11 DEF Accounted
<1> QED
  BY <1>6, <1>7, <1>8, <1>12

\* Init preserves the invariant: one that throws is the last call but the
\* destructor's, and one that does not has built the first routine.
LEMMA HeldInit ==
  ASSUME HeldInv, TypeOK, phase = "alive", InitCall
  PROVE  HeldInv'
<1>1. epoch' = epoch + 1 /\ UNCHANGED mImage_gl
  BY DEF InitCall
<1>2. phase' \in {"alive", "dead"} /\ last'.op = "Init"
  BY DEF InitCall, Returns
<1>3. \E fail \in WantedMemory \cup {"none"} : InitMemory(fail)
  BY DEF InitCall
<1>4. HandleKinds' /\ HandleAges' /\ LiveKinds' /\ Accounted'
  BY <1>1, <1>3, HeldMemory
<1>5. NothingOverwritten'
  <2>1. CASE last'.out = "throw"
    BY <1>2, <2>1 DEF NothingOverwritten, Failed
  <2>2. CASE \E fail \in RoutineFailures(MaxNumData) : InitRoutines(fail, MaxNumData)
    <3>1. routine'["Zero"] # "null"
      BY <2>2, RoutinesBuilt
    <3> QED
      BY <3>1 DEF NothingOverwritten, NotYetInit
  <2> QED
    BY <2>1, <2>2, InitCases
<1>6. NothingLeaks'
  BY <1>2 DEF NothingLeaks
<1> QED
  BY <1>4, <1>5, <1>6 DEF HeldInv

\* The destructor releases what is held; the rest was accounted for.
LEMMA HeldDestroy ==
  ASSUME HeldInv, phase = "alive", Destroy
  PROVE  HeldInv'
<1>1. UNCHANGED <<handles, epoch>> /\ live' = live \ Held /\ phase' = "destroyed"
  BY DEF Destroy
<1>2. HandleKinds' /\ HandleAges' /\ LiveKinds'
  BY <1>1 DEF HeldInv, HandleKinds, HandleAges, LiveKinds, handles
<1>3. NothingOverwritten' /\ Accounted'
  BY <1>1 DEF NothingOverwritten, Accounted
<1>4. NothingLeaks'
  BY <1>1 DEF HeldInv, Accounted, NothingLeaks
<1> QED
  BY <1>2, <1>3, <1>4 DEF HeldInv

\* The invariant holds initially and every call of a client preserves it.
THEOREM HeldInvariant == ClientSpec => []HeldInv
<1>1. InitMembers => HeldInv
  <2> SUFFICES ASSUME InitMembers PROVE HeldInv
    OBVIOUS
  <2>1. HandleKinds /\ HandleAges
    BY DEF InitMembers, HandleKinds, HandleAges, NULL
  <2>2. LiveKinds /\ Accounted
    BY UserKinds DEF InitMembers, LiveKinds, Accounted
  <2>3. NothingOverwritten /\ NothingLeaks
    BY DEF InitMembers, NothingOverwritten, NothingLeaks, NULL
  <2> QED
    BY <2>1, <2>2, <2>3 DEF HeldInv
<1>2. TypeOK /\ HeldInv /\ [ClientNext]_vars => HeldInv'
  <2> SUFFICES ASSUME TypeOK, HeldInv, [ClientNext]_vars PROVE HeldInv'
    OBVIOUS
  <2>1. CASE UNCHANGED vars
    BY <2>1 DEF HeldInv, HandleKinds, HandleAges, LiveKinds, NothingOverwritten, NotYetInit,
       Failed, Accounted, NothingLeaks, Held, vars, handles, inited
  <2>2. CASE ClientNext
    <3>1. phase = "alive" /\ (Destroy \/ ~Failed)
      BY <2>2 DEF ClientNext
    <3>2. CASE Destroy
      BY <3>1, <3>2, HeldDestroy
    <3>3. ASSUME ~Failed, UNCHANGED <<handles, live, epoch, routine>>,
                 phase' \in {"alive", "dead"}
          PROVE  HeldInv'
      BY <3>1, <3>3, HeldQuiet
    <3>4. CASE ~Failed /\ ClientInit
      BY <3>1, <3>4, HeldInit DEF ClientInit
    <3>5. CASE ~Failed /\ ClientConfigure
      <4>1. CASE SetImageSourceCL
        BY <3>1, <3>5, <4>1, HeldSourceCL DEF ClientConfigure
      <4>2. CASE mImage_gl = NULL /\ SetImageSourceGL
        BY <3>1, <3>5, <4>2, HeldSourceGL DEF ClientConfigure
      <4>3. CASE SetKernelSourcePath \/ SetImageInfo \/ SetImageSourceHost
        <5>1. UNCHANGED <<handles, live, epoch, routine>>
          BY <4>3 DEF SetKernelSourcePath, SetImageInfo, SetImageSourceHost, inited
        <5>2. phase' \in {"alive", "dead"}
          BY <3>1, <4>3 DEF SetKernelSourcePath, SetImageInfo, SetImageSourceHost, Returns
        <5> QED
          BY <3>3, <3>5, <5>1, <5>2
      <4> QED
        BY <3>5, <4>1, <4>2, <4>3 DEF ClientConfigure
    <3>6. CASE ~Failed /\ (Rescale \/ LoadData \/ ClientCompute)
      <4>1. UNCHANGED <<handles, live, epoch, routine>>
        BY <3>6 DEF Rescale, SetImageInfo, LoadData, ClientCompute, TotalFlux, Normalize,
           CopyImageToBuffer, ExportImage, inited
      <4>2. phase' \in {"alive", "dead"}
        BY <3>1, <3>6 DEF Rescale, SetImageInfo, LoadData, ClientCompute, TotalFlux, Normalize,
           CopyImageToBuffer, ExportImage, Returns
      <4> QED
        BY <3>3, <3>6, <4>1, <4>2
    <3>7. ASSUME ~Failed, NEW i \in 0 .. NumLoaded - 1, ChangeData(i) \/ ImageTo(i) \/ QueryData(i)
          PROVE  HeldInv'
      <4>1. UNCHANGED <<handles, live, epoch, routine>>
        BY <3>7 DEF ChangeData, RemoveData, ReplaceData, ImageTo, QueryData, inited
      <4>2. phase' \in {"alive", "dead"}
        BY <3>1, <3>7 DEF ChangeData, RemoveData, ReplaceData, ImageTo, QueryData, Returns
      <4> QED
        BY <3>3, <3>7, <4>1, <4>2
    <3> QED
      BY <2>2, <3>1, <3>2, <3>4, <3>5, <3>6, <3>7 DEF ClientNext
  <2> QED
    BY <2>1, <2>2
<1>3. ClientSpec => []TypeOK
  BY ClientIsLibOI, TypeCorrect, PTL
<1> QED
  BY <1>1, <1>2, <1>3, PTL DEF ClientSpec

\* However far an Init got, the destructor returns what the object holds; only
\* image and data buffers that a later Init created anew outlive it
\* (liboi.cpp:77-98, 519-548).
THEOREM NothingEverLeaks == ClientSpec => []NothingLeaks
<1>1. HeldInv => NothingLeaks
  BY DEF HeldInv
<1> QED
  BY <1>1, HeldInvariant, PTL
-----------------------------------------------------------------------------
(* The client is served: every computation it asks for is carried out *)

\* The calls that compute something.
ServedOps ==
  ComputeOps \cup {"TotalFlux", "Normalize", "CopyImageToBuffer", "ExportImage"}

\* Each loaded data set has as many data as one that was given.
LoadedGiven == \A d \in Loaded : NumData(d) \in DataSizes

\* What is summed has the size of a data set.
SumsGiven ==
  \A r \in {"Chi", "LogLike"} : routine[r] # "null" => sized[r] \in DataSizes

\* The flux buffer has its one element.
FluxSized == mFluxBuffer # NULL => mFluxBuffer.size = 1

\* The client goes on, after calls that did not fail.
Goes == phase = "alive" /\ ~Failed

NoneMade == Goes => \A r \in Routines : routine[r] # "made"

\* An Init that returned has built the routines that need no data, and the
\* image is where they read it.
BaseServed ==
  Goes /\ BaseReady =>
    /\ Ready({"Zero", "Square", "TotalFlux", "Normalize"})
    /\ Interop => Ready({"CopyImage"})
    /\ ImageReady /\ Fits(mImage_cl, Pixels)
    /\ mFluxBuffer # NULL

\* One that found data has built the others, and has buffers for them.
DataServed ==
  Goes /\ DataReady =>
    BaseReady /\ Ready(DataRoutines) /\ mFTBuffer # NULL /\ mSimDataBuffer # NULL

ServedInv == /\ LoadedGiven /\ SumsGiven /\ FluxSized
             /\ NoneMade /\ BaseServed /\ DataServed /\ ClientServed

\* What the theorems about LibOI and about the client's images already give.
NothingMissed == memory # "missed"
Known == ImageInv /\ BuffersInv /\ NothingMissed

\* A client that calls Init as a whole never misses a data set.
LEMMA ClientMissesNothing == ClientSpec => []NothingMissed
<1>1. InitMembers => NothingMissed
  BY DEF InitMembers, NothingMissed
<1>2. NothingMissed /\ [ClientNext]_vars => NothingMissed'
  <2> SUFFICES ASSUME memory # "missed", [ClientNext]_vars PROVE memory' # "missed"
    BY DEF NothingMissed
  <2>1. CASE UNCHANGED vars
    BY <2>1 DEF vars, inited
  <2>2. CASE ClientInit
    BY <2>2 DEF ClientInit, InitCall, InitMemory
  <2>3. CASE LoadData
    BY <2>3 DEF LoadData
  <2>4. CASE ClientConfigure \/ Rescale \/ ClientCompute \/ Destroy
    BY <2>4 DEF ClientConfigure, Rescale, SetKernelSourcePath, SetImageInfo,
       SetImageSourceHost, SetImageSourceCL, SetImageSourceGL, ClientCompute, TotalFlux,
       Normalize, CopyImageToBuffer, ExportImage, Destroy, inited
  <2>5. ASSUME NEW i \in 0 .. NumLoaded - 1, ChangeData(i) \/ ImageTo(i) \/ QueryData(i)
        PROVE  memory' # "missed"
    BY <2>5 DEF ChangeData, RemoveData, ReplaceData, ImageTo, QueryData, inited
  <2> QED
    BY <2>1, <2>2, <2>3, <2>4, <2>5 DEF ClientNext
<1> QED
  BY <1>1, <1>2, PTL DEF ClientSpec
-----------------------------------------------------------------------------
(* Sizes                                                                   *)

\* The largest data set is one of those given, if there is any data.
LEMMA MaximumGiven ==
  ASSUME TypeOK, LoadedGiven, MaxNumData > 0
  PROVE  MaxNumData \in DataSizes
<1> DEFINE N == {NumData(d) : d \in Loaded}
<1>1. mDataList \in Seq(Storable)
  BY DEF TypeOK
<1>2. (\A d \in Loaded : d \in Storable) /\ \A d \in Loaded : NumData(d) \in Nat
  BY <1>1, LoadedCounts
<1>3. N \in SUBSET Nat
  BY <1>2
<1>4. \A n \in N : n <= MaxUInt
  BY <1>2 DEF Storable
<1>5. Largest(N) \in N \cup {0}
  <2> HIDE DEF N
  <2> QED
    BY <1>3, <1>4, WordAssumption, LargestProperty
<1>6. MaxNumData = Largest(N)
  BY DEF MaxNumData
<1>7. MaxNumData \in N
  <2> HIDE DEF N
  <2> QED
    BY <1>5, <1>6
<1>8. PICK d \in Loaded : MaxNumData = NumData(d)
  BY <1>7
<1>9. NumData(d) # 0
  BY <1>8
<1> QED
  BY <1>8, <1>9 DEF LoadedGiven

\* An image has at least one pixel.
LEMMA PixelsPositive == TypeOK => Pixels \in Nat /\ Pixels > 0
<1> SUFFICES ASSUME TypeOK PROVE Pixels \in Nat /\ Pixels > 0
  OBVIOUS
<1>1. mImage.w \in Nat \ {0} /\ mImage.h \in Nat \ {0}
  BY DEF TypeOK, ImageInfo
<1>2. \A a, b \in Nat \ {0} : a * b \in Nat /\ a * b > 0
  OBVIOUS
<1> QED
  BY <1>1, <1>2 DEF Pixels

\* A square as wide as an image that is not wider than high has no more pixels.
LEMMA SquareFits ==
  ASSUME NEW w \in Nat, NEW h \in Nat, w <= h
  PROVE  w * w <= w * h
<1>1. PICK k \in Nat : h = w + k
  <2>1. h - w \in Nat /\ h = w + (h - w)
    OBVIOUS
  <2> QED
    BY <2>1
<1>2. w * h = w * w + w * k
  BY <1>1
<1>3. w * k \in Nat /\ w * w \in Nat
  OBVIOUS
<1> QED
  BY <1>2, <1>3
-----------------------------------------------------------------------------
(* Each computation, once Init has returned                                *)

\* The sum reads the pixels it was sized for; the image has as many.
LEMMA FluxServed ==
  ASSUME Known, ServedInv, Goes, BaseReady
  PROVE  FluxStep = "ok"
<1>1. Ready({"Zero", "TotalFlux"}) /\ Fits(mImage_cl, Pixels) /\ mFluxBuffer # NULL
  BY DEF ServedInv, BaseServed, Ready
<1>2. sized.TotalFlux = Pixels
  BY <1>1 DEF Known, ImageInv, BuiltForImage, Ready
<1>3. Fits(mFluxBuffer, 1)
  BY <1>1 DEF ServedInv, FluxSized, Fits
<1> QED
  BY <1>1, <1>2, <1>3 DEF FluxStep

LEMMA NormalizeServed ==
  ASSUME Known, ServedInv, Goes, BaseReady
  PROVE  NormalizeStep = "ok"
<1>1. Ready({"Normalize"}) /\ Fits(mImage_cl, Pixels)
  BY DEF ServedInv, BaseServed, Ready
<1> QED
  BY <1>1, FluxServed DEF NormalizeStep, Then

\* The copy finds its source, its routine and room for all pixels.
LEMMA CopyServed ==
  ASSUME Known, ServedInv, Goes, BaseReady, mImageType # "OPENCL_BUFFER", CopyImageToBuffer
  PROVE  last'.out = "ok"
<1>1. ImageReady /\ Fits(mImage_cl, Pixels) /\ (Interop => Ready({"CopyImage"}))
  BY DEF ServedInv, BaseServed
<1>2. Pixels \in Nat /\ Pixels > 0
  BY PixelsPositive DEF Known, ImageInv
<1>3. mImage_cl # NULL
  BY <1>1, <1>2 DEF Fits, NULL
<1>4. CASE mImageType = "HOST_MEMORY"
  BY <1>1, <1>4 DEF CopyImageToBuffer, Returns
<1>5. CASE mImageType \in {"OPENGL_FRAMEBUFFER", "OPENGL_TEXTUREBUFFER"}
  <2>1. Interop /\ mImage_gl # NULL
    BY <1>1, <1>5 DEF ImageReady
  <2> QED
    BY <1>1, <1>3, <1>5, <2>1 DEF CopyImageToBuffer, Returns
<1>6. mImageType \in ImageTypes
  BY DEF Known, ImageInv, TypeOK
<1>7. mImageType # "OPENGL_RENDERBUFFER"
  BY <1>1 DEF ImageReady
<1> QED
  BY <1>4, <1>5, <1>6, <1>7 DEF ImageTypes

\* An image of one layer that is not wider than high is exported whole.
LEMMA ExportServed ==
  ASSUME Known, ServedInv, Goes, BaseReady, mImage.d = 1, mImage.w <= mImage.h, ExportImage
  PROVE  last'.out = "ok"
<1>1. Fits(mImage_cl, Pixels)
  BY DEF ServedInv, BaseServed
<1>2. Pixels \in Nat /\ Pixels > 0 /\ Pixels * mImage.d = Pixels
  BY PixelsPositive DEF Known, ImageInv
<1>3. mImage_cl # NULL /\ mImage_cl.size \in Nat
  BY <1>1, <1>2 DEF Fits, NULL, Known, ImageInv, TypeOK, Handle
<1>4. mImage.w * mImage.w <= Pixels /\ mImage.w * mImage.w \in Nat
  <2>1. mImage.w \in Nat /\ mImage.h \in Nat
    BY DEF Known, ImageInv, TypeOK, ImageInfo
  <2> QED
    BY <2>1, SquareFits DEF Pixels
<1>5. ~(mImage.w * mImage.w > Pixels)
  BY <1>2, <1>4
<1> QED
  BY <1>1, <1>2, <1>3, <1>5, NormalizeServed DEF ExportImage, Returns, Then

\* What one data set needs is there, if it is loaded.
LEMMA DataSetServed ==
  ASSUME Known, ServedInv, Goes, DataReady, NEW d \in Loaded, NEW op \in ComputeOps
  PROVE  ComputeStep(op, d) = "ok"
<1>1. /\ BaseReady /\ Ready(DataRoutines)
      /\ mFTBuffer # NULL /\ mSimDataBuffer # NULL
  BY DEF ServedInv, DataServed
<1>2. Ready({"Zero", "Square"}) /\ Fits(mImage_cl, Pixels)
  BY <1>1 DEF ServedInv, BaseServed, Ready
<1>3. Ready({"FT", "V2", "T3"}) /\ routine["Chi"] = "ready" /\ routine["LogLike"] = "ready"
  BY <1>1 DEF Ready, DataRoutines
<1>4. mDataRoutinesInitialized
  <2>1. "FT" \in DataRoutines /\ routine["FT"] # "null"
    BY <1>3 DEF Ready, DataRoutines
  <2> QED
    BY <2>1 DEF Known, BuffersInv, DataRoutinesFlagged
<1>5. Fits(mFTBuffer, d.nUV) /\ Fits(mSimDataBuffer, NumData(d))
  BY <1>1, <1>4 DEF Known, NothingMissed, BuffersInv, DataBuffersFit
<1>6. ImageToDataStep(d) = "ok"
  BY <1>1, <1>2, <1>3, <1>5, NormalizeServed DEF ImageToDataStep, FTToDataStep, Then
<1>7. sized.Chi >= NumData(d) /\ sized.LogLike >= NumData(d)
  BY <1>3 DEF Known, NothingMissed, BuffersInv, ChiBuffersFit
<1>8. ChiStep(d) = "ok"
  BY <1>2, <1>3, <1>7 DEF ChiStep, Ready
<1>9. AMDSumStep(sized.Chi) = "ok" /\ AMDSumStep(sized.LogLike) = "ok"
  <2>1. sized.Chi \in DataSizes /\ sized.LogLike \in DataSizes
    BY <1>3 DEF ServedInv, SumsGiven
  <2> QED
    BY <2>1, SumsAssumption DEF AMDSumStep
<1>10. Chi2Step(d) = "ok"
  BY <1>2, <1>8, <1>9 DEF Chi2Step, Then, Ready
<1>11. LogLikeStep(d) = "ok"
  BY <1>2, <1>3, <1>7, <1>9 DEF LogLikeStep, Then, Ready
<1> QED
  BY <1>6, <1>8, <1>10, <1>11 DEF ComputeStep, Then, ComputeOps

\* An index that exists passes the check, unsigned as it is, and finds a data set.
LEMMA AnswerServed ==
  ASSUME Known, ServedInv, Goes, DataReady, NEW i \in 0 .. NumLoaded - 1, ImageTo(i)
  PROVE  last'.out = "ok"
<1>1. NumLoaded \in Nat /\ NumLoaded <= MaxSets
  BY LenProperties DEF Known, ImageInv, TypeOK, ListBound, NumLoaded
<1>2. i < NumLoaded /\ ~(i >= NumLoaded) /\ i + 1 \in 1 .. NumLoaded
  BY <1>1
<1>3. ~DataNumRefused(i)
  <2>1. NumLoaded - 1 \in 0 .. MaxUInt
    BY <1>1, <1>2, WordAssumption, BoundAssumption
  <2>2. (NumLoaded - 1) % (MaxUInt + 1) = NumLoaded - 1
    <3>1. \A a, m \in Nat : a < m => a % m = a
      OBVIOUS
    <3> QED
      BY <2>1, <3>1, WordAssumption
  <2> QED
    BY <1>1, <1>2, <2>2 DEF DataNumRefused
<1>4. DataSet(i) \in Loaded
  BY <1>2 DEF DataSet, Loaded
<1>5. \A op \in ComputeOps : ComputeStep(op, DataSet(i)) = "ok"
  BY <1>4, DataSetServed
<1> QED
  BY <1>2, <1>3, <1>5 DEF ImageTo, Returns
-----------------------------------------------------------------------------
(* No call of the client breaks what serves it                             *)

\* A call that moves nothing, and is answered if it asks for something.
LEMMA ServedMore ==
  ASSUME ServedInv, Goes, UNCHANGED <<mImageType, handles, routine, sized>>,
         Pixels' = Pixels, LoadedGiven', last'.op \in ServedOps => last'.out = "ok"
  PROVE  ServedInv'
<1>1. SumsGiven' /\ FluxSized' /\ NoneMade'
  BY DEF ServedInv, SumsGiven, FluxSized, NoneMade, handles
<1>2. ImageReady' = ImageReady
  BY DEF ImageReady, Fits, handles
<1>3. BaseServed'
  BY <1>2 DEF ServedInv, BaseServed, BaseReady, Ready, Fits, handles
<1>4. DataServed'
  BY DEF ServedInv, DataServed, BaseReady, DataReady, Ready, handles
<1>5. ClientServed'
  BY DEF ClientServed, ServedOps
<1> QED
  BY <1>1, <1>3, <1>4, <1>5 DEF ServedInv

\* It may also take data sets off the list.
LEMMA ServedQuiet ==
  ASSUME ServedInv, Goes, UNCHANGED <<mImageType, handles, routine, sized>>,
         Pixels' = Pixels, Loaded' \subseteq Loaded,
         last'.op \in ServedOps => last'.out = "ok"
  PROVE  ServedInv'
<1>1. LoadedGiven'
  BY DEF ServedInv, LoadedGiven
<1> QED
  BY <1>1, ServedMore

\* A client that still describes its image has no routine to rely on.
LEMMA ServedConfigure ==
  ASSUME ServedInv, BuiltInOrder, ClientConfigure
  PROVE  ServedInv'
<1>1. UNCHANGED <<mDataList, mFluxBuffer, routine, sized>>
  BY DEF ClientConfigure, SetKernelSourcePath, SetImageInfo, SetImageSourceHost,
     SetImageSourceCL, SetImageSourceGL, handles, inited
<1>2. \A r \in Routines : routine'[r] = "null"
  BY <1>1 DEF BuiltInOrder, ClientConfigure
<1>3. last'.op \in {"SetKernelSourcePath", "SetImageInfo", "SetImageSource"}
  BY DEF ClientConfigure, SetKernelSourcePath, SetImageInfo, SetImageSourceHost,
     SetImageSourceCL, SetImageSourceGL, Returns
<1>4. LoadedGiven' /\ SumsGiven' /\ FluxSized'
  BY <1>1 DEF ServedInv, LoadedGiven, Loaded, NumLoaded, SumsGiven, FluxSized
<1>5. NoneMade'
  BY <1>2 DEF NoneMade
<1>6. ~BaseReady' /\ ~DataReady'
  BY <1>2 DEF BaseReady, DataReady, Ready, Routines, BaseRoutines, DataRoutines
<1>7. BaseServed' /\ DataServed'
  BY <1>6 DEF BaseServed, DataServed
<1>8. ClientServed'
  BY <1>3 DEF ClientServed, ComputeOps
<1> QED
  BY <1>4, <1>5, <1>7, <1>8 DEF ServedInv

\* A data set joins the list with as many data as it was given with: only its
\* UV points are padded.
LEMMA ServedLoad ==
  ASSUME ServedInv, TypeOK, LoadData
  PROVE  LoadedGiven'
<1>1. PICK d \in DataSets :
        \/ UNCHANGED mDataList
        \/ mDataList' = Append(mDataList, Padded(d)) /\ NumData(d) > 0
  BY DEF LoadData
<1>2. d \in Count /\ Padded(d) \in Storable
  BY DataAssumption
<1>3. NumData(Padded(d)) = NumData(d)
  BY <1>2 DEF Count, Padded, NumData
<1>4. CASE mDataList' = Append(mDataList, Padded(d)) /\ NumData(d) > 0
  <2>1. Loaded' \subseteq Loaded \cup {Padded(d)}
    BY <1>2, <1>4, LoadedAppend
  <2>2. NumData(Padded(d)) \in DataSizes
    <3>1. NumData(d) # 0
      BY <1>4
    <3> QED
      BY <1>3, <3>1 DEF DataSizes
  <2> QED
    BY <2>1, <2>2 DEF ServedInv, LoadedGiven
<1>5. CASE UNCHANGED mDataList
  BY <1>5 DEF ServedInv, LoadedGiven, Loaded, NumLoaded
<1> QED
  BY <1>1, <1>4, <1>5
-----------------------------------------------------------------------------
(* Init                                                                    *)

\* However far it gets, Init makes the flux buffer of one element, if at all.
LEMMA FluxBufferSized ==
  ASSUME FluxSized, NEW fail, InitMemory(fail)
  PROVE  FluxSized'
<1>1. mFluxBuffer' = Created("flux", mFluxBuffer, fail)
  BY DEF InitMemory
<1>2. Fresh("flux").size = 1
  BY DEF Fresh, MemorySize
<1> QED
  BY <1>1, <1>2 DEF FluxSized, Created

\* A sum that is built for data is built for those of a data set.
LEMMA SumsBuilt ==
  ASSUME TypeOK, LoadedGiven, SumsGiven, NEW fail, InitRoutines(fail, MaxNumData)
  PROVE  SumsGiven'
<1>1. SUFFICES ASSUME NEW r \in {"Chi", "LogLike"}, routine'[r] # "null"
               PROVE  sized'[r] \in DataSizes
  BY DEF SumsGiven
<1>2. r \in Routines /\ r \in DataRoutines /\ r \in DOMAIN sized
  BY DEF Routines, DataRoutines, TypeOK
<1>3. routine'[r] = Built(fail, MaxNumData)[r]
  BY DEF InitRoutines
<1>4. CASE routine[r] = "null"
  <2>1. r \in Uninitialized(MaxNumData)
    BY <1>1, <1>2, <1>3, <1>4 DEF Built
  <2>2. MaxNumData > 0
    BY <1>2, <2>1 DEF Uninitialized
  <2>3. sized'[r] = MaxNumData
    BY <1>1, <1>2, <1>4 DEF InitRoutines, InitArgument
  <2> QED
    BY <2>2, <2>3, MaximumGiven
<1>5. CASE routine[r] # "null"
  <2>1. sized'[r] = sized[r]
    BY <1>2, <1>5 DEF InitRoutines
  <2> QED
    BY <1>5, <2>1 DEF SumsGiven
<1> QED
  BY <1>4, <1>5

\* An Init that fails ends the client's calls; until then nothing is promised.
LEMMA ServedInitFailed ==
  ASSUME LoadedGiven', SumsGiven', FluxSized', last'.op = "Init", last'.out = "throw"
  PROVE  ServedInv'
<1>1. ~Goes'
  BY DEF Goes, Failed
<1>2. NoneMade' /\ BaseServed' /\ DataServed'
  BY <1>1 DEF NoneMade, BaseServed, DataServed
<1>3. ClientServed'
  BY DEF ClientServed, ComputeOps
<1> QED
  BY <1>2, <1>3 DEF ServedInv

\* An Init that returns has built every routine it came to, and the image is
\* where it was, or in a new buffer for all its pixels.
LEMMA ServedInitOk ==
  ASSUME TypeOK, ServedInv, Goes, ImageReady, InitMemory("none"),
         InitRoutines("none", MaxNumData), UNCHANGED <<mDataList, config, mImage_gl>>,
         LoadedGiven', SumsGiven', FluxSized', last'.op = "Init"
  PROVE  ServedInv'
<1>1. routine \in [Routines -> {"null", "ready"}]
  BY DEF TypeOK, ServedInv, NoneMade
<1>2. \A r \in Routines :
        routine'[r] = IF r \in Uninitialized(MaxNumData) THEN "ready" ELSE routine[r]
  BY DEF InitRoutines, Built
<1>3. NoneMade'
  BY <1>1, <1>2 DEF NoneMade
<1>4. Ready({"Zero", "Square", "TotalFlux", "Normalize"})' /\ (Interop => Ready({"CopyImage"})')
  <2>1. \A r \in BaseRoutines : r \in Routines /\ r \notin DataRoutines
    BY DEF Routines, BaseRoutines, DataRoutines
  <2>2. \A r \in BaseRoutines : routine'[r] = "ready" \/ (r = "CopyImage" /\ ~Interop)
    BY <1>1, <1>2, <2>1 DEF Uninitialized
  <2> QED
    BY <2>2 DEF Ready, BaseRoutines
<1>5. /\ mImage_cl' = Created("image", mImage_cl, "none")
      /\ mFluxBuffer' = Created("flux", mFluxBuffer, "none")
      /\ mFTBuffer' = Created("ft", mFTBuffer, "none")
      /\ mSimDataBuffer' = Created("sim", mSimDataBuffer, "none")
  BY DEF InitMemory
<1>6. CreatedMemory("none") = WantedMemory
  BY DEF CreatedMemory, WantedMemory, MemoryRank
<1>7. \A k \in {"image", "flux", "ft", "sim"} : Fresh(k) # NULL
  BY DEF Fresh, NULL
<1>8. Pixels' = Pixels /\ mImageType' = mImageType
  BY DEF Pixels, config
<1>9. ImageReady' /\ Fits(mImage_cl, Pixels)'
  <2>1. CASE mImageType \in {"HOST_MEMORY", "OPENGL_FRAMEBUFFER", "OPENGL_TEXTUREBUFFER"}
    <3>1. mImage_cl' = Fresh("image")
      BY <1>5, <1>6, <2>1 DEF Created, WantedMemory
    <3>2. Fresh("image").size = Pixels
      BY DEF Fresh, MemorySize
    <3>3. Pixels \in Nat
      BY PixelsPositive
    <3>4. Fits(mImage_cl, Pixels)'
      BY <1>8, <3>1, <3>2, <3>3 DEF Fits
    <3> QED
      BY <1>8, <2>1, <3>4 DEF ImageReady
  <2>2. CASE mImageType = "OPENCL_BUFFER"
    <3>1. "image" \notin WantedMemory
      BY <2>2 DEF WantedMemory
    <3>2. mImage_cl' = mImage_cl
      BY <1>5, <1>6, <3>1 DEF Created
    <3> QED
      BY <1>8, <2>2, <3>2 DEF ImageReady, Fits
  <2>3. mImageType # "OPENGL_RENDERBUFFER" /\ mImageType \in ImageTypes
    BY DEF ImageReady, TypeOK
  <2> QED
    BY <2>1, <2>2, <2>3 DEF ImageTypes
<1>10. mFluxBuffer' # NULL
  BY <1>5, <1>6, <1>7 DEF Created, WantedMemory
<1>11. BaseServed'
  BY <1>4, <1>9, <1>10 DEF BaseServed
<1>12. BaseReady'
  BY <1>4 DEF BaseReady, Ready
<1>13. CASE MaxNumData > 0
  <2>1. \A r \in DataRoutines : r \in Routines /\ r # "CopyImage"
    BY DEF Routines, DataRoutines
  <2>2. Ready(DataRoutines)'
    BY <1>1, <1>2, <1>13, <2>1 DEF Uninitialized, Ready
  <2>3. "ft" \in WantedMemory /\ "sim" \in WantedMemory
    BY <1>13 DEF WantedMemory
  <2>4. mFTBuffer' # NULL /\ mSimDataBuffer' # NULL
    BY <1>5, <1>6, <1>7, <2>3 DEF Created
  <2> QED
    BY <1>3, <1>11, <1>12, <2>2, <2>4 DEF ServedInv, DataServed, ClientServed, ComputeOps
<1>14. CASE ~(MaxNumData > 0)
  <2>1. \A r \in DataRoutines : routine'[r] = routine[r]
    BY <1>2, <1>14 DEF Uninitialized, Routines
  <2>2. "ft" \notin WantedMemory /\ "sim" \notin WantedMemory
    BY <1>14 DEF WantedMemory
  <2>3. UNCHANGED <<mFTBuffer, mSimDataBuffer>>
    BY <1>5, <1>6, <2>2 DEF Created
  <2>4. DataReady' => DataReady
    BY <2>1 DEF DataReady, Ready, DataRoutines
  <2>5. DataReady => Ready(DataRoutines) /\ mFTBuffer # NULL /\ mSimDataBuffer # NULL
    BY DEF ServedInv, DataServed
  <2>6. DataServed'
    BY <1>12, <2>1, <2>3, <2>4, <2>5 DEF DataServed, Ready
  <2> QED
    BY <1>3, <1>11, <2>6 DEF ServedInv, ClientServed, ComputeOps
<1> QED
  BY <1>13, <1>14

\* Init preserves the invariant, wherever it fails.
LEMMA ServedInit ==
  ASSUME TypeOK, ServedInv, Goes, ImageReady, InitCall
  PROVE  ServedInv'
<1>1. UNCHANGED <<mDataList, config, mImage_gl>> /\ last'.op = "Init"
  BY DEF InitCall, Returns
<1>2. LoadedGiven'
  BY <1>1 DEF ServedInv, LoadedGiven, Loaded, NumLoaded
<1>3. FluxSized'
  BY FluxBufferSized DEF InitCall, ServedInv
<1>4. CASE UNCHANGED <<routine, sized>> /\ last'.out = "throw"
  <2>1. SumsGiven'
    BY <1>4 DEF ServedInv, SumsGiven
  <2> QED
    BY <1>1, <1>2, <1>3, <1>4, <2>1, ServedInitFailed
<1>5. CASE /\ InitMemory("none")
           /\ \E fail \in RoutineFailures(MaxNumData) :
                /\ InitRoutines(fail, MaxNumData)
                /\ Returns("Init", IF fail = "none" THEN "ok" ELSE "throw", 0)
  <2>1. PICK fail \in RoutineFailures(MaxNumData) :
          /\ InitRoutines(fail, MaxNumData)
          /\ Returns("Init", IF fail = "none" THEN "ok" ELSE "throw", 0)
    BY <1>5
  <2>2. SumsGiven'
    BY <2>1, SumsBuilt DEF ServedInv
  <2>3. CASE fail = "none"
    BY <1>1, <1>2, <1>3, <1>5, <2>1, <2>2, <2>3, ServedInitOk
  <2>4. CASE fail # "none"
    <3>1. last'.out = "throw"
      BY <2>1, <2>4 DEF Returns
    <3> QED
      BY <1>1, <1>2, <1>3, <2>2, <3>1, ServedInitFailed
  <2> QED
    BY <2>3, <2>4
<1> QED
  BY <1>4, <1>5 DEF InitCall, Returns
-----------------------------------------------------------------------------
\* Each call of the client preserves the invariant.
LEMMA ServedStep ==
  ASSUME Known, ServedInv, ClientNext
  PROVE  ServedInv'
<1>0. TypeOK /\ BuiltInOrder /\ phase = "alive"
  BY DEF Known, ImageInv, ClientNext
<1>1. CASE Destroy
  <2>1. ~Goes' /\ last'.op = "~CLibOI" /\ UNCHANGED <<mDataList, routine, sized, mFluxBuffer>>
    BY <1>1 DEF Destroy, Goes, handles, inited
  <2>2. LoadedGiven' /\ SumsGiven' /\ FluxSized'
    BY <2>1 DEF ServedInv, LoadedGiven, Loaded, NumLoaded, SumsGiven, FluxSized
  <2>3. NoneMade' /\ BaseServed' /\ DataServed' /\ ClientServed'
    BY <2>1 DEF NoneMade, BaseServed, DataServed, ClientServed, ComputeOps
  <2> QED
    BY <2>2, <2>3 DEF ServedInv
<1>2. CASE ~Destroy
  <2>1. ~Failed /\ Goes
    BY <1>0, <1>2 DEF ClientNext, Goes
  <2>2. CASE ClientConfigure
    BY <1>0, <2>2, ServedConfigure
  <2>3. CASE Rescale
    <3>1. UNCHANGED <<mImageType, handles, routine, sized, mDataList>>
      BY <2>3 DEF Rescale, SetImageInfo, inited
    <3>2. mImage \in ImageInfo /\ mImage' \in ImageInfo
      BY <1>0, <2>3, ImageAssumption DEF TypeOK, Rescale, SetImageInfo
    <3>3. Pixels' = Pixels
      <4>1. mImage'.w = mImage.w /\ mImage'.h = mImage.h
        BY <2>3, <3>2 DEF Rescale, ImageInfo
      <4> QED
        BY <4>1 DEF Pixels
    <3>4. last'.op \notin ServedOps
      BY <2>3 DEF Rescale, SetImageInfo, Returns, ServedOps, ComputeOps
    <3>5. Loaded' \subseteq Loaded
      BY <3>1 DEF Loaded, NumLoaded
    <3> QED
      BY <2>1, <3>1, <3>3, <3>4, <3>5, ServedQuiet
  <2>4. CASE ClientInit
    BY <1>0, <2>1, <2>4, ServedInit DEF ClientInit
  <2>5. CASE LoadData
    <3>1. UNCHANGED <<mImage, mImageType, handles, routine, sized>>
      BY <2>5 DEF LoadData, config, inited
    <3>2. last'.op = "LoadData"
      BY <2>5 DEF LoadData, Returns
    <3> QED
      <4>1. LoadedGiven'
        BY <1>0, <2>5, ServedLoad
      <4>2. Pixels' = Pixels /\ last'.op \notin ServedOps
        BY <3>1, <3>2 DEF Pixels, ServedOps, ComputeOps
      <4> QED
        BY <2>1, <3>1, <4>1, <4>2, ServedMore
  <2>6. CASE ClientCompute
    <3>1. UNCHANGED <<mImage, mDataList, mImageType, handles, routine, sized>>
      BY <2>6 DEF ClientCompute, TotalFlux, Normalize, CopyImageToBuffer, ExportImage,
         config, inited
    <3>2. BaseReady
      BY <2>6 DEF ClientCompute
    <3>3. ASSUME TotalFlux \/ Normalize PROVE last'.out = "ok"
      BY <2>1, <3>2, <3>3, FluxServed, NormalizeServed DEF TotalFlux, Normalize, Returns
    <3>4. last'.out = "ok"
      BY <2>1, <2>6, <3>2, <3>3, CopyServed, ExportServed DEF ClientCompute
    <3>5. Loaded' \subseteq Loaded /\ Pixels' = Pixels
      BY <3>1 DEF Loaded, NumLoaded, Pixels
    <3> QED
      BY <2>1, <3>1, <3>4, <3>5, ServedQuiet
  <2>7. ASSUME NEW i \in 0 .. NumLoaded - 1,
               ChangeData(i) \/ (DataReady /\ ImageTo(i)) \/ QueryData(i)
        PROVE  ServedInv'
    <3>1. UNCHANGED <<mImage, mImageType, handles, routine, sized>>
      BY <2>7 DEF ChangeData, RemoveData, ReplaceData, ImageTo, QueryData, config, inited
    <3>2. Pixels' = Pixels
      BY <3>1 DEF Pixels
    <3>3. Loaded' \subseteq Loaded
      <4>1. CASE RemoveData(i)
        <5>1. i \in 0 .. MaxSets
          BY BoundAssumption, LenProperties DEF Known, ImageInv, TypeOK, ListBound, NumLoaded
        <5> QED
          BY <1>0, <4>1, <5>1, RemoveShrinks
      <4>2. CASE UNCHANGED mDataList
        BY <4>2 DEF Loaded, NumLoaded
      <4> QED
        BY <2>7, <4>1, <4>2 DEF ChangeData, ReplaceData, ImageTo, QueryData
    <3>4. last'.op \in ServedOps => last'.out = "ok"
      <4>1. CASE DataReady /\ ImageTo(i)
        BY <2>1, <4>1, AnswerServed
      <4>2. CASE ChangeData(i) \/ QueryData(i)
        BY <4>2 DEF ChangeData, RemoveData, ReplaceData, QueryData, Returns, ServedOps, ComputeOps
      <4> QED
        BY <2>7, <4>1, <4>2
    <3> QED
      BY <2>1, <3>1, <3>2, <3>3, <3>4, ServedQuiet
  <2> QED
    BY <1>2, <2>2, <2>3, <2>4, <2>5, <2>6, <2>7 DEF ClientNext
<1> QED
  BY <1>1, <1>2

\* The invariant holds initially and every call of a client preserves it.
THEOREM ServedInvariant == ClientSpec => []ServedInv
<1>1. InitMembers => ServedInv
  <2> SUFFICES ASSUME InitMembers PROVE ServedInv
    OBVIOUS
  <2>1. Loaded = {} /\ mFluxBuffer = NULL /\ \A r \in Routines : routine[r] = "null"
    BY DEF InitMembers, Loaded, NumLoaded
  <2>2. LoadedGiven /\ FluxSized /\ NoneMade
    BY <2>1 DEF LoadedGiven, FluxSized, NoneMade
  <2>3. SumsGiven /\ ~BaseReady /\ ~DataReady
    BY <2>1 DEF SumsGiven, BaseReady, DataReady, Ready, Routines, BaseRoutines, DataRoutines
  <2>4. BaseServed /\ DataServed
    BY <2>3 DEF BaseServed, DataServed
  <2>5. ClientServed
    BY DEF InitMembers, ClientServed, ComputeOps
  <2> QED
    BY <2>2, <2>3, <2>4, <2>5 DEF ServedInv
<1>2. Known /\ ServedInv /\ [ClientNext]_vars => ServedInv'
  <2> SUFFICES ASSUME Known, ServedInv, UNCHANGED vars PROVE ServedInv'
    BY ServedStep
  <2>1. LoadedGiven' /\ SumsGiven' /\ FluxSized' /\ NoneMade'
    BY DEF ServedInv, LoadedGiven, Loaded, NumLoaded, SumsGiven, FluxSized, NoneMade, Goes,
       Failed, vars, handles, inited
  <2>2. ImageReady' = ImageReady
    BY DEF ImageReady, Fits, Pixels, vars, config, handles
  <2>3. BaseServed' /\ DataServed'
    BY <2>2 DEF ServedInv, BaseServed, DataServed, BaseReady, DataReady, Ready, Fits, Pixels,
       Goes, Failed, vars, config, handles, inited
  <2>4. ClientServed'
    BY DEF ServedInv, ClientServed, vars
  <2> QED
    BY <2>1, <2>3, <2>4 DEF ServedInv
<1>3. ClientSpec => []Known
  <2>1. ImageInv /\ BuffersInv /\ NothingMissed => Known
    BY DEF Known
  <2> QED
    BY <2>1, ImageInvariant, ClientIsLibOI, BuffersInvariant, ClientMissesNothing, PTL
<1> QED
  BY <1>1, <1>2, <1>3, PTL DEF ClientSpec

\* Every computation such a client asks for is carried out, after any sequence
\* of loads, removals, replacements and further Inits, whatever the data sets
\* and images (liboi.cpp:102-158, 271-285, 366-474, 519-632, 659-678).
THEOREM ClientAlwaysServed == ClientSpec => []ClientServed
<1>1. ServedInv => ClientServed
  BY DEF ServedInv
<1> QED
  BY <1>1, ServedInvariant, PTL
=============================================================================
