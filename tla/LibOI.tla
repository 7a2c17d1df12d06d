------------------------------- MODULE LibOI -------------------------------
(***************************************************************************)
(* The life cycle of a CLibOI object (src/src/liboi.cpp): a client         *)
(* describes an image, loads data sets, calls Init - possibly many times - *)
(* and asks for computations.  The module follows the device buffers and   *)
(* the routines: who exists, how big it is, and for which sizes it was     *)
(* initialised.  The contents of the buffers are the business of module    *)
(* Pipeline.                                                               *)
(*                                                                         *)
(* Every public call is one action, whole: its early returns, exceptions,  *)
(* failed assertions and undefined behaviour are the outcomes that         *)
(* variable last records.                                                  *)
(***************************************************************************)
EXTENDS DataLayout, Geometry, Sequences, SequencesExt

CONSTANTS
  DataSets,      \* the OIFITS data sets a client may load (counts per kind)
  ImageInfos,    \* the image descriptions [w, h, d, scale] a client may give
  Sources,       \* the kinds of image source the clients use
  UserBuffers,   \* the cl_mem image buffers a client may hand over
  Interop,       \* whether the device supports CL-GL interoperation
  GroupSize,     \* work-group size of the AMD reduction on this device
  MaxUInt,       \* the largest unsigned int
  MaxSets,       \* bound: data sets in the list
  MaxEpoch       \* bound: calls that create device buffers

ImageInfo == [w : Nat \ {0}, h : Nat \ {0}, d : Nat \ {0}, scale : Nat \ {0}]

Handle ==
  [kind : {"none", "image", "flux", "ft", "sim", "gl", "user"}, gen : Nat, size : Nat]
NULL == [kind |-> "none", gen |-> 0, size |-> 0]

ImageTypes == {"OPENCL_BUFFER", "OPENGL_FRAMEBUFFER", "OPENGL_TEXTUREBUFFER",
               "OPENGL_RENDERBUFFER", "HOST_MEMORY"}

\* The counts are unsigned ints.
Storable == {d \in Count : NumData(d) <= MaxUInt /\ d.nUV <= MaxUInt}

ASSUME DataAssumption == \A d \in DataSets : d \in Count /\ Padded(d) \in Storable
ASSUME ImageAssumption == ImageInfos \subseteq ImageInfo
ASSUME BufferAssumption ==
  Sources \subseteq ImageTypes /\
  UserBuffers \subseteq {h \in Handle : h.kind = "user" /\ h.size > 0}
ASSUME DeviceAssumption == Interop \in BOOLEAN /\ GroupSize \in Nat \ {0}
ASSUME WordAssumption == MaxUInt \in Nat
ASSUME BoundAssumption == MaxSets \in Nat /\ MaxEpoch \in Nat /\ MaxSets <= MaxUInt

\* In the order InitRoutines treats them.
BaseRoutines == {"Zero", "Square", "TotalFlux", "CopyImage", "Normalize"}
DataRoutines == {"FT", "V2", "T3", "Chi", "LogLike"}
Routines == BaseRoutines \cup DataRoutines
Rank == [Zero |-> 1, Square |-> 2, TotalFlux |-> 3, CopyImage |-> 4, Normalize |-> 5,
         FT |-> 6, V2 |-> 7, T3 |-> 8, Chi |-> 9, LogLike |-> 10]

VARIABLES
  mDataList,                   \* the loaded data sets, UV counts padded
  mImageType, mImage,          \* image source kind; width, height, depth and scale
  mImage_cl, mImage_gl,        \* the handles the object holds
  mFluxBuffer, mFTBuffer, mSimDataBuffer,
  mMaxData,
  mDataRoutinesInitialized,
  routine,                     \* "null", "made" (constructed, its Init threw) or "ready"
  sized,                       \* what a routine's Init was told: pixels, scale, data
  mKernelSourcePath,           \* whether the path leads to the kernel sources
  phase,                       \* "alive", "destroyed", or "dead" (aborted, undefined)
  live,                        \* device buffers allocated and not released
  epoch,                       \* calls so far that may create buffers
  last,                        \* outcome of the last call
  memory                       \* history: how the data buffers relate to the list

config  == <<mImageType, mImage, mKernelSourcePath>>
handles == <<mImage_cl, mImage_gl, mFluxBuffer, mFTBuffer, mSimDataBuffer>>
inited  == <<mMaxData, mDataRoutinesInitialized, routine, sized, memory>>
vars    == <<mDataList, config, handles, inited, phase, live, epoch, last>>

Outcomes == {"ok", "refused", "throw", "abort", "undefined"}
ComputeOps == {"ImageToChi", "ImageToChi2", "ImageToChi2Elements", "ImageToData",
               "ImageToLogLike"}
Calls == ComputeOps \cup
  {"CLibOI", "~CLibOI", "SetKernelSourcePath", "SetImageInfo", "SetImageSource",
   "LoadData", "RemoveData", "ReplaceData", "Init", "InitMemory", "InitRoutines",
   "TotalFlux", "Normalize", "CopyImageToBuffer", "ExportImage", "Query"}

\* memory is "current" if an InitMemory has returned since a data set was last
\* loaded, "stale" if none has, and for ever "missed" after an InitRoutines that
\* was called by itself built data routines while memory was stale.  No action
\* reads it but to update it.
Memory == {"stale", "current", "missed"}

\* Records the outcome of call op; the process does not survive an abort, and
\* nothing is known of a process that ran into undefined behaviour.
Returns(op, out, n) ==
  /\ last' = [op |-> op, out |-> out, n |-> n]
  /\ phase' = IF out \in {"abort", "undefined"} THEN "dead" ELSE phase

Fits(handle, n) == handle.size >= n
Pixels == mImage.w * mImage.h

\* The outcome of doing a and then b.
Then(a, b) == IF a = "ok" THEN b ELSE a
-----------------------------------------------------------------------------
(* Construction and configuration *)

InitMembers ==
  /\ mDataList = << >>
  /\ mImageType = "OPENCL_BUFFER"
  /\ mImage = [w |-> 1, h |-> 1, d |-> 1, scale |-> 1]
  /\ mImage_cl = NULL /\ mImage_gl = NULL
  /\ mFluxBuffer = NULL /\ mFTBuffer = NULL /\ mSimDataBuffer = NULL
  /\ mMaxData = 0
  /\ mDataRoutinesInitialized = FALSE
  /\ routine = [r \in Routines |-> "null"]
  /\ sized = [TotalFlux |-> 0, FT |-> 0, Chi |-> 0, LogLike |-> 0]
  /\ mKernelSourcePath = FALSE
  /\ phase = "alive" /\ live = UserBuffers /\ epoch = 0
  /\ last = [op |-> "CLibOI", out |-> "ok", n |-> 0]
  /\ memory = "stale"

SetKernelSourcePath ==
  /\ \E good \in BOOLEAN : mKernelSourcePath' = good
  /\ Returns("SetKernelSourcePath", "ok", 0)
  /\ UNCHANGED <<mDataList, mImageType, mImage, handles, inited, live, epoch>>

SetImageInfo ==
  /\ mImage' \in ImageInfos
  /\ Returns("SetImageInfo", "ok", 0)
  /\ UNCHANGED <<mDataList, mImageType, mKernelSourcePath, handles, inited, live, epoch>>

SetImageSourceHost ==
  /\ "HOST_MEMORY" \in Sources
  /\ mImageType' = "HOST_MEMORY"
  /\ Returns("SetImageSource", "ok", 0)
  /\ UNCHANGED <<mDataList, mImage, mKernelSourcePath, handles, inited, live, epoch>>

\* The handle is stored as it is: nothing is retained, nothing released.
SetImageSourceCL ==
  /\ "OPENCL_BUFFER" \in Sources
  /\ \E user \in UserBuffers : mImage_cl' = user
  /\ mImageType' = "OPENCL_BUFFER"
  /\ Returns("SetImageSource", "ok", 0)
  /\ UNCHANGED <<mDataList, mImage, mKernelSourcePath, mImage_gl, mFluxBuffer,
                 mFTBuffer, mSimDataBuffer, inited, live, epoch>>

\* The type is set first.  Creating the interop buffer overwrites the old
\* handle, with NULL when OpenCL refuses; an OpenCL version without a texture
\* function throws before the handle is touched; and a type that is no OpenGL
\* type fails the assertion.
SetImageSourceGL ==
  /\ "OPENGL_TEXTUREBUFFER" \in Sources
  /\ epoch < MaxEpoch
  /\ epoch' = epoch + 1
  /\ \E type \in ImageTypes, out \in {"ok", "throw", "abort"} :
       /\ mImageType' = type
       /\ Returns("SetImageSource", out, 0)
       /\ IF type \in {"OPENCL_BUFFER", "HOST_MEMORY"}
            THEN out = "abort" /\ UNCHANGED <<mImage_gl, live>>
            ELSE \/ /\ out = "ok"
                    /\ mImage_gl' = [kind |-> "gl", gen |-> epoch', size |-> 1]
                    /\ live' = live \cup {mImage_gl'}
                 \/ out = "throw" /\ mImage_gl' = NULL /\ UNCHANGED live
                 \/ /\ out = "throw" /\ type = "OPENGL_TEXTUREBUFFER"
                    /\ UNCHANGED <<mImage_gl, live>>
  /\ UNCHANGED <<mDataList, mImage, mKernelSourcePath, mImage_cl, mFluxBuffer,
                 mFTBuffer, mSimDataBuffer, inited>>
-----------------------------------------------------------------------------
(* The data list.  Indices count from 0, as in the code. *)

NumLoaded == Len(mDataList)
DataSet(i) == mDataList[i + 1]
Loaded == {mDataList[k] : k \in 1 .. NumLoaded}

\* An observation-free data set fails the assertions of AllocateMemory; the
\* upload may throw, and then the list is left alone.
LoadData ==
  \E d \in DataSets, out \in {"ok", "refused", "throw", "abort"} :
    /\ NumLoaded < MaxSets
    /\ \/ mDataRoutinesInitialized /\ out = "refused" /\ UNCHANGED mDataList
       \/ /\ ~mDataRoutinesInitialized
          /\ \/ /\ NumData(d) > 0 /\ d.nUV > 0 /\ out = "ok"
                /\ mDataList' = Append(mDataList, Padded(d))
             \/ NumData(d) > 0 /\ d.nUV > 0 /\ out = "throw" /\ UNCHANGED mDataList
             \/ (NumData(d) = 0 \/ d.nUV = 0) /\ out = "abort" /\ UNCHANGED mDataList
    /\ Returns("LoadData", out, 0)
    /\ memory' = IF out = "ok" THEN "stale" ELSE memory
    /\ UNCHANGED <<config, handles, mMaxData, mDataRoutinesInitialized, routine, sized,
                   live, epoch>>

\* Erasing beyond the end of the vector is undefined, and no exception.
RemoveData(i) ==
  /\ \/ i < NumLoaded /\ mDataList' = RemoveAt(mDataList, i + 1) /\ Returns("RemoveData", "ok", 0)
     \/ i >= NumLoaded /\ UNCHANGED mDataList /\ Returns("RemoveData", "undefined", 0)
  /\ UNCHANGED <<config, handles, inited, live, epoch>>

\* The counts COILibData keeps are the old ones.
ReplaceData(i) ==
  \E d \in DataSets, out \in {"ok", "throw", "undefined"} :
    /\ \/ i >= NumLoaded /\ out = "undefined"
       \/ i < NumLoaded /\ out = "throw"
       \/ i < NumLoaded /\ out = "ok" /\ ReplacementFits(DataSet(i), d)
    /\ Returns("ReplaceData", out, 0)
    /\ UNCHANGED <<mDataList, config, handles, inited, live, epoch>>
-----------------------------------------------------------------------------
(* Init is InitMemory, then InitRoutines, either of which may throw midway; *)
(* both are public, and may be called by themselves.                       *)

\* Mutant: the search for the maximum starts below every count.
LargestFromMinusOne(S) == CHOOSE m \in S \cup {-1} : \A n \in S \cup {-1} : n <= m
Largest(S) == CHOOSE m \in S \cup {0} : \A n \in S \cup {0} : n <= m

\* Mutants: the size of the first data set instead of the largest.
FirstNumData == IF NumLoaded = 0 THEN 0 ELSE NumData(mDataList[1])
MaxNumData == Largest({NumData(d) : d \in Loaded})
FirstUVPoints == IF NumLoaded = 0 THEN 0 ELSE mDataList[1].nUV
MaxUVPoints == Largest({d.nUV : d \in Loaded})

\* The buffers this Init creates, and the order in which it does.  The image
\* and data buffers are created anew every time, the flux buffer only once.
MemoryRank == [image |-> 1, flux |-> 2, ft |-> 3, sim |-> 4, none |-> 5]
WantedMemory ==
     (IF mImageType \in {"HOST_MEMORY", "OPENGL_FRAMEBUFFER", "OPENGL_TEXTUREBUFFER"}
        THEN {"image"} ELSE {})
  \cup (IF mFluxBuffer = NULL THEN {"flux"} ELSE {})
  \cup (IF MaxNumData > 0 THEN {"ft", "sim"} ELSE {})
MemorySize == [image |-> Pixels, flux |-> 1, ft |-> MaxUVPoints, sim |-> MaxNumData]

\* The buffers created before OpenCL refuses buffer fail ("none": it refuses none).
CreatedMemory(fail) == {k \in WantedMemory : MemoryRank[k] < MemoryRank[fail]}
Fresh(k) == [kind |-> k, gen |-> epoch + 1, size |-> MemorySize[k]]
Created(k, old, fail) ==
  IF k = fail THEN NULL ELSE IF k \in CreatedMemory(fail) THEN Fresh(k) ELSE old

InitMemory(fail) ==
  /\ mImage_cl' = Created("image", mImage_cl, fail)
  /\ mFluxBuffer' = Created("flux", mFluxBuffer, fail)
  /\ mFTBuffer' = Created("ft", mFTBuffer, fail)
  /\ mSimDataBuffer' = Created("sim", mSimDataBuffer, fail)
  /\ live' = live \cup {Fresh(k) : k \in CreatedMemory(fail)}
  /\ mMaxData' = IF fail = "image" THEN mMaxData ELSE MaxNumData
  /\ memory' = IF fail = "none" /\ memory # "missed" THEN "current" ELSE memory

\* A routine is constructed and initialised only while its pointer is null.
Uninitialized(max) ==
  {r \in Routines :
     /\ routine[r] = "null"
     /\ r = "CopyImage" => Interop
     /\ r \in DataRoutines => max > 0}

\* The routine whose Init throws keeps its pointer; the later ones are not reached.
Built(fail, max) ==
  [r \in Routines |->
     IF r \notin Uninitialized(max) THEN routine[r]
     ELSE IF fail = "none" THEN "ready"
     ELSE IF r = fail THEN "made"
     ELSE IF Rank[r] < Rank[fail] THEN "ready" ELSE "null"]

\* The flag is set before the first data routine.  Mutant: after the last.
CompletesDataRoutines(fail, max) == max > 0 /\ fail = "none"
ReachesDataRoutines(fail, max) == max > 0 /\ fail \notin BaseRoutines

\* What the Init of routine r is told.  Mutants: a scale of
\* one pixel per unit; width times width.
InitArgumentUnscaled(r, max) ==
  CASE r = "TotalFlux" -> Pixels [] r = "FT" -> 1 [] OTHER -> max
InitArgumentSquare(r, max) ==
  CASE r = "TotalFlux" -> mImage.w * mImage.w [] r = "FT" -> mImage.scale [] OTHER -> max
InitArgument(r, max) ==
  CASE r = "TotalFlux" -> Pixels [] r = "FT" -> mImage.scale [] OTHER -> max

InitRoutines(fail, max) ==
  /\ routine' = Built(fail, max)
  /\ mDataRoutinesInitialized' =
       (mDataRoutinesInitialized \/ ReachesDataRoutines(fail, max))
  /\ sized' = [r \in DOMAIN sized |->
       IF routine[r] = "null" /\ routine'[r] # "null"
         THEN InitArgument(r, max) ELSE sized[r]]

\* Without the kernel sources the first routine to be built throws.
RoutineFailures(max) ==
  IF mKernelSourcePath
    THEN Uninitialized(max) \cup {"none"}
    ELSE {r \in Uninitialized(max) : \A q \in Uninitialized(max) : Rank[r] <= Rank[q]}
         \cup (IF Uninitialized(max) = {} THEN {"none"} ELSE {})

InitCall ==
  /\ epoch < MaxEpoch
  /\ epoch' = epoch + 1
  /\ \/ \E fail \in WantedMemory :
          /\ InitMemory(fail)
          /\ Returns("Init", "throw", 0)
          /\ UNCHANGED <<mDataRoutinesInitialized, routine, sized>>
     \/ /\ InitMemory("none")
        /\ \E fail \in RoutineFailures(MaxNumData) :
             /\ InitRoutines(fail, MaxNumData)
             /\ Returns("Init", IF fail = "none" THEN "ok" ELSE "throw", 0)
  /\ UNCHANGED <<mDataList, config, mImage_gl>>

InitMemoryCall ==
  /\ epoch < MaxEpoch
  /\ epoch' = epoch + 1
  /\ \E fail \in WantedMemory \cup {"none"} :
       /\ InitMemory(fail)
       /\ Returns("InitMemory", IF fail = "none" THEN "ok" ELSE "throw", 0)
  /\ UNCHANGED <<mDataList, config, mImage_gl, mDataRoutinesInitialized, routine, sized>>

\* The routines are sized with what the last InitMemory found in the list.
InitRoutinesCall ==
  /\ epoch < MaxEpoch
  /\ epoch' = epoch + 1
  /\ \E fail \in RoutineFailures(mMaxData) :
       /\ InitRoutines(fail, mMaxData)
       /\ Returns("InitRoutines", IF fail = "none" THEN "ok" ELSE "throw", 0)
  /\ memory' = IF memory = "stale" /\ mDataRoutinesInitialized' THEN "missed" ELSE memory
  /\ UNCHANGED <<mDataList, config, handles, mMaxData, live>>
-----------------------------------------------------------------------------
(* Computations.  They change no handle, size or routine; what matters here *)
(* is whether they stay inside the buffers and use initialised routines.    *)

Ready(routines) == \A r \in routines : routine[r] = "ready"

\* CRoutine_Sum_NVidia copies as many elements as its Init was told; the copy
\* is refused by OpenCL when the image buffer is shorter.
FluxStep ==
  IF ~Ready({"Zero", "TotalFlux"}) THEN "undefined"
  ELSE IF Fits(mImage_cl, sized.TotalFlux) /\ Fits(mFluxBuffer, 1) THEN "ok" ELSE "throw"

NormalizeStep ==
  Then(FluxStep,
       IF Ready({"Normalize"}) /\ Fits(mImage_cl, Pixels) THEN "ok" ELSE "undefined")

FTToDataStep(d) ==
  IF /\ Ready({"FT", "V2", "T3"}) /\ Fits(mImage_cl, Pixels)
     /\ Fits(mFTBuffer, d.nUV) /\ Fits(mSimDataBuffer, NumData(d))
    THEN "ok" ELSE "undefined"

ImageToDataStep(d) == Then(NormalizeStep, FTToDataStep(d))

ChiStep(d) ==
  IF Ready({"Zero", "Chi"}) /\ sized.Chi >= NumData(d) THEN "ok" ELSE "undefined"

\* CRoutine_Sum_AMD over a buffer for n elements.
AMDSumStep(n) ==
  IF NDRangeAccepted(AMDGlobalThreads(n), GroupSize) THEN "ok" ELSE "throw"

Chi2Step(d) ==
  Then(IF Ready({"Square"}) THEN ChiStep(d) ELSE "undefined", AMDSumStep(sized.Chi))

LogLikeStep(d) ==
  Then(IF Ready({"Zero", "LogLike"}) /\ sized.LogLike >= NumData(d)
         THEN "ok" ELSE "undefined",
       AMDSumStep(sized.LogLike))

\* The ImageTo... call op on data set d, once the data set is found.
ComputeStep(op, d) ==
  Then(ImageToDataStep(d),
       CASE op \in {"ImageToChi", "ImageToChi2Elements"} -> ChiStep(d)
         [] op = "ImageToChi2"    -> Chi2Step(d)
         [] op = "ImageToLogLike" -> LogLikeStep(d)
         [] op = "ImageToData"    -> "ok")

\* data_num > size() - 1, in unsigned arithmetic; vector::at throws.
DataNumRefused(i) == i > (NumLoaded - 1) % (MaxUInt + 1)

ImageTo(i) ==
  \E op \in ComputeOps :
    /\ Returns(op,
               IF DataNumRefused(i) THEN "refused"
               ELSE IF i >= NumLoaded THEN "throw"
               ELSE ComputeStep(op, DataSet(i)),
               i)
    /\ UNCHANGED <<mDataList, config, handles, inited, live, epoch>>

TotalFlux ==
  /\ Returns("TotalFlux", FluxStep, sized.TotalFlux)
  /\ UNCHANGED <<mDataList, config, handles, inited, live, epoch>>

Normalize ==
  /\ Returns("Normalize", NormalizeStep, 0)
  /\ UNCHANGED <<mDataList, config, handles, inited, live, epoch>>

\* Only the kinds of source that InitMemory makes an image buffer for are
\* copied; the assertion fails for the others.
CopyImageToBuffer ==
  /\ Returns("CopyImageToBuffer",
       CASE mImageType = "HOST_MEMORY" -> IF Fits(mImage_cl, Pixels) THEN "ok" ELSE "throw"
         [] mImageType \in {"OPENGL_FRAMEBUFFER", "OPENGL_TEXTUREBUFFER"} ->
              IF ~Ready({"CopyImage"}) THEN "undefined"
              ELSE IF mImage_gl = NULL \/ mImage_cl = NULL THEN "throw"
              ELSE IF Fits(mImage_cl, Pixels) THEN "ok" ELSE "undefined"
         [] OTHER -> "abort",
       0)
  /\ UNCHANGED <<mDataList, config, handles, inited, live, epoch>>

\* The whole depth is read although only one layer is allocated, and the file
\* receives width * width elements.
ExportImage ==
  /\ Returns("ExportImage",
       IF mImage_cl = NULL THEN "refused"
       ELSE Then(NormalizeStep,
                 IF ~Fits(mImage_cl, Pixels * mImage.d) THEN "throw"
                 ELSE IF mImage.w * mImage.w > Pixels * mImage.d THEN "undefined"
                 ELSE "ok"),
       mImage.w * mImage.w)
  /\ UNCHANGED <<mDataList, config, handles, inited, live, epoch>>

\* The readers of one data set: at() throws, operator[] is undefined beyond
\* the end, and GetNT3 and GetNV2 compare with the size first.
QueryData(i) ==
  \E out \in {"ok", "throw", "undefined", "refused"} :
    /\ i < NumLoaded <=> out = "ok"
    /\ Returns("Query", out, 0)
    /\ UNCHANGED <<mDataList, config, handles, inited, live, epoch>>

\* ~CLibOI releases every handle it holds, wherever the handle came from.
\* Mutant: it forgets the buffer of simulated data.
HeldButSimulated == {mFluxBuffer, mFTBuffer, mImage_gl, mImage_cl}
Held == {mFluxBuffer, mFTBuffer, mSimDataBuffer, mImage_gl, mImage_cl}
Destroy ==
  /\ phase' = "destroyed"
  /\ live' = live \ Held
  /\ last' = [op |-> "~CLibOI", out |-> "ok", n |-> 0]
  /\ UNCHANGED <<mDataList, config, handles, inited, epoch>>
-----------------------------------------------------------------------------
Configure == SetKernelSourcePath \/ SetImageInfo \/ SetImageSourceHost
             \/ SetImageSourceCL \/ SetImageSourceGL
ChangeData(i) == RemoveData(i) \/ ReplaceData(i)
ComputeImage == TotalFlux \/ Normalize \/ CopyImageToBuffer \/ ExportImage

\* Any call, in any order, on a living object.
Next ==
  /\ phase = "alive"
  /\ \/ Configure \/ LoadData \/ InitCall \/ InitMemoryCall \/ InitRoutinesCall
     \/ ComputeImage \/ Destroy
     \/ \E i \in 0 .. MaxSets : ChangeData(i) \/ ImageTo(i) \/ QueryData(i)

Spec == InitMembers /\ [][Next]_vars
-----------------------------------------------------------------------------
(* Correctness.                                                            *)

\* The types of all variables, liboi.hpp:119-158.
TypeOK ==
  /\ mDataList \in Seq(Storable)
  /\ mImageType \in ImageTypes
  /\ mImage \in ImageInfo
  /\ mImage_cl \in Handle /\ mImage_gl \in Handle /\ mFluxBuffer \in Handle
  /\ mFTBuffer \in Handle /\ mSimDataBuffer \in Handle
  /\ mMaxData \in Nat
  /\ mDataRoutinesInitialized \in BOOLEAN
  /\ routine \in [Routines -> {"null", "made", "ready"}]
  /\ sized \in [{"TotalFlux", "FT", "Chi", "LogLike"} -> Nat]
  /\ mKernelSourcePath \in BOOLEAN
  /\ phase \in {"alive", "destroyed", "dead"}
  /\ live \subseteq Handle
  /\ epoch \in Nat
  /\ last \in [op : Calls, out : Outcomes, n : Nat]
  /\ memory \in Memory

\* Once the data routines count as initialised, every loaded data set fits the
\* Fourier and simulated-data buffers, whatever was loaded, removed, replaced
\* and re-initialised since, and however often an Init, or one of its halves,
\* failed half-way (liboi.cpp:541-547 against LoadData's check, 638 and 649).
\* The one exception is an InitRoutines called by itself that came to the data
\* routines although a data set had been loaded after the last InitMemory.
DataBuffersFit ==
  mDataRoutinesInitialized /\ memory # "missed" =>
    \A d \in Loaded : /\ mFTBuffer = NULL \/ Fits(mFTBuffer, d.nUV)
                      /\ mSimDataBuffer = NULL \/ Fits(mSimDataBuffer, NumData(d))

\* The chi and log-likelihood routines are sized once and never again
\* (liboi.cpp:618-630), yet their buffers hold the elements of every data set
\* that is in the list, at any later time, with the exception above.
ChiBuffersFit ==
  memory # "missed" =>
    \A r \in {"Chi", "LogLike"} :
      routine[r] = "ready" => \A d \in Loaded : sized[r] >= NumData(d)

\* No data routine exists without the flag that keeps LoadData out, not even
\* after an Init that threw between building one routine and the next
\* (liboi.cpp:592-631 sets the flag before the first of them).
DataRoutinesFlagged ==
  (\E r \in DataRoutines : routine[r] # "null") => mDataRoutinesInitialized

\* liboi.cpp:673: "Computes the total flux for the current image/layer":
\* number of elements summed is the number of pixels of the current image.
TotalFluxCoversImage ==
  last.op = "TotalFlux" /\ last.out = "ok" /\ mImage_cl.size = Pixels => last.n = Pixels
=============================================================================
