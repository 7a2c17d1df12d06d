------------------------------ MODULE Pipeline ------------------------------
(***************************************************************************)
(* How CLibOI computes an ImageTo... call: the kernels it enqueues, in     *)
(* order, on device buffers that all calls and all data sets share         *)
(* (liboi.cpp 149-165, 271-285, 366-470; CRoutine_Chi, CRoutine_LogLike,   *)
(* CRoutine_Square, CRoutine_FTtoV2, CRoutine_FTtoT3).  The command queue  *)
(* is in-order and the host has one thread, so a stage is one action; but  *)
(* OpenCL may refuse any of them, which leaves the buffers as they are and *)
(* the call without an answer.                                             *)
(*                                                                         *)
(* Buffer elements carry where they come from: element k of the model of   *)
(* data set d in some version, for some image.  Anything else - memory     *)
(* never written, a mixture of sources - is junk.                          *)
(***************************************************************************)
EXTENDS DataLayout, Sequences

CONSTANTS
  Sets, Ops, MaxChanges,    \* as in Evaluation
  Shape,         \* the counts of each data set
  BufferSize     \* mMaxData, the size of the buffers for data

ASSUME OpsAssumption ==
  /\ Ops \subseteq {"ImageToData", "ImageToChi", "ImageToChi2", "ImageToLogLike"}
  /\ MaxChanges \in Nat
ASSUME ShapeAssumption ==
  BufferSize \in Nat /\ \A d \in Sets : Shape[d] \in Count /\ NumData(Shape[d]) <= BufferSize

VARIABLES
  image,                   \* [version, unit]: contents of mImage_cl, normalised or not
  contents,                \* version of the device copy of each data set
  ft,                      \* what mFTBuffer is the transform of
  sim,                     \* mSimDataBuffer
  chi, chi2,               \* mChiOutput and mChiSquaredOutput of mrChi
  chiL, logLike,           \* mChiOutput and mLogLikeOutput of mrLogLike
  call, todo,              \* the current call and the stages it still has to do
  answer,                  \* what the last call returned, until the next one
  changes                  \* bounded: new images and replacements so far

buffers == <<ft, sim, chi, chi2, chiL, logLike>>
vars == <<image, contents, buffers, call, todo, answer, changes>>

Indices == 0 .. BufferSize - 1
JUNK == [k |-> "junk"]
ZERO == [k |-> "zero"]
NoCall == [op |-> "none"]

\* The model of data set d for the image in device memory, and its element k.
ModelOf(d) == [d |-> d, version |-> contents[d], image |-> image.version]
Element(d, k) == [k |-> k, of |-> ModelOf(d)]

Segment(offset, n) == offset .. offset + n - 1
VisOf(d) == Segment(CalculateOffset_Vis, 2 * Shape[d].nVis)
V2Of(d) == Segment(CalculateOffset_V2(Shape[d].nVis), Shape[d].nV2)
\* Mutant: as if a squared visibility were two floats, too.
T3OfComplexV2(d) ==
  Segment(CalculateOffset_T3(Shape[d].nVis, 2 * Shape[d].nV2), 2 * Shape[d].nT3)
T3Of(d) == Segment(CalculateOffset_T3(Shape[d].nVis, Shape[d].nV2), 2 * Shape[d].nT3)
DataOf(d) == Segment(0, NumData(Shape[d]))

\* The elements a kernel over n items with a complex value each touches: the
\* real part at offset + i, the imaginary part at offset + n + i.
Complex(offset, n) == {{offset + i, offset + n + i} : i \in 0 .. n - 1}
Pairs(d) == Complex(CalculateOffset_Vis, Shape[d].nVis)
            \cup Complex(CalculateOffset_T3(Shape[d].nVis, Shape[d].nV2), Shape[d].nT3)

\* buffer after the elements in part were computed as new says.  A kernel
\* that writes beyond the buffer is a buffer with elements beyond it.
Write(buffer, part, new(_)) ==
  [k \in DOMAIN buffer \cup part |-> IF k \in part THEN new(k) ELSE buffer[k]]
-----------------------------------------------------------------------------
(* The calls and their stages *)

\* Mutants leave a stage out.
SimulateWithoutT3 == <<"Normalize", "FT", "V2">>
Simulate == <<"Normalize", "FT", "V2", "T3">>
ComputeChiUnzeroed == <<"ChiV2", "ChiVis", "ChiT3">>
ComputeChi == <<"ZeroChi", "ChiV2", "ChiVis", "ChiT3">>

Stages(op) ==
  Simulate \o
  CASE op = "ImageToData"    -> << >>
    [] op = "ImageToChi"     -> ComputeChi \o <<"ReadChi">>
    [] op = "ImageToChi2"    -> <<"ZeroChi2">> \o ComputeChi \o <<"Square", "SumChi2">>
    [] op = "ImageToLogLike" -> ComputeChi \o <<"LogLike", "SumLogLike">>

Init ==
  /\ image = [version |-> 0, unit |-> FALSE]
  /\ contents = [d \in Sets |-> 0]
  /\ ft = JUNK
  /\ sim = [k \in Indices |-> JUNK]
  /\ chi = sim /\ chi2 = sim /\ chiL = sim /\ logLike = sim
  /\ call = NoCall /\ todo = << >> /\ answer = NoCall /\ changes = 0

Idle == todo = << >>

\* CopyImageToBuffer, or a client that writes its own device buffer.
NewImage ==
  /\ Idle /\ changes < MaxChanges /\ changes' = changes + 1
  /\ image' = [version |-> image.version + 1, unit |-> FALSE]
  /\ UNCHANGED <<contents, buffers, call, todo, answer>>

\* Replace copies the data sets' buffers one after the other; if it throws
\* in between, the contents are neither the old nor the new ones.
ReplaceData(d) ==
  /\ Idle /\ changes < MaxChanges /\ changes' = changes + 1
  /\ contents' = [contents EXCEPT ![d] = @ + 1]
  /\ UNCHANGED <<image, buffers, call, todo, answer>>

Call(op, d) ==
  /\ Idle
  /\ call' = [op |-> op, d |-> d]
  /\ todo' = Stages(op)
  /\ answer' = NoCall
  /\ UNCHANGED <<image, contents, buffers, changes>>

\* A stage throws: the stages before it have been carried out.
Throw ==
  /\ ~Idle
  /\ todo' = << >> /\ call' = NoCall /\ answer' = NoCall
  /\ UNCHANGED <<image, contents, buffers, changes>>

\* Stage s of the current call; the last stage of ImageToData, which returns
\* nothing, ends it.
Stage(s) ==
  /\ ~Idle /\ Head(todo) = s
  /\ todo' = Tail(todo)
  /\ call' = IF Len(todo) = 1 THEN NoCall ELSE call
  /\ UNCHANGED <<contents, changes>>

Return(elements) ==
  answer' = [op |-> call.op, d |-> call.d, image |-> image.version,
             version |-> contents[call.d], elements |-> elements]

-----------------------------------------------------------------------------
(* The stages *)

Normalize ==
  /\ Stage("Normalize")
  /\ image' = [image EXCEPT !.unit = TRUE]
  /\ UNCHANGED <<buffers, answer>>

FT ==
  /\ Stage("FT")
  /\ ft' = IF image.unit THEN ModelOf(call.d) ELSE JUNK
  /\ UNCHANGED <<image, sim, chi, chi2, chiL, logLike, answer>>

\* Both kernels read the transform through the UV references of the data set.
FromFT(k) == IF ft = ModelOf(call.d) THEN Element(call.d, k) ELSE JUNK

FTtoV2 ==
  /\ Stage("V2")
  /\ sim' = Write(sim, V2Of(call.d), FromFT)
  /\ UNCHANGED <<image, ft, chi, chi2, chiL, logLike, answer>>

FTtoT3 ==
  /\ Stage("T3")
  /\ sim' = Write(sim, T3Of(call.d), FromFT)
  /\ IF call.op = "ImageToData" THEN Return({}) ELSE UNCHANGED answer
  /\ UNCHANGED <<image, ft, chi, chi2, chiL, logLike>>

\* Chi of element k: needs the simulated value, for complex observables both
\* parts of it, since they are compared by amplitude and phase.
ChiOf(k) ==
  LET needed == {k} \cup UNION {p \in Pairs(call.d) : k \in p} IN
  IF \A j \in needed : sim[j] = Element(call.d, j) THEN Element(call.d, k) ELSE JUNK

\* A stage of CRoutine_Chi: it works on mrChi's buffer or on mrLogLike's.
OnChi(part, new(_)) ==
  IF call.op = "ImageToLogLike"
    THEN chiL' = Write(chiL, part, new) /\ UNCHANGED chi
    ELSE chi' = Write(chi, part, new) /\ UNCHANGED chiL

ZeroChi ==
  /\ Stage("ZeroChi")
  /\ OnChi(Indices, LAMBDA k : ZERO)
  /\ UNCHANGED <<image, ft, sim, chi2, logLike, answer>>

Chi ==
  /\ \/ Stage("ChiV2") /\ OnChi(V2Of(call.d), ChiOf)
     \/ Stage("ChiVis") /\ OnChi(VisOf(call.d), ChiOf)
     \/ Stage("ChiT3") /\ OnChi(T3Of(call.d), ChiOf)
  /\ UNCHANGED <<image, ft, sim, chi2, logLike, answer>>

\* The caller gets the leading elements, as many as it has room for.
ReadChi ==
  /\ Stage("ReadChi")
  /\ \E n \in 0 .. BufferSize : Return({<<k, chi[k]>> : k \in Segment(0, n)})
  /\ UNCHANGED <<image, buffers>>

ZeroChi2 ==
  /\ Stage("ZeroChi2")
  /\ chi2' = [k \in Indices |-> ZERO]
  /\ UNCHANGED <<image, ft, sim, chi, chiL, logLike, answer>>

Square ==
  /\ Stage("Square")
  /\ chi2' = Write(chi2, DataOf(call.d), LAMBDA k : chi[k])
  /\ UNCHANGED <<image, ft, sim, chi, chiL, logLike, answer>>

\* Both sums run over the whole buffer.
SumChi2 ==
  /\ Stage("SumChi2")
  /\ Return({<<k, chi2[k]>> : k \in Indices})
  /\ UNCHANGED <<image, buffers>>

\* The kernel is enqueued for the whole buffer, and writes the elements of
\* the data set.
LogLike ==
  /\ Stage("LogLike")
  /\ logLike' = Write(logLike, DataOf(call.d), LAMBDA k : chiL[k])
  /\ UNCHANGED <<image, ft, sim, chi, chi2, chiL, answer>>

SumLogLike ==
  /\ Stage("SumLogLike")
  /\ Return({<<k, logLike[k]>> : k \in Indices})
  /\ UNCHANGED <<image, buffers>>

Next ==
  \/ NewImage \/ Throw
  \/ \E d \in Sets : ReplaceData(d) \/ \E op \in Ops : Call(op, d)
  \/ Normalize \/ FT \/ FTtoV2 \/ FTtoT3
  \/ ZeroChi \/ Chi \/ ReadChi \/ ZeroChi2 \/ Square \/ SumChi2 \/ LogLike \/ SumLogLike

Spec == Init /\ [][Next]_vars
-----------------------------------------------------------------------------
(* Correctness *)

Models == [d : Sets, version : Nat, image : Nat]
Elements == {JUNK, ZERO} \cup [k : Indices, of : Models]

TypeOK ==
  /\ image \in [version : Nat, unit : BOOLEAN]
  /\ contents \in [Sets -> Nat]
  /\ ft \in Models \cup {JUNK}
  /\ \A b \in {sim, chi, chi2, chiL, logLike} : b \in [Indices -> Elements]
  /\ call \in [op : Ops, d : Sets] \cup {NoCall}
  /\ Len(todo) <= Len(Stages("ImageToChi2"))

\* An answer is made of each element of the data set once, for the image and
\* the contents of the moment, and zeros.  What a log-likelihood sums beyond
\* the data set is the matter of UninvolvedElementsZero.
Meaningful(a) ==
  \A e \in a.elements :
    \/ /\ e[1] \in DataOf(a.d)
       /\ e[2] = [k |-> e[1], of |-> [d |-> a.d, version |-> a.version, image |-> a.image]]
    \/ e[1] \notin DataOf(a.d) /\ (e[2] = ZERO \/ a.op = "ImageToLogLike")

\* The answer in the terms of Evaluation.
AbstractAnswer ==
  IF answer = NoCall THEN NoCall
  ELSE IF ~Meaningful(answer) THEN [op |-> "wrong"]
  ELSE [op |-> answer.op, d |-> answer.d, image |-> answer.image, version |-> answer.version]

Promise == INSTANCE Evaluation WITH image <- image.version, answer <- AbstractAnswer

\* Whatever ran before on the shared buffers, for whichever data set and
\* image, completely or up to an exception, an answer is about the data set
\* asked for and the image of the moment (liboi.cpp 366-470).
AnswersKeepThePromise == Promise!Spec

\* After an answered call, ExportData finds in mSimDataBuffer the model of
\* the data set that was asked for (liboi.cpp 168-174).
SimulatedIsCurrent ==
  /\ Idle /\ answer # NoCall
  /\ answer.image = image.version /\ answer.version = contents[answer.d]
  => \A k \in DataOf(answer.d) \ VisOf(answer.d) : sim[k] = Element(answer.d, k)

\* CRoutine_LogLike.cpp:62-64: the kernel executes on the entire buffer, which
\* is summed as a whole: "Therefore we zero out the elements not directly
\* involved in this computation."
UninvolvedElementsZero ==
  answer # NoCall /\ answer.op = "ImageToLogLike"
    => \A e \in answer.elements : e[1] \notin DataOf(answer.d) => e[2] = ZERO

\* liboi.cpp:391: ImageToChi2 uses "the current active image to compute the
\* chi2 with respect to the specified data."
Chi2OfCurrentImage ==
  answer # NoCall /\ answer.op = "ImageToChi2" => Meaningful(answer)
=============================================================================
