----------------------------- MODULE Evaluation -----------------------------
(***************************************************************************)
(* What the ImageTo... calls of CLibOI promise, without their buffers and  *)
(* kernels: an answer is about the image and the data set as they are when *)
(* the call is made.  Images and data sets are known by version numbers.   *)
(***************************************************************************)
EXTENDS Integers

CONSTANTS
  Sets,          \* the loaded data sets
  Ops,           \* the calls a client may make
  MaxChanges     \* bound: new images, and replacements of a data set

VARIABLES
  image,         \* version of the image in device memory
  contents,      \* version of the contents of each data set
  answer         \* the last answer

vars == <<image, contents, answer>>

Silent == [op |-> "none"]
AnswerTo(op, d) == [op |-> op, d |-> d, image |-> image, version |-> contents[d]]

Init == image = 0 /\ contents = [d \in Sets |-> 0] /\ answer = Silent

NewImage == image < MaxChanges /\ image' = image + 1 /\ UNCHANGED <<contents, answer>>

\* A replacement that fails half-way changes the contents as well.
ReplaceData(d) ==
  /\ contents[d] < MaxChanges
  /\ contents' = [contents EXCEPT ![d] = @ + 1]
  /\ UNCHANGED <<image, answer>>

Answer(op, d) == answer' = AnswerTo(op, d) /\ UNCHANGED <<image, contents>>

\* The call is refused or throws: nobody is told anything.
NoAnswer == answer' = Silent /\ UNCHANGED <<image, contents>>

Next ==
  \/ NewImage \/ NoAnswer
  \/ \E d \in Sets : ReplaceData(d) \/ \E op \in Ops : Answer(op, d)

Spec == Init /\ [][Next]_vars
=============================================================================
