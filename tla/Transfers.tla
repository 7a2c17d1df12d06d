----------------------------- MODULE Transfers -----------------------------
(***************************************************************************)
(* The transfers of a data set and of the image on the one command queue   *)
(* they share: the host that makes calls, the device that carries out      *)
(* commands, and OpenGL that renders.                                      *)
(***************************************************************************)
EXTENDS DataTransfer, ImageCopy

vars == <<queueVars, dataVars, imageVars>>

Init == QueueInit /\ DataInit /\ ImageInit

DataCall == LoadData \/ ReplaceData \/ ExportData \/ GetData \/ RemoveData
DataStep == Repackage \/ Save("save real") \/ Save("save model") \/ Throw
\* CopyImage checks the status of its clFinish, COILibData ignores it.
QueueStep ==
  EnqueueGroup \/ Finish \/ FinishFails(call = "CopyImageToBuffer") \/ CheckPasses

Host ==
  \/ (DataCall \/ DataStep) /\ UNCHANGED imageVars
  \/ Return /\ ImageReturn
  \/ (Draw \/ CopyImageToBuffer \/ GlFinish) /\ UNCHANGED dataVars
  \/ QueueStep /\ UNCHANGED <<dataVars, imageVars>>

Execute ==
  /\ queue # << >> /\ queue' = Tail(queue)
  /\ LET cmd == Head(queue) IN
       \/ cmd.op \in ImageOps /\ ImageCommand(cmd.op) /\ UNCHANGED dataVars
       \/ cmd.op = "write" /\ WriteCommand(cmd) /\ UNCHANGED imageVars
       \/ cmd.op \in {"read", "read simulated"} /\ ReadCommand(cmd) /\ UNCHANGED imageVars
  /\ UNCHANGED <<todo, refused, call, outcome, ignored>>

OpenGL == \E t \in Tiles : Render(t) /\ UNCHANGED dataVars

\* Nothing is known of a process whose memory is corrupted.
Next == ~corrupted /\ (Host \/ Execute \/ OpenGL)

Spec == Init /\ [][Next]_vars
-----------------------------------------------------------------------------
TypeOK ==
  /\ refused \in BOOLEAN /\ owner \in {"GL", "CL"} /\ overlapped \in BOOLEAN
  /\ outcome \in {"ok", "throw", "swallowed", "running"}
  /\ Idle <=> outcome # "running"
  /\ counts \in Count
  /\ upload \in {"none", "partial", "ok"} /\ corrupted \in BOOLEAN
  /\ IF upload = "none" THEN stale = {} ELSE stale \subseteq AllocateMemory(counts)
  /\ arrays \subseteq AllocateMemory(counts) \X {"real", "simulated"}
  /\ exported \in {"nothing", "current", "other", "unknown"}
  /\ ignored \in BOOLEAN /\ copied \in BOOLEAN
  /\ source \in Sources /\ rendered \subseteq Tiles /\ image \subseteq Tiles

\* A data set that LoadData or ReplaceData has brought to the device is there
\* whole and stays so, and exports are of it - whatever earlier, half-done
\* replacements and exports left in the queue (COILibData.cpp:176-264,
\* 285-423, 426-558, 597-652).  Where the status of a clFinish is ignored that
\* failed without waiting, it is not: such an upload is not taken for done, nor
\* is the file of such an export known, but the calls after it are right again.
DataOnDevice ==
  INSTANCE Contents WITH
    state <- CASE upload = "none" -> "none"
               [] upload = "partial" -> "changing"
               [] upload = "ok" -> IF stale = {} THEN "whole" ELSE "spoiled"
ContentsKept == DataOnDevice!Spec

\* A call that returned normally leaves nothing in the queue, and so nothing
\* that uses memory of the host, but a copy the release of the OpenGL object
\* (COILibData.cpp:363, 557, 571, 585; CRoutine_ImageToBuffer.cpp:101-103).
\* What earlier calls that threw left there has been waited for, too.
\* It is not so where a clFinish failed whose status COILibData ignores.
NothingPending ==
  outcome = "ok" /\ ~ignored /\ call \in {"LoadData", "ReplaceData", "ExportData", "GetData",
                                          "CopyImageToBuffer"}
    => \A cmd \in ToSet(queue) : call = "CopyImageToBuffer" /\ cmd.op = "release"

\* The image that was copied is one frame, the last that was drawn, unless
\* that frame was rendered while OpenCL still had the object: a copy returns
\* before the object is released (CRoutine_ImageToBuffer.cpp:77-102,
\* liboi.cpp:131-146).
WholeFrame ==
  call = "CopyImageToBuffer" /\ outcome = "ok" /\ ~overlapped
    => image = Tiles

\* Nothing flushes the release of the OpenGL object, so that OpenGL may never
\* get it back.  But after a copy that returned normally nothing is missing
\* except that release, whatever earlier copies left undone, and the next call
\* that waited, returning normally, has seen to it that OpenGL has the object
\* (CRoutine_ImageToBuffer.cpp:77-103; COILibData.cpp:363, 557, 571, 585).
ObjectReturned ==
  copied =>
    \/ owner = "GL"
    \/ /\ \E cmd \in ToSet(queue) : cmd.op = "release"
       /\ ~(outcome = "ok" /\ ~ignored
              /\ call \in {"LoadData", "ReplaceData", "ExportData", "GetData"})
=============================================================================
