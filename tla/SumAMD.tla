------------------------------- MODULE SumAMD -------------------------------
(***************************************************************************)
(* CRoutine_Sum_AMD, the sum that closes chi^2 and log-likelihood: Init    *)
(* rounds the buffer up to a power of two and takes the largest work-group *)
(* the kernel allows, Sum runs reduce_sum_float_amd once and adds up what  *)
(* the groups leave in the output buffer on the host.                      *)
(*                                                                         *)
(* The groups share only the input and write different elements of the     *)
(* output, so they run one after the other here.                           *)
(***************************************************************************)
EXTENDS WorkGroup, Geometry

CONSTANTS
  InputSizes,          \* the numbers of elements Init may be told
  GROUP_SIZE,          \* 256
  KernelGroupSizes     \* CL_KERNEL_WORK_GROUP_SIZE of the devices

ASSUME SizesAssumption ==
  InputSizes \cup KernelGroupSizes \cup {GROUP_SIZE} \subseteq Nat \ {0}

VARIABLES
  mInputSize, mBufferSize,
  groupSize,
  program,             \* the kernel, for groups of groupSize items
  mInputBuffer,        \* the input, followed by zeros
  bid,                 \* the group that runs
  mOutputBuffer,
  state,               \* of the call to Sum: "init", "running", "threw" or "returned"
  result

plan == <<mInputSize, mBufferSize, groupSize, program, mInputBuffer>>
vars == <<plan, bid, mOutputBuffer, state, result, group>>

\* numBlocks = mBufferSize / ((cl_float)groupSize * MULTIPLY)
MULTIPLY == 2
numBlocks == mBufferSize \div (groupSize * MULTIPLY)
globalThreads == AMDGlobalThreads(mBufferSize)

\* Mutant: adds across half of the elements of the level.
HalfStride(s) == s \div 2
Stride(s) == s

\* One round of for(s = localSize >> 1; s > 0; s >>= 1), and those from s on.
\* Mutant: without the barrier.
LevelUnsynchronised(s) == <<Instr("load", s), Instr("store", s)>>
Level(s) == <<Instr("load", s), Instr("store", s), Barrier>>
Rounds[s \in 0 .. GROUP_SIZE] ==
  IF s = 0 THEN <<Instr("write", 0)>> ELSE Level(s) \o Rounds[s \div 2]
BuildKernel(localSize) == <<Instr("fill", 0), Barrier>> \o Rounds[localSize \div 2]

Local == 0 .. groupSize - 1
-----------------------------------------------------------------------------
(* The kernel.  Every item is a bundle of its own: lockstep would only take *)
(* interleavings away. *)

FillReads(tid) == LET stride == (bid * groupSize + tid) * 2 IN {stride, stride + 1}

Busy(tid, s) == tid < s

Fill(tid) ==
  /\ Executes(program, tid, "fill")
  /\ sdata' = [sdata EXCEPT ![tid] = Sum(mInputBuffer, FillReads(tid))]
  /\ Advance(tid)
  /\ UNCHANGED <<plan, bid, mOutputBuffer, state, result, reg>>

Load(tid) ==
  /\ Executes(program, tid, "load")
  /\ LET s == program[at[tid]].h IN
       reg' = IF Busy(tid, s)
                THEN [reg EXCEPT ![tid] = Plus(sdata[tid], Fetch(sdata, tid + Stride(s)))]
                ELSE reg
  /\ Advance(tid)
  /\ UNCHANGED <<plan, bid, mOutputBuffer, state, result, sdata>>

Store(tid) ==
  /\ Executes(program, tid, "store")
  /\ sdata' = IF Busy(tid, program[at[tid]].h) THEN [sdata EXCEPT ![tid] = reg[tid]] ELSE sdata
  /\ Advance(tid)
  /\ UNCHANGED <<plan, bid, mOutputBuffer, state, result, reg>>

Write(tid) ==
  /\ Executes(program, tid, "write")
  /\ mOutputBuffer' = IF tid = 0 THEN [mOutputBuffer EXCEPT ![bid] = sdata[0]] ELSE mOutputBuffer
  /\ Advance(tid)
  /\ UNCHANGED <<plan, bid, state, result, sdata, reg>>

WaitBarrier(tid) ==
  /\ PassBarrier(program, tid)
  /\ UNCHANGED <<plan, bid, mOutputBuffer, state, result>>
-----------------------------------------------------------------------------
(* The host *)

\* setWorkGroupSize
GroupSize(kernelWorkGroupSize) ==
  IF GROUP_SIZE > kernelWorkGroupSize THEN kernelWorkGroupSize ELSE GROUP_SIZE

\* Init(n); the output buffer is zeroed.
Init ==
  /\ mInputSize \in InputSizes
  /\ mBufferSize = RoundUpPow2(mInputSize)
  /\ groupSize \in {GroupSize(k) : k \in KernelGroupSizes}
  /\ program = BuildKernel(groupSize)
  /\ mInputBuffer = [a \in 0 .. mBufferSize - 1 |-> IF a < mInputSize THEN {a} ELSE {}]
  /\ mOutputBuffer = [a \in 0 .. mBufferSize - 1 |-> {}]
  /\ bid = 0 /\ state = "init" /\ result = {}
  /\ LET g == GroupInit(groupSize, 1, Local)
     IN at = g.at /\ sdata = g.sdata /\ reg = g.reg

\* OpenCL refuses the kernel, and Sum throws, or runs it.
Enqueue ==
  /\ state = "init"
  /\ state' = IF NDRangeAccepted(globalThreads, groupSize) THEN "running" ELSE "threw"
  /\ UNCHANGED <<plan, bid, mOutputBuffer, result, group>>

GroupDone == state = "running" /\ Finished(program)

NextGroup ==
  /\ GroupDone /\ bid + 1 < globalThreads \div groupSize
  /\ bid' = bid + 1
  /\ LET g == GroupInit(groupSize, 1, Local)
     IN at' = g.at /\ sdata' = g.sdata /\ reg' = g.reg
  /\ UNCHANGED <<plan, mOutputBuffer, state, result>>

Return ==
  /\ GroupDone /\ bid + 1 = globalThreads \div groupSize
  /\ state' = "returned"
  /\ result' = Sum(mOutputBuffer, 0 .. numBlocks - 1)
  /\ UNCHANGED <<plan, bid, mOutputBuffer, group>>

Kernel(tid) == Fill(tid) \/ Load(tid) \/ Store(tid) \/ Write(tid) \/ WaitBarrier(tid)

Next ==
  \/ Enqueue \/ NextGroup \/ Return
  \/ state = "running" /\ \E tid \in DOMAIN at : Kernel(tid)

Spec == Init /\ [][Next]_vars
-----------------------------------------------------------------------------
\* Whenever the kernel is accepted, whatever the group size of the device and
\* the order in which the items run, the sum has every input element once
\* (CRoutine_Sum_AMD.cpp 85-146, reduce_sum_float_amd.cl 32-56).
SumComplete == state = "returned" => result = 0 .. mInputSize - 1

\* No item loads an element of local memory that another one is about to
\* store: the barriers separate the levels (reduce_sum_float_amd.cl 43-53).
Stores(tid) ==
  IF \/ Executes(program, tid, "fill")
     \/ Executes(program, tid, "store") /\ Busy(tid, program[at[tid]].h)
    THEN {tid} ELSE {}
Loads(tid) ==
  IF Executes(program, tid, "load") /\ Busy(tid, program[at[tid]].h)
    THEN {tid, tid + Stride(program[at[tid]].h)}
    ELSE IF Executes(program, tid, "write") /\ tid = 0 THEN {0} ELSE {}
RaceFree ==
  \A t, u \in DOMAIN at : t # u => Stores(t) \cap (Loads(u) \cup Stores(u)) = {}

=============================================================================
