----------------------------- MODULE SumNVidia -----------------------------
(***************************************************************************)
(* CRoutine_Sum_NVidia, the sum of the image that Normalize and TotalFlux  *)
(* use: Init plans the passes (BuildKernels), Sum copies the input into a  *)
(* zeroed buffer and runs the kernels reduce6 and reduce5, group by group  *)
(* and pass by pass, the later passes in place.                            *)
(*                                                                         *)
(* The groups of a pass share nothing but the buffer they read and write   *)
(* different elements, except in place; then there is one group, since     *)
(* MaxBlocks <= 2 * MaxThreads.  So groups run one after the other here.   *)
(***************************************************************************)
EXTENDS WorkGroup, Geometry

CONSTANTS
  InputSizes,          \* the numbers of elements Init may be told
  MaxThreads,          \* 128 (64 on Apple)
  MaxBlocks,           \* 64
  MinBuffer,           \* 128, the workaround for issue 32
  LastWarp,            \* 32, items of the last, barrier-free levels
  Width                \* lockstep width of the device

\* The sizes that the code fixes are powers of two; Init's argument is an int.
ASSUME SizesAssumption ==
  /\ InputSizes \subseteq 1 .. PowerOfTwo[WordBits - 1]
  /\ {LastWarp, Width} \subseteq Nat \ {0}
  /\ {MaxThreads, MaxBlocks, MinBuffer} \subseteq PowersOfTwo
  /\ MaxBlocks <= 2 * MaxThreads
  /\ 4 * LastWarp <= MinBuffer /\ 2 * LastWarp <= MaxThreads

VARIABLES
  mInputSize, mBufferSize,
  passes,              \* mKernels, mThreads and mBlocks, one record per pass
  pass, bid,           \* the pass and the group that run
  mTempBuffer1,        \* the input, followed by zeros
  mTempBuffer2,        \* output of every pass, input of all but the first
  result               \* what Sum returned, or NotYet

plan == <<mInputSize, mBufferSize, passes, mTempBuffer1>>
vars == <<plan, pass, bid, mTempBuffer2, result, group>>

NotYet == {-3}

\* Mutant: without the workaround.
BufferSizeUnfloored(n) == RoundUpPow2(n)
BufferSize(n) == IF RoundUpPow2(n) < MinBuffer THEN MinBuffer ELSE RoundUpPow2(n)

\* getNumBlocksAndThreads
NumThreads(n) == IF n < MaxThreads * 2 THEN nextPow2((n + 1) \div 2) ELSE MaxThreads
NumBlocks(n) == (n + NumThreads(n) * 2 - 1) \div (NumThreads(n) * 2)

\* An addition sdata[tid] += sdata[tid + h] is a load and a store.  Only the
\* levels above a warp end in a barrier.  Mutant: the level of two warps does not.
LevelBarrierFromFour(h) == h > 2 * LastWarp
LevelBarrier(h) == h > LastWarp
Level(h) ==
  <<Instr("load", h), Instr("store", h)>> \o IF LevelBarrier(h) THEN <<Barrier>> ELSE << >>

\* The levels from h on.
Levels[h \in 0 .. MaxThreads] ==
  IF h = 0 THEN <<Instr("write", 0)>> ELSE Level(h) \o Levels[h \div 2]

\* The kernel compiled for groups of size items: a tree of additions.
BuildReductionKernel(size) == <<Instr("fill", 0), Barrier>> \o Levels[size \div 2]

Pass(kernelId, n, numBlocks) ==
  [kernel |-> kernelId, threads |-> NumThreads(n), blocks |-> numBlocks,
   program |-> BuildReductionKernel(NumThreads(n))]

\* BuildKernels: the first pass, and those after a pass that left s sums.
LaterPasses[s \in 0 .. MaxBlocks] ==
  IF s <= 1 THEN << >> ELSE <<Pass(5, s, NumBlocks(s))>> \o LaterPasses[NumBlocks(s)]
BuildKernels(n) ==
  LET first == IF MaxBlocks < NumBlocks(n) THEN MaxBlocks ELSE NumBlocks(n)
  IN <<Pass(6, n, first)>> \o LaterPasses[first]

kernel == passes[pass].kernel
blockSize == passes[pass].threads
blocks == passes[pass].blocks
program == passes[pass].program

\* Every pass gets the local memory of the first one.
Local == 0 .. passes[1].threads - 1

g_idata == IF pass = 1 THEN mTempBuffer1 ELSE mTempBuffer2
-----------------------------------------------------------------------------
(* The kernels.  Both are told n = mBufferSize, in every pass. *)

\* The elements that item tid adds up while it fills its sdata.
FillReads(tid) ==
  LET i == bid * blockSize * 2 + tid
      gridSize == blockSize * 2 * blocks
      first == IF kernel = 6 THEN {a \in i .. mBufferSize - 1 : (a - i) % gridSize = 0}
               ELSE {i} \cap 0 .. mBufferSize - 1
      unguarded == kernel = 6 /\ isPow2(mBufferSize)
  IN first \cup {a + blockSize : a \in {f \in first : unguarded \/ f + blockSize < mBufferSize}}

\* Lanes of the last warp take part in every level below it.
Active(tid, h) == IF h > LastWarp THEN tid < h ELSE tid < LastWarp
Busy(b, h) == {tid \in Lanes(b, blockSize, Width) : Active(tid, h)}

Fill(b) ==
  /\ Executes(program, b, "fill")
  /\ sdata' = [a \in Local |->
       IF a \in Lanes(b, blockSize, Width) THEN Sum(g_idata, FillReads(a)) ELSE sdata[a]]
  /\ Advance(b)
  /\ UNCHANGED <<plan, pass, bid, mTempBuffer2, result, reg>>

Load(b) ==
  /\ Executes(program, b, "load")
  /\ LET h == program[at[b]].h IN
       reg' = [tid \in DOMAIN reg |->
         IF tid \in Busy(b, h) THEN Plus(sdata[tid], Fetch(sdata, tid + h)) ELSE reg[tid]]
  /\ Advance(b)
  /\ UNCHANGED <<plan, pass, bid, mTempBuffer2, result, sdata>>

Store(b) ==
  /\ Executes(program, b, "store")
  /\ sdata' = [a \in Local |-> IF a \in Busy(b, program[at[b]].h) THEN reg[a] ELSE sdata[a]]
  /\ Advance(b)
  /\ UNCHANGED <<plan, pass, bid, mTempBuffer2, result, reg>>

Write(b) ==
  /\ Executes(program, b, "write")
  /\ mTempBuffer2' =
       IF 0 \in Lanes(b, blockSize, Width) THEN [mTempBuffer2 EXCEPT ![bid] = sdata[0]]
       ELSE mTempBuffer2
  /\ Advance(b)
  /\ UNCHANGED <<plan, pass, bid, result, sdata, reg>>

WaitBarrier(b) ==
  /\ PassBarrier(program, b)
  /\ UNCHANGED <<plan, pass, bid, mTempBuffer2, result>>
-----------------------------------------------------------------------------
(* The host *)

\* A new group, of as many items as pass p has in a group.
NextGroupStarts(p) ==
  LET g == GroupInit(passes[p].threads, Width, Local)
  IN at' = g.at /\ sdata' = g.sdata /\ reg' = g.reg

\* Init(n), and Sum up to the first kernel.
Init ==
  /\ mInputSize \in InputSizes
  /\ mBufferSize = BufferSize(mInputSize)
  /\ passes = BuildKernels(mBufferSize)
  /\ pass = 1 /\ bid = 0
  /\ mTempBuffer1 = [a \in 0 .. mBufferSize - 1 |-> IF a < mInputSize THEN {a} ELSE {}]
  /\ mTempBuffer2 = [a \in 0 .. mBufferSize - 1 |-> UNKNOWN]
  /\ result = NotYet
  /\ LET g == GroupInit(passes[1].threads, Width, Local)
     IN at = g.at /\ sdata = g.sdata /\ reg = g.reg

NextGroup ==
  /\ Finished(program) /\ bid + 1 < blocks
  /\ bid' = bid + 1
  /\ NextGroupStarts(pass)
  /\ UNCHANGED <<plan, pass, mTempBuffer2, result>>

NextPass ==
  /\ Finished(program) /\ bid + 1 = blocks /\ pass < Len(passes)
  /\ pass' = pass + 1 /\ bid' = 0
  /\ NextGroupStarts(pass + 1)
  /\ UNCHANGED <<plan, mTempBuffer2, result>>

\* mFinalS is 1 or 0: the sum is the first element.
Return ==
  /\ Finished(program) /\ bid + 1 = blocks /\ pass = Len(passes) /\ result = NotYet
  /\ result' = mTempBuffer2[0]
  /\ UNCHANGED <<plan, pass, bid, mTempBuffer2, group>>

Next ==
  \/ \E b \in DOMAIN at : Fill(b) \/ Load(b) \/ Store(b) \/ Write(b) \/ WaitBarrier(b)
  \/ NextGroup \/ NextPass \/ Return

Spec == Init /\ [][Next]_vars
-----------------------------------------------------------------------------
\* Whatever the order in which the bundles run, the sum contains every input
\* element once and nothing else: no zero-padding, stale sum of an earlier
\* pass or uninitialised memory that counts (CRoutine_Sum_NVidia.cpp 151-220,
\* reduce_sum_float_nvidia.cl; liboi.cpp:673 "the total flux").
SumComplete == result # NotYet => result = 0 .. mInputSize - 1

\* The kernels stay inside the local memory and the buffers they are given,
\* the lanes that take part in a level for nothing included (issue 32,
\* CRoutine_Sum_NVidia.cpp 238-242).
InBounds ==
  \A b \in DOMAIN at : at[b] <= Len(program) =>
    LET i == program[at[b]] IN
    /\ i.op = "fill" => \A tid \in Lanes(b, blockSize, Width) :
                           FillReads(tid) \subseteq DOMAIN g_idata
    /\ i.op = "load" => \A tid \in Busy(b, i.h) : tid + i.h \in Local
=============================================================================
