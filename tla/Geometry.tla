------------------------------ MODULE Geometry ------------------------------
(***************************************************************************)
(* How the host code sizes buffers and index spaces for the OpenCL         *)
(* kernels: the power-of-two helpers of CRoutine_Sum, the work-group       *)
(* geometry of the two reductions, and CRoutine::next_multiple.            *)
(***************************************************************************)
EXTENDS Integers

CONSTANT WordBits        \* the width of an unsigned int, 32 on every supported host

ASSUME WordBitsAssumption == WordBits \in Nat \ {0}

PowerOfTwo[k \in Nat] == IF k = 0 THEN 1 ELSE 2 * PowerOfTwo[k - 1]
PowersOfTwo == {PowerOfTwo[k] : k \in 0 .. WordBits - 1}

\* (x & (x-1)) == 0, which also holds of 0.
isPow2(x) == x = 0 \/ x \in PowersOfTwo

\* The bit smearing yields the least power of two that is not below x; it
\* wraps to 0 for x = 0 and for x above the highest power of a word.
nextPow2(x) ==
  IF x = 0 \/ x > PowerOfTwo[WordBits - 1]
    THEN 0
    ELSE CHOOSE p \in PowersOfTwo :
           p >= x /\ \A q \in PowersOfTwo : q >= x => p <= q

RoundUpPow2(n) == IF isPow2(n) THEN n ELSE nextPow2(n)

\* CRoutine_Sum_AMD: two elements per work-item and groups of groupSize items.
\* An OpenCL device refuses an empty index space and one whose size is not a
\* multiple of the group size (CL_INVALID_GLOBAL_WORK_SIZE,
\* CL_INVALID_WORK_GROUP_SIZE).
AMDGlobalThreads(n) == RoundUpPow2(n) \div 2
NDRangeAccepted(global, local) == global > 0 /\ global % local = 0

\* CRoutine::next_multiple, again strictly above the value.
next_multiple(value, base) == (value \div base + 1) * base
=============================================================================
