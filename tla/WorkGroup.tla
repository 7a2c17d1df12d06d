----------------------------- MODULE WorkGroup -----------------------------
(***************************************************************************)
(* One OpenCL work-group executing a kernel.  The kernel is a straight     *)
(* line of instructions.  The work-items 0 .. items - 1 run in bundles of  *)
(* width items ("warps", "wavefronts"): a bundle executes one instruction  *)
(* at a time in lockstep, different bundles interleave, and no bundle gets *)
(* past a barrier before all have arrived.  On a device without lockstep   *)
(* width is 1.  This is OpenCL's execution model, not code of liboi.       *)
(*                                                                         *)
(* The floats that are summed are represented by the set of what they are  *)
(* the sum of, so that an addend lost or counted twice remains visible.    *)
(***************************************************************************)
EXTENDS Integers, Sequences

VARIABLES
  at,          \* the number of the next instruction of each bundle
  sdata,       \* local memory
  reg          \* each item's register

group == <<at, sdata, reg>>

\* What reading uninitialised or foreign memory yields, and a mark on sums
\* that count something twice.
UNKNOWN == {-1}
TWICE == -2

Plus(a, b) == a \cup b \cup IF a \cap b = {} THEN {} ELSE {TWICE}
Fetch(memory, a) == IF a \in DOMAIN memory THEN memory[a] ELSE UNKNOWN
Sum(memory, addresses) ==
  UNION {Fetch(memory, a) : a \in addresses} \cup
    IF \E a, b \in addresses : a # b /\ Fetch(memory, a) \cap Fetch(memory, b) # {}
      THEN {TWICE} ELSE {}

Bundles(items, width) == 0 .. (items - 1) \div width
Lanes(bundle, items, width) == {i \in 0 .. items - 1 : i \div width = bundle}

Barrier == [op |-> "barrier", h |-> 0]
Instr(op, h) == [op |-> op, h |-> h]

\* The group before its first instruction, with size addresses of local memory.
GroupInit(items, width, addresses) ==
  [at    |-> [b \in Bundles(items, width) |-> 1],
   sdata |-> [a \in addresses |-> UNKNOWN],
   reg   |-> [i \in 0 .. items - 1 |-> {}]]

Finished(program) == \A b \in DOMAIN at : at[b] > Len(program)

\* The next instruction of bundle b is an op.
Executes(program, b, op) == at[b] <= Len(program) /\ program[at[b]].op = op
Advance(b) == at' = [at EXCEPT ![b] = @ + 1]

PassBarrier(program, b) ==
  /\ Executes(program, b, "barrier")
  /\ \A c \in DOMAIN at : at[c] >= at[b]
  /\ Advance(b)
  /\ UNCHANGED <<sdata, reg>>
=============================================================================
