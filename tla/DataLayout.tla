----------------------------- MODULE DataLayout -----------------------------
(***************************************************************************)
(* The layout of one interferometric data set on the OpenCL device, as     *)
(* COILibData computes it.  A data set has nVis complex visibilities, nV2  *)
(* squared visibilities, nT3 complex triple products and nUV UV points.    *)
(* Its observables share one buffer of cl_floats,                          *)
(*     [ Vis (2 floats each) | V2 (1 float) | T3 (2 floats each) ],        *)
(* and every routine that reads or writes such a buffer (simulated data,   *)
(* chi, chi^2) finds a segment through the offsets below.                  *)
(***************************************************************************)
EXTENDS Integers

Count == [nVis : Nat, nV2 : Nat, nT3 : Nat, nUV : Nat]

CalculateOffset_Vis == 0

CalculateOffset_V2(nVis) == 2 * nVis

CalculateOffset_T3(nVis, nV2) == 2 * nVis + nV2

TotalBufferSize(nVis, nV2, nT3) == 2 * nVis + nV2 + 2 * nT3

\* The number of floats a data set takes (mNData).
NumData(d) == TotalBufferSize(d.nVis, d.nV2, d.nT3)

\* Strictly above value: a multiple of base is moved to the next one.
NextHighestMultiple(base, value) == (value \div base + 1) * base

\* UV points are padded with infinities up to a multiple of 16; the padded
\* count is what GetNumUV returns from then on.
UVBlock == 16
Padded(d) == [d EXCEPT !.nUV = NextHighestMultiple(UVBlock, d.nUV)]

\* COILibData::Replace refuses by exception what does not fit the allocation.
ReplacementFits(old, d) ==
  /\ d.nUV <= old.nUV
  /\ d.nVis = old.nVis /\ d.nV2 = old.nV2 /\ d.nT3 = old.nT3
=============================================================================
