---------------------------- MODULE DataTransfer ----------------------------
(***************************************************************************)
(* The transfers of one data set between host and device (COILibData.cpp): *)
(* every call is the list of its non-blocking writes or reads, with the    *)
(* checks and the clFinish where the code has them.                        *)
(***************************************************************************)
EXTENDS DataLayout, CommandQueue

CONSTANTS
  DataSets,        \* the data sets (counts per kind) a client may load
  Lengths          \* how many elements a client may ask GetData for

ASSUME TransferAssumption ==
  \A d \in DataSets : d \in Count /\ NumData(d) > 0 /\ d.nUV > 0
ASSUME LengthAssumption == Lengths \subseteq Nat \ {0}

VARIABLES
  counts,          \* mNVis, mNV2, mNT3, mNUV
  upload,          \* "none" (no data set), "partial", or "ok": it returned normally,
                   \* having waited
  stale,           \* the device elements that do not hold the data given last
  arrays,          \* the right values the current call has read: <<element, source>>
  exported,        \* what was exported last: "nothing", the "current" data, "other",
                   \* or "unknown": nobody waited for it
  corrupted        \* memory was written that is not the writer's

dataVars == <<counts, upload, stale, arrays, exported, corrupted>>

Kinds == {"Vis", "V2", "T3"}
CountOf(d) == [Vis |-> d.nVis, V2 |-> d.nV2, T3 |-> d.nT3]
Offset(d) == [Vis |-> CalculateOffset_Vis, V2 |-> CalculateOffset_V2(d.nVis),
              T3 |-> CalculateOffset_T3(d.nVis, d.nV2)]
Floats(kind, d) == CountOf(d)[kind] * (IF kind = "V2" THEN 1 ELSE 2)

\* The elements of a buffer from offset on.  The UV points, always written and
\* read as a whole, count as one.
Elements(buffer, offset, n) == {buffer} \X (offset .. offset + n - 1)
UVPoints == {<<"uv", 0>>}

\* AllocateMemory: the buffers of data set d.
AllocateMemory(d) ==
  UVPoints \cup Elements("data", 0, NumData(d)) \cup Elements("err", 0, NumData(d))
  \cup (UNION {Elements(kind, 0, CountOf(d)[kind]) : kind \in Kinds})
  \cup Elements("sign", 0, d.nT3)
-----------------------------------------------------------------------------
(* The scripts of the transfers.  Host arrays are local to them. *)

\* Values, uncertainties, UV references and, for T3, signs of one kind.
Segment(op, valueOp, kind, d) ==
  LET Part(o, buffer, offset, n) == Command(o, Elements(buffer, offset, n), "local")
  IN  <<Part(valueOp, "data", Offset(d)[kind], Floats(kind, d)),
        Part(op, "err", Offset(d)[kind], Floats(kind, d)),
        Part(op, kind, 0, CountOf(d)[kind])>>
      \o (IF kind = "T3" THEN <<Part(op, "sign", 0, d.nT3)>> ELSE << >>)

SegmentIfAny(op, valueOp, kind, d) ==
  IF CountOf(d)[kind] > 0 THEN Checked(Segment(op, valueOp, kind, d)) ELSE << >>

Segments(op, valueOp, d) ==
  Checked(<<Command(op, UVPoints, "local")>>)
  \o SegmentIfAny(op, valueOp, "Vis", d)
  \o SegmentIfAny(op, valueOp, "V2", d)
  \o SegmentIfAny(op, valueOp, "T3", d)

\* Mutant: without waiting for the writes.
CopyToDeviceUnfinished(d) == Segments("write", "write", d)
CopyToDevice(d) == Segments("write", "write", d) \o <<Step("finish")>>

\* valueOp tells the buffer of real data from that of simulated data.
CopyFromDevice(d, valueOp) ==
  Segments("read", valueOp, d) \o <<Step("finish"), Step("repackage")>>

ExportScript(d, simulated) ==
  CopyFromDevice(d, "read") \o <<Step("save real")>> \o
  (IF simulated THEN CopyFromDevice(d, "read simulated") \o <<Step("save model")>> ELSE << >>)

\* GetData and GetDataUncertainties: up to n elements, to the caller's array.
\* Mutant: without waiting for them.
GetScriptUnfinished(buffer, n) == Checked(<<Command("read", Elements(buffer, 0, n), "caller")>>)
GetScript(buffer, n) ==
  Checked(<<Command("read", Elements(buffer, 0, n), "caller")>>) \o <<Step("finish")>>
-----------------------------------------------------------------------------
(* The calls *)

NoCounts == [nVis |-> 0, nV2 |-> 0, nT3 |-> 0, nUV |-> 0]

DataInit ==
  /\ counts = NoCounts /\ upload = "none"
  /\ stale = {} /\ arrays = {}
  /\ exported = "nothing" /\ corrupted = FALSE

\* New data are given to the data set: what the device holds is old now.
Upload(op, script, d) ==
  /\ Calls(op, script \o <<Step("return")>>)
  /\ upload' = "partial" /\ counts' = d
  /\ stale' = AllocateMemory(d)
  /\ exported' = IF exported = "current" THEN "other" ELSE exported
  /\ UNCHANGED <<arrays, corrupted>>

\* InitData.  AllocateMemory ends in a clFinish as well, but ignores whether it
\* waited, and has nothing to wait for.
LoadData ==
  \E d \in DataSets :
    /\ upload = "none"
    /\ Upload("LoadData", CopyToDevice(Padded(d)), Padded(d))

\* The counts stay: the new data have the same, but for UV points.
ReplaceData ==
  \E d \in DataSets :
    /\ upload # "none"
    /\ \/ ReplacementFits(counts, d) /\ Upload("ReplaceData", CopyToDevice(counts), counts)
       \/ /\ ~ReplacementFits(counts, d) /\ Immediate("ReplaceData", "throw")
          /\ UNCHANGED <<queue, dataVars>>

ExportData ==
  \E simulated \in BOOLEAN :
    /\ upload # "none"
    /\ Calls("ExportData", ExportScript(counts, simulated) \o <<Step("return")>>)
    /\ UNCHANGED dataVars

GetData ==
  \E buffer \in {"data", "err"}, n \in Lengths :
    /\ upload # "none"
    /\ Calls("GetData", GetScript(buffer, Min({n, NumData(counts)})) \o <<Step("return")>>)
    /\ UNCHANGED dataVars

\* Nobody can use the buffers; commands that do may still be pending.
Abandoned(q) == [k \in DOMAIN q |-> [q[k] EXCEPT !.cells = {}]]
\* Mutant: what was on the device is not forgotten.
DataSetGonePartly == upload' = "none" /\ counts' = NoCounts /\ UNCHANGED stale
DataSetGone == upload' = "none" /\ stale' = {} /\ counts' = NoCounts

RemoveData ==
  /\ upload # "none"
  /\ Immediate("RemoveData", "ok")
  /\ queue' = Abandoned(queue) /\ DataSetGone
  /\ UNCHANGED <<arrays, exported, corrupted>>
-----------------------------------------------------------------------------
(* Their other steps *)

\* The UV references of the visibilities are stored into a vector of size 0.
Repackage ==
  /\ Does("repackage")
  /\ corrupted' = (counts.nVis > 0)
  /\ Proceeds
  /\ UNCHANGED <<queue, refused, counts, upload, stale, arrays, exported>>

\* Export_ToText.  A file of model data has simulated values and the rest of
\* the data set.  The next copy has arrays of its own.
WholeFile(save) ==
  LET Source(c) == IF save = "save model" /\ c[1] = "data" THEN "simulated" ELSE "real"
  IN  arrays = {<<c, Source(c)>> : c \in AllocateMemory(counts)}

Save(save) ==
  /\ Does(save)
  /\ exported' = IF ignored THEN "unknown" ELSE IF WholeFile(save) THEN "current" ELSE "other"
  /\ arrays' = {}
  /\ Proceeds
  /\ UNCHANGED <<queue, refused, counts, upload, stale, corrupted>>

Return ==
  /\ Does("return")
  /\ Ends("ok") /\ queue' = Orphaned(queue)
  /\ upload' = IF call \in {"LoadData", "ReplaceData"} /\ ~ignored THEN "ok" ELSE upload
  /\ arrays' = {}
  /\ UNCHANGED <<counts, stale, exported, corrupted>>

\* COILibDataList catches what ExportData and GetData throw, and returns as
\* if nothing had happened.  A data set whose constructor throws is gone, and
\* its buffers stay behind with nobody to use them (see DataList).
Swallowed == {"ExportData", "GetData"}

Throw ==
  /\ CheckThrows
  /\ Ends(IF call \in Swallowed THEN "swallowed" ELSE "throw")
  /\ arrays' = {}
  /\ IF call = "LoadData"
       THEN queue' = Abandoned(Orphaned(queue)) /\ DataSetGone
       ELSE queue' = Orphaned(queue) /\ UNCHANGED <<upload, stale, counts>>
  /\ UNCHANGED <<exported, corrupted>>

\* The device carries out a write: from memory that is gone it gets anything.
WriteCommand(cmd) ==
  /\ stale' = IF cmd.mem = "freed" THEN stale \cup cmd.cells ELSE stale \ cmd.cells
  /\ UNCHANGED <<counts, upload, arrays, exported, corrupted>>

\* ... or a read; one into memory that is gone writes into somebody else's.
ReadCommand(cmd) ==
  /\ arrays' = IF cmd.mem = "freed" THEN arrays
       ELSE arrays \cup (IF cmd.op = "read simulated" THEN cmd.cells \X {"simulated"}
                         ELSE (cmd.cells \ stale) \X {"real"})
  /\ corrupted' = (cmd.mem = "freed")
  /\ UNCHANGED <<counts, upload, stale, exported>>
=============================================================================
