--------------------------- MODULE Pipeline_proofs ---------------------------
(***************************************************************************)
(* Proofs about Pipeline, for every number and shape of data sets, every   *)
(* size of the shared buffers and every number of changes: the buffers     *)
(* keep their types, what ExportData finds after an answered call is the   *)
(* model of the data set that was asked for, and the calls keep what       *)
(* Evaluation promises as long as no data set has complex visibilities,    *)
(* whose model no kernel computes (run vis).                               *)
(***************************************************************************)
EXTENDS Pipeline, SequenceTheorems, TLAPS

-----------------------------------------------------------------------------
(* The inductive invariant *)

\* The stages of each call, in order.
StageList ==
  [ImageToData    |-> <<"Normalize", "FT", "V2", "T3">>,
   ImageToChi     |-> <<"Normalize", "FT", "V2", "T3",
                        "ZeroChi", "ChiV2", "ChiVis", "ChiT3", "ReadChi">>,
   ImageToChi2    |-> <<"Normalize", "FT", "V2", "T3", "ZeroChi2",
                        "ZeroChi", "ChiV2", "ChiVis", "ChiT3", "Square", "SumChi2">>,
   ImageToLogLike |-> <<"Normalize", "FT", "V2", "T3",
                        "ZeroChi", "ChiV2", "ChiVis", "ChiT3", "LogLike", "SumLogLike">>]

StageNames == {"Normalize", "FT", "V2", "T3", "ZeroChi2", "ZeroChi", "ChiV2", "ChiVis", "ChiT3",
               "ReadChi", "Square", "SumChi2", "LogLike", "SumLogLike"}

\* The number of the next stage of the current call, and of its ZeroChi.
at == Len(StageList[call.op]) - Len(todo) + 1
First == IF call.op = "ImageToChi2" THEN 6 ELSE 5

Typed ==
  /\ image \in [version : Nat, unit : BOOLEAN]
  /\ contents \in [Sets -> Nat]
  /\ ft \in Models \cup {JUNK}
  /\ sim \in [Indices -> Elements]
  /\ chi \in [Indices -> Elements] /\ chiL \in [Indices -> Elements]
  /\ chi2 \in [Indices -> Elements] /\ logLike \in [Indices -> Elements]

\* The versions of the image and of the data sets count changes.
Counted ==
  /\ changes \in Nat /\ image.version <= changes
  /\ \A d \in Sets : contents[d] <= changes

\* What is left to do is the end of the list of the call's stages, and the
\* client knows nothing yet.
Scheduled ==
  /\ todo \in Seq(StageNames)
  /\ Idle => call = NoCall
  /\ ~Idle =>
       /\ call \in [op : Ops, d : Sets] /\ answer = NoCall
       /\ Len(todo) <= Len(StageList[call.op])
       /\ \A i \in 1 .. Len(todo) : todo[i] = StageList[call.op][at + i - 1]

Right(buffer, part) == \A k \in part : buffer[k] = Element(call.d, k)
Zeroed(buffer) == \A k \in Indices \ DataOf(call.d) : buffer[k] = ZERO
NoVis(d) == Shape[d].nVis = 0

\* The buffer of CRoutine_Chi that the current call uses.
ChiBuffer == IF call.op = "ImageToLogLike" THEN chiL ELSE chi

\* What the stages of the current call have established so far, whatever was
\* on the buffers before.
Simulated ==
  ~Idle =>
    /\ at > 1 => image.unit
    /\ at > 2 => ft = ModelOf(call.d)
    /\ at > 3 => Right(sim, V2Of(call.d))
    /\ at > 4 => Right(sim, T3Of(call.d))

Compared ==
  ~Idle =>
    /\ at > First => Zeroed(ChiBuffer)
    /\ NoVis(call.d) /\ at > First + 1 => Right(ChiBuffer, V2Of(call.d))
    /\ NoVis(call.d) /\ at > First + 3 => Right(ChiBuffer, T3Of(call.d))

Summed ==
  ~Idle =>
    /\ call.op = "ImageToChi2" /\ at > 5 => Zeroed(chi2)
    /\ call.op = "ImageToChi2" /\ NoVis(call.d) /\ at > 10 => Right(chi2, DataOf(call.d))
    /\ call.op = "ImageToLogLike" /\ NoVis(call.d) /\ at > 9 => Right(logLike, DataOf(call.d))

\* An answer is about versions the client has seen.
Answered ==
  answer # NoCall =>
    /\ answer.d \in Sets
    /\ answer.image \in Nat /\ answer.image <= image.version
    /\ answer.version \in Nat /\ answer.version <= contents[answer.d]
    /\ NoVis(answer.d) => Meaningful(answer)

IInv ==
  /\ Typed /\ Counted /\ Scheduled
  /\ Simulated /\ Compared /\ Summed
  /\ Answered /\ SimulatedIsCurrent
-----------------------------------------------------------------------------
(* Facts about the stages *)

\* When a sequence is the concatenation of two others.
LEMMA Joined ==
  ASSUME NEW s \in Seq(StageNames), NEW t \in Seq(StageNames), NEW r \in Seq(StageNames),
         NEW m \in Nat, NEW n \in Nat, Len(s) = m, Len(t) = n, Len(r) = m + n,
         \A i \in 1 .. m : r[i] = s[i],
         \A i \in 1 .. n : r[m + i] = t[i]
  PROVE  s \o t = r
<1>1. /\ s \o t \in Seq(StageNames) /\ Len(s \o t) = m + n
      /\ \A i \in 1 .. m + n : (s \o t)[i] = IF i <= m THEN s[i] ELSE t[i - m]
  BY ConcatProperties
<1>2. ASSUME NEW i \in 1 .. Len(s \o t)
      PROVE  (s \o t)[i] = r[i]
  <2>1. CASE i <= m
    BY <1>1, <2>1
  <2>2. CASE i > m
    <3>1. i - m \in 1 .. n /\ m + (i - m) = i
      BY <1>1, <2>2
    <3> QED BY <1>1, <2>2, <3>1
  <2> QED BY <2>1, <2>2
<1> QED BY <1>1, <1>2, SeqEqual

\* StageList spells out what Stages concatenates.
LEMMA StagesAre ==
  ASSUME NEW op \in DOMAIN StageList
  PROVE  Stages(op) = StageList[op]
<1>1. ASSUME NEW s, s = <<"ZeroChi", "ChiV2", "ChiVis", "ChiT3">>,
             NEW t, t = <<"ReadChi">>,
             NEW r, r = <<"ZeroChi", "ChiV2", "ChiVis", "ChiT3", "ReadChi">>
      PROVE  s \o t = r
  <2>1. s \in Seq(StageNames) /\ t \in Seq(StageNames) /\ r \in Seq(StageNames)
    BY <1>1 DEF StageNames
  <2>2. Len(s) = 4 /\ Len(t) = 1 /\ Len(r) = 4 + 1 /\ 4 \in Nat /\ 1 \in Nat
    BY <1>1
  <2>3. \A i \in 1 .. 4 : r[i] = s[i]
    BY <1>1
  <2>4. \A i \in 1 .. 1 : r[4 + i] = t[i]
    BY <1>1
  <2> QED BY ONLY <2>1, <2>2, <2>3, <2>4, Joined
<1>2. ASSUME NEW s, s = <<"Normalize", "FT", "V2", "T3">>,
             NEW t, t = <<"ZeroChi", "ChiV2", "ChiVis", "ChiT3", "ReadChi">>,
             NEW r, r = <<"Normalize", "FT", "V2", "T3", "ZeroChi", "ChiV2", "ChiVis", "ChiT3",
                       "ReadChi">>
      PROVE  s \o t = r
  <2>1. s \in Seq(StageNames) /\ t \in Seq(StageNames) /\ r \in Seq(StageNames)
    BY <1>2 DEF StageNames
  <2>2. Len(s) = 4 /\ Len(t) = 5 /\ Len(r) = 4 + 5 /\ 4 \in Nat /\ 5 \in Nat
    BY <1>2
  <2>3. \A i \in 1 .. 4 : r[i] = s[i]
    BY <1>2
  <2>4. \A i \in 1 .. 5 : r[4 + i] = t[i]
    BY <1>2
  <2> QED BY ONLY <2>1, <2>2, <2>3, <2>4, Joined
<1>3. ASSUME NEW s, s = <<"ZeroChi2">>,
             NEW t, t = <<"ZeroChi", "ChiV2", "ChiVis", "ChiT3">>,
             NEW r, r = <<"ZeroChi2", "ZeroChi", "ChiV2", "ChiVis", "ChiT3">>
      PROVE  s \o t = r
  <2>1. s \in Seq(StageNames) /\ t \in Seq(StageNames) /\ r \in Seq(StageNames)
    BY <1>3 DEF StageNames
  <2>2. Len(s) = 1 /\ Len(t) = 4 /\ Len(r) = 1 + 4 /\ 1 \in Nat /\ 4 \in Nat
    BY <1>3
  <2>3. \A i \in 1 .. 1 : r[i] = s[i]
    BY <1>3
  <2>4. \A i \in 1 .. 4 : r[1 + i] = t[i]
    BY <1>3
  <2> QED BY ONLY <2>1, <2>2, <2>3, <2>4, Joined
<1>4. ASSUME NEW s, s = <<"ZeroChi2", "ZeroChi", "ChiV2", "ChiVis", "ChiT3">>,
             NEW t, t = <<"Square", "SumChi2">>,
             NEW r, r = <<"ZeroChi2", "ZeroChi", "ChiV2", "ChiVis", "ChiT3", "Square", "SumChi2">>
      PROVE  s \o t = r
  <2>1. s \in Seq(StageNames) /\ t \in Seq(StageNames) /\ r \in Seq(StageNames)
    BY <1>4 DEF StageNames
  <2>2. Len(s) = 5 /\ Len(t) = 2 /\ Len(r) = 5 + 2 /\ 5 \in Nat /\ 2 \in Nat
    BY <1>4
  <2>3. \A i \in 1 .. 5 : r[i] = s[i]
    BY <1>4
  <2>4. \A i \in 1 .. 2 : r[5 + i] = t[i]
    BY <1>4
  <2> QED BY ONLY <2>1, <2>2, <2>3, <2>4, Joined
<1>5. ASSUME NEW s, s = <<"Normalize", "FT", "V2", "T3">>,
             NEW t, t = <<"ZeroChi2", "ZeroChi", "ChiV2", "ChiVis", "ChiT3", "Square", "SumChi2">>,
             NEW r, r = <<"Normalize", "FT", "V2", "T3", "ZeroChi2", "ZeroChi", "ChiV2", "ChiVis",
                       "ChiT3", "Square", "SumChi2">>
      PROVE  s \o t = r
  <2>1. s \in Seq(StageNames) /\ t \in Seq(StageNames) /\ r \in Seq(StageNames)
    BY <1>5 DEF StageNames
  <2>2. Len(s) = 4 /\ Len(t) = 7 /\ Len(r) = 4 + 7 /\ 4 \in Nat /\ 7 \in Nat
    BY <1>5
  <2>3. \A i \in 1 .. 4 : r[i] = s[i]
    BY <1>5
  <2>4. \A i \in 1 .. 7 : r[4 + i] = t[i]
    BY <1>5
  <2> QED BY ONLY <2>1, <2>2, <2>3, <2>4, Joined
<1>6. ASSUME NEW s, s = <<"ZeroChi", "ChiV2", "ChiVis", "ChiT3">>,
             NEW t, t = <<"LogLike", "SumLogLike">>,
             NEW r, r = <<"ZeroChi", "ChiV2", "ChiVis", "ChiT3", "LogLike", "SumLogLike">>
      PROVE  s \o t = r
  <2>1. s \in Seq(StageNames) /\ t \in Seq(StageNames) /\ r \in Seq(StageNames)
    BY <1>6 DEF StageNames
  <2>2. Len(s) = 4 /\ Len(t) = 2 /\ Len(r) = 4 + 2 /\ 4 \in Nat /\ 2 \in Nat
    BY <1>6
  <2>3. \A i \in 1 .. 4 : r[i] = s[i]
    BY <1>6
  <2>4. \A i \in 1 .. 2 : r[4 + i] = t[i]
    BY <1>6
  <2> QED BY ONLY <2>1, <2>2, <2>3, <2>4, Joined
<1>7. ASSUME NEW s, s = <<"Normalize", "FT", "V2", "T3">>,
             NEW t, t = <<"ZeroChi", "ChiV2", "ChiVis", "ChiT3", "LogLike", "SumLogLike">>,
             NEW r, r = <<"Normalize", "FT", "V2", "T3", "ZeroChi", "ChiV2", "ChiVis", "ChiT3",
                       "LogLike", "SumLogLike">>
      PROVE  s \o t = r
  <2>1. s \in Seq(StageNames) /\ t \in Seq(StageNames) /\ r \in Seq(StageNames)
    BY <1>7 DEF StageNames
  <2>2. Len(s) = 4 /\ Len(t) = 6 /\ Len(r) = 4 + 6 /\ 4 \in Nat /\ 6 \in Nat
    BY <1>7
  <2>3. \A i \in 1 .. 4 : r[i] = s[i]
    BY <1>7
  <2>4. \A i \in 1 .. 6 : r[4 + i] = t[i]
    BY <1>7
  <2> QED BY ONLY <2>1, <2>2, <2>3, <2>4, Joined
<1>8. CASE op = "ImageToData"
  BY <1>8 DEF Stages, StageList, Simulate
<1>9. CASE op = "ImageToChi"
  <2>1. Stages(op) = Simulate \o (ComputeChi \o <<"ReadChi">>)
    BY <1>9 DEF Stages
  <2>2. ComputeChi \o <<"ReadChi">> = <<"ZeroChi", "ChiV2", "ChiVis", "ChiT3", "ReadChi">>
    BY <1>1 DEF ComputeChi
  <2>3. Simulate \o <<"ZeroChi", "ChiV2", "ChiVis", "ChiT3", "ReadChi">>
          = <<"Normalize", "FT", "V2", "T3", "ZeroChi", "ChiV2", "ChiVis", "ChiT3", "ReadChi">>
    BY <1>2 DEF Simulate
  <2>4. StageList[op] = <<"Normalize", "FT", "V2", "T3", "ZeroChi", "ChiV2", "ChiVis", "ChiT3",
                          "ReadChi">>
    BY <1>9 DEF StageList
  <2> QED BY <2>1, <2>2, <2>3, <2>4, Zenon
<1>10. CASE op = "ImageToChi2"
  <2>1. Stages(op) = Simulate \o ((<<"ZeroChi2">> \o ComputeChi) \o <<"Square", "SumChi2">>)
    BY <1>10 DEF Stages
  <2>2. <<"ZeroChi2">> \o ComputeChi = <<"ZeroChi2", "ZeroChi", "ChiV2", "ChiVis", "ChiT3">>
    BY <1>3 DEF ComputeChi
  <2>3. <<"ZeroChi2", "ZeroChi", "ChiV2", "ChiVis", "ChiT3">> \o <<"Square", "SumChi2">>
          = <<"ZeroChi2", "ZeroChi", "ChiV2", "ChiVis", "ChiT3", "Square", "SumChi2">>
    BY <1>4
  <2>4. Simulate \o <<"ZeroChi2", "ZeroChi", "ChiV2", "ChiVis", "ChiT3", "Square", "SumChi2">>
          = <<"Normalize", "FT", "V2", "T3", "ZeroChi2", "ZeroChi", "ChiV2", "ChiVis", "ChiT3",
              "Square", "SumChi2">>
    BY <1>5 DEF Simulate
  <2>5. StageList[op] = <<"Normalize", "FT", "V2", "T3", "ZeroChi2", "ZeroChi", "ChiV2",
                          "ChiVis", "ChiT3", "Square", "SumChi2">>
    BY <1>10 DEF StageList
  <2> QED BY <2>1, <2>2, <2>3, <2>4, <2>5, Zenon
<1>11. CASE op = "ImageToLogLike"
  <2>1. Stages(op) = Simulate \o (ComputeChi \o <<"LogLike", "SumLogLike">>)
    BY <1>11 DEF Stages
  <2>2. ComputeChi \o <<"LogLike", "SumLogLike">> = <<"ZeroChi", "ChiV2", "ChiVis", "ChiT3", "LogLike",
                                          "SumLogLike">>
    BY <1>6 DEF ComputeChi
  <2>3. Simulate \o <<"ZeroChi", "ChiV2", "ChiVis", "ChiT3", "LogLike", "SumLogLike">>
          = <<"Normalize", "FT", "V2", "T3", "ZeroChi", "ChiV2", "ChiVis", "ChiT3", "LogLike",
              "SumLogLike">>
    BY <1>7 DEF Simulate
  <2>4. StageList[op] = <<"Normalize", "FT", "V2", "T3", "ZeroChi", "ChiV2", "ChiVis", "ChiT3",
                          "LogLike", "SumLogLike">>
    BY <1>11 DEF StageList
  <2> QED BY <2>1, <2>2, <2>3, <2>4, Zenon
<1>12. op \in {"ImageToData", "ImageToChi", "ImageToChi2", "ImageToLogLike"}
  BY DEF StageList
<1> QED BY <1>8, <1>9, <1>10, <1>11, <1>12

LEMMA OpsAreListed == Ops \subseteq DOMAIN StageList
  BY OpsAssumption DEF StageList

\* Calls have 4 to 11 stages.
LEMMA LengthOfList ==
  ASSUME NEW op \in Ops
  PROVE  /\ StageList[op] \in Seq(StageNames)
         /\ Len(StageList[op]) \in 4 .. 11
<1>1. CASE op = "ImageToData"
  BY <1>1 DEF StageList, StageNames
<1>2. CASE op = "ImageToChi"
  BY <1>2 DEF StageList, StageNames
<1>3. CASE op = "ImageToChi2"
  BY <1>3 DEF StageList, StageNames
<1>4. CASE op = "ImageToLogLike"
  BY <1>4 DEF StageList, StageNames
<1> QED BY <1>1, <1>2, <1>3, <1>4, OpsAssumption

\* Every stage has one place in the list of a call.
LEMMA PlaceOfStage ==
  ASSUME NEW op \in Ops, NEW i \in 1 .. Len(StageList[op]),
         NEW s, s = StageList[op][i]
  PROVE  /\ s = "Normalize" => i = 1
         /\ s = "FT" => i = 2
         /\ s = "V2" => i = 3
         /\ s = "T3" => i = 4 /\ (op = "ImageToData" <=> i = Len(StageList[op]))
         /\ s = "ZeroChi2" => op = "ImageToChi2" /\ i = 5
         /\ s = "ZeroChi" => op # "ImageToData" /\ i = IF op = "ImageToChi2" THEN 6 ELSE 5
         /\ s = "ChiV2" => op # "ImageToData" /\ i = IF op = "ImageToChi2" THEN 7 ELSE 6
         /\ s = "ChiVis" => op # "ImageToData" /\ i = IF op = "ImageToChi2" THEN 8 ELSE 7
         /\ s = "ChiT3" => op # "ImageToData" /\ i = IF op = "ImageToChi2" THEN 9 ELSE 8
         /\ s = "ReadChi" => op = "ImageToChi" /\ i = 9 /\ i = Len(StageList[op])
         /\ s = "Square" => op = "ImageToChi2" /\ i = 10
         /\ s = "SumChi2" => op = "ImageToChi2" /\ i = 11 /\ i = Len(StageList[op])
         /\ s = "LogLike" => op = "ImageToLogLike" /\ i = 9
         /\ s = "SumLogLike" => op = "ImageToLogLike" /\ i = 10 /\ i = Len(StageList[op])
<1>1. CASE op = "ImageToData"
  BY <1>1 DEF StageList
<1>2. CASE op = "ImageToChi"
  BY <1>2 DEF StageList
<1>3. CASE op = "ImageToChi2"
  <2>1. i \in {1, 2, 3, 4, 5, 6, 7, 8, 9, 10, 11}
    BY <1>3 DEF StageList
  <2> QED BY <1>3, <2>1 DEF StageList
<1>4. CASE op = "ImageToLogLike"
  <2>1. i \in {1, 2, 3, 4, 5, 6, 7, 8, 9, 10}
    BY <1>4 DEF StageList
  <2> QED BY <1>4, <2>1 DEF StageList
<1> QED BY <1>1, <1>2, <1>3, <1>4, OpsAssumption

\* A stage moves the call on by one place; after the last one it is over.
LEMMA StageMoves ==
  ASSUME Scheduled, NEW s, Stage(s)
  PROVE  /\ ~Idle /\ at \in 1 .. Len(StageList[call.op]) /\ s = StageList[call.op][at]
         /\ contents' = contents /\ changes' = changes
         /\ Idle' <=> at = Len(StageList[call.op])
         /\ Idle' => call' = NoCall
         /\ ~Idle' => call' = call /\ at' = at + 1
         /\ answer' = NoCall \/ Idle' => Scheduled'
<1> DEFINE L == StageList[call.op]
<1>1. /\ ~Idle /\ todo \in Seq(StageNames) /\ todo # << >> /\ call \in [op : Ops, d : Sets]
      /\ Len(todo) <= Len(L) /\ \A i \in 1 .. Len(todo) : todo[i] = L[at + i - 1]
      /\ todo' = Tail(todo) /\ s = todo[1]
      /\ call' = IF Len(todo) = 1 THEN NoCall ELSE call
  BY DEF Scheduled, Stage, Idle
<1>2. Len(L) \in 4 .. 11 /\ L \in Seq(StageNames)
  BY <1>1, LengthOfList
<1>3. Len(todo) \in Nat \ {0} /\ 1 \in 1 .. Len(todo)
  BY <1>1
<1>4. /\ todo' \in Seq(StageNames) /\ Len(todo') = Len(todo) - 1
      /\ \A i \in 1 .. Len(todo') : todo'[i] = todo[i + 1]
  BY <1>1, <1>3
<1>5. at = Len(L) - Len(todo) + 1 /\ at \in 1 .. Len(L) /\ s = L[at]
  BY <1>1, <1>2, <1>3 DEF at
<1>6. /\ Idle' <=> at = Len(L)
      /\ Idle' => call' = NoCall
      /\ ~Idle' => call' = call
  <2>1. Idle' <=> Len(todo') = 0
    BY <1>4 DEF Idle
  <2> QED BY <1>1, <1>2, <1>3, <1>4, <1>5, <2>1
<1>7. ~Idle' => at' = at + 1
  <2>1. ASSUME ~Idle'
        PROVE  at' = Len(L) - Len(todo') + 1
    BY <1>6, <2>1 DEF at
  <2> QED BY <1>2, <1>3, <1>4, <1>5, <2>1
<1>8. ASSUME answer' = NoCall \/ Idle'
      PROVE  Scheduled'
  <2>1. CASE Idle'
    BY <1>4, <1>6, <2>1 DEF Scheduled
  <2>2. CASE ~Idle'
    <3>1. answer' = NoCall /\ call' = call /\ call \in [op : Ops, d : Sets] /\ at' = at + 1
      BY <1>1, <1>6, <1>7, <1>8, <2>2
    <3>2. Len(todo') <= Len(L)
      BY <1>1, <1>2, <1>3, <1>4
    <3>3. ASSUME NEW i \in 1 .. Len(todo')
          PROVE  todo'[i] = L[at' + i - 1]
      <4>1. i + 1 \in 1 .. Len(todo) /\ todo'[i] = todo[i + 1]
        BY <1>3, <1>4
      <4>2. todo[i + 1] = L[at + (i + 1) - 1]
        BY <1>1, <4>1
      <4>3. at + (i + 1) - 1 = at' + i - 1
        BY <1>5, <3>1
      <4> QED BY <4>1, <4>2, <4>3
    <3> QED BY <1>4, <2>2, <3>1, <3>2, <3>3 DEF Scheduled
  <2> QED BY <2>1, <2>2
<1>9. contents' = contents /\ changes' = changes
  BY DEF Stage
<1> QED BY <1>1, <1>5, <1>6, <1>7, <1>8, <1>9

\* The segments of a data set make up its data, which fit the buffers.
LEMMA PartsOfData ==
  ASSUME NEW d \in Sets
  PROVE  /\ BufferSize \in Nat
         /\ DataOf(d) \subseteq Indices
         /\ V2Of(d) \subseteq DataOf(d)
         /\ T3Of(d) \subseteq DataOf(d)
         /\ VisOf(d) \subseteq DataOf(d)
         /\ DataOf(d) = VisOf(d) \cup V2Of(d) \cup T3Of(d)
         /\ NoVis(d) => VisOf(d) = {} /\ DataOf(d) = V2Of(d) \cup T3Of(d)
  BY ShapeAssumption DEF Count, NumData, TotalBufferSize, DataOf, V2Of, T3Of, VisOf, NoVis,
      Segment, Indices, CalculateOffset_Vis, CalculateOffset_V2, CalculateOffset_T3

\* During a call the model of a data set stays the same.
LEMMA StageFrame ==
  ASSUME Typed, Scheduled, NEW s, Stage(s), image'.version = image.version, ~Idle'
  PROVE  /\ ~Idle /\ call' = call /\ call \in [op : Ops, d : Sets]
         /\ at' = at + 1 /\ at \in 1 .. Len(StageList[call.op]) /\ s = StageList[call.op][at]
         /\ \A d : ModelOf(d)' = ModelOf(d)
         /\ \A d, k : Element(d, k)' = Element(d, k)
<1>1. \A d : ModelOf(d)' = ModelOf(d)
  BY StageMoves DEF ModelOf
<1>2. \A d, k : Element(d, k)' = Element(d, k)
  BY <1>1 DEF Element
<1>3. call \in [op : Ops, d : Sets]
  BY StageMoves DEF Scheduled
<1> QED BY <1>1, <1>2, <1>3, StageMoves

-----------------------------------------------------------------------------
(* Types *)

\* The elements the stages compute are elements, and no stage writes beyond
\* a buffer.
LEMMA TypedModels ==
  ASSUME Typed, NEW d \in Sets
  PROVE  /\ ModelOf(d) \in Models
         /\ \A k \in Indices : Element(d, k) \in Elements
         /\ JUNK \in Elements /\ ZERO \in Elements
<1>1. image.version \in Nat /\ contents[d] \in Nat
  BY DEF Typed
<1>2. ModelOf(d) \in Models
  BY <1>1 DEF ModelOf, Models
<1> QED BY <1>2 DEF Element, Elements

\* No step leaves a buffer with an element of another kind or place.
LEMMA TypedNext ==
  ASSUME Typed, Scheduled, [Next]_vars
  PROVE  Typed'
<1> USE DEF Typed
<1>s. ASSUME NEW s, Stage(s)
      PROVE  call \in [op : Ops, d : Sets] /\ call.d \in Sets /\ contents' = contents
  <2>1. call \in [op : Ops, d : Sets]
    BY <1>s, StageMoves DEF Scheduled
  <2> QED BY <1>s, <2>1, StageMoves
<1>1. CASE NewImage
  BY <1>1 DEF NewImage, buffers
<1>2. CASE Throw
  BY <1>2 DEF Throw, buffers
<1>3. ASSUME NEW d \in Sets, ReplaceData(d)
      PROVE  Typed'
  BY <1>3 DEF ReplaceData, buffers
<1>4. ASSUME NEW d \in Sets, NEW op \in Ops, Call(op, d)
      PROVE  Typed'
  BY <1>4 DEF Call, buffers
<1>5. CASE Normalize
  BY <1>5, <1>s DEF Normalize, buffers
<1>6. CASE FT
  BY <1>6, <1>s, TypedModels DEF FT
<1>7. CASE FTtoV2
  <2>1. call.d \in Sets /\ contents' = contents
    BY <1>7, <1>s DEF FTtoV2
  <2>2. V2Of(call.d) \subseteq Indices /\ \A k \in Indices : FromFT(k) \in Elements
    BY <2>1, PartsOfData, TypedModels DEF FromFT
  <2>3. sim' \in [Indices -> Elements]
    BY <1>7, <2>2 DEF FTtoV2, Write
  <2> QED BY <1>7, <2>1, <2>3 DEF FTtoV2
<1>8. CASE FTtoT3
  <2>1. call.d \in Sets /\ contents' = contents
    BY <1>8, <1>s DEF FTtoT3
  <2>2. T3Of(call.d) \subseteq Indices /\ \A k \in Indices : FromFT(k) \in Elements
    BY <2>1, PartsOfData, TypedModels DEF FromFT
  <2>3. sim' \in [Indices -> Elements]
    BY <1>8, <2>2 DEF FTtoT3, Write
  <2> QED BY <1>8, <2>1, <2>3 DEF FTtoT3
<1>9. CASE ZeroChi
  <2>1. contents' = contents
    BY <1>9, <1>s DEF ZeroChi
  <2>2. chi' \in [Indices -> Elements] /\ chiL' \in [Indices -> Elements]
    BY <1>9 DEF ZeroChi, OnChi, Write, Elements
  <2> QED BY <1>9, <2>1, <2>2 DEF ZeroChi
<1>10. CASE Chi
  <2>1. call.d \in Sets /\ contents' = contents
    BY <1>10, <1>s DEF Chi
  <2>2. /\ V2Of(call.d) \subseteq Indices /\ T3Of(call.d) \subseteq Indices
        /\ VisOf(call.d) \subseteq Indices
        /\ \A k \in Indices : ChiOf(k) \in Elements
    BY <2>1, PartsOfData, TypedModels DEF ChiOf
  <2>3. ASSUME NEW part \in SUBSET Indices, OnChi(part, ChiOf)
        PROVE  chi' \in [Indices -> Elements] /\ chiL' \in [Indices -> Elements]
    BY <2>2, <2>3 DEF OnChi, Write
  <2>4. chi' \in [Indices -> Elements] /\ chiL' \in [Indices -> Elements]
    BY <1>10, <2>2, <2>3 DEF Chi
  <2> QED BY <1>10, <2>1, <2>4 DEF Chi
<1>11. CASE ReadChi
  BY <1>11, <1>s DEF ReadChi, buffers
<1>12. CASE ZeroChi2
  BY <1>12, <1>s DEF ZeroChi2, Elements
<1>13. CASE Square
  <2>1. call.d \in Sets /\ contents' = contents
    BY <1>13, <1>s DEF Square
  <2>2. DataOf(call.d) \subseteq Indices
    BY <2>1, PartsOfData
  <2>3. chi2' \in [Indices -> Elements]
    BY <1>13, <2>2 DEF Square, Write
  <2> QED BY <1>13, <2>1, <2>3 DEF Square
<1>14. CASE SumChi2
  BY <1>14, <1>s DEF SumChi2, buffers
<1>15. CASE LogLike
  <2>1. call.d \in Sets /\ contents' = contents
    BY <1>15, <1>s DEF LogLike
  <2>2. DataOf(call.d) \subseteq Indices
    BY <2>1, PartsOfData
  <2>3. logLike' \in [Indices -> Elements]
    BY <1>15, <2>2 DEF LogLike, Write
  <2> QED BY <1>15, <2>1, <2>3 DEF LogLike
<1>16. CASE SumLogLike
  BY <1>16, <1>s DEF SumLogLike, buffers
<1>17. CASE UNCHANGED vars
  BY <1>17 DEF vars, buffers
<1> QED
  BY <1>1, <1>2, <1>3, <1>4, <1>5, <1>6, <1>7, <1>8, <1>9, <1>10, <1>11, <1>12, <1>13,
     <1>14, <1>15, <1>16, <1>17 DEF Next

\* Versions count changes.
LEMMA CountedNext ==
  ASSUME Typed, Counted, Scheduled, [Next]_vars
  PROVE  Counted'
<1>1. CASE NewImage
  BY <1>1 DEF NewImage, Counted, Typed
<1>2. ASSUME NEW d \in Sets, ReplaceData(d)
      PROVE  Counted'
  BY <1>2 DEF ReplaceData, Counted, Typed
<1>3. ASSUME contents' = contents, changes' = changes, image'.version = image.version
      PROVE  Counted'
  BY <1>3 DEF Counted
<1>4. ASSUME NEW s, Stage(s), image' = image \/ image' = [image EXCEPT !.unit = TRUE]
      PROVE  Counted'
  <2>1. image'.version = image.version
    BY <1>4 DEF Typed
  <2> QED BY <1>3, <1>4, <2>1, StageMoves
<1>5. CASE UNCHANGED vars \/ Throw \/ \E d \in Sets, op \in Ops : Call(op, d)
  BY <1>3, <1>5 DEF vars, Throw, Call
<1>6. CASE Normalize \/ FT \/ FTtoV2 \/ FTtoT3 \/ ZeroChi \/ Chi \/ ReadChi \/ ZeroChi2
           \/ Square \/ SumChi2 \/ LogLike \/ SumLogLike
  BY <1>4, <1>6 DEF Normalize, FT, FTtoV2, FTtoT3, ZeroChi, Chi, ReadChi, ZeroChi2, Square,
       SumChi2, LogLike, SumLogLike
<1> QED BY <1>1, <1>2, <1>5, <1>6 DEF Next
-----------------------------------------------------------------------------
(* What the stages establish *)

\* Which actions are stages, and which of them return.
LEMMA StageOrNot ==
  ASSUME [Next]_vars
  PROVE  \/ NewImage \/ (\E d \in Sets : ReplaceData(d)) \/ UNCHANGED vars
         \/ Throw \/ (\E d \in Sets, op \in Ops : Call(op, d))
         \/ Normalize \/ FT \/ FTtoV2 \/ FTtoT3
         \/ ZeroChi \/ Chi \/ ReadChi \/ ZeroChi2 \/ Square \/ SumChi2 \/ LogLike \/ SumLogLike
  BY DEF Next

\* A call keeps to its list of stages, and the last of them returns.
LEMMA ScheduledNext ==
  ASSUME Scheduled, [Next]_vars
  PROVE  Scheduled'
<1>1. CASE NewImage \/ UNCHANGED vars \/ \E d \in Sets : ReplaceData(d)
  <2>1. call' = call /\ todo' = todo /\ answer' = answer
    BY <1>1 DEF NewImage, ReplaceData, vars
  <2> QED BY <2>1 DEF Scheduled, Idle, at
<1>2. CASE Throw
  BY <1>2 DEF Throw, Scheduled, Idle
<1>3. ASSUME NEW d \in Sets, NEW op \in Ops, Call(op, d)
      PROVE  Scheduled'
  <2>1. /\ call' = [op |-> op, d |-> d] /\ call'.op = op /\ answer' = NoCall
        /\ todo' = StageList[op]
    BY <1>3, StagesAre, OpsAreListed DEF Call
  <2>2. Len(StageList[op]) \in 4 .. 11 /\ StageList[op] \in Seq(StageNames)
    BY LengthOfList
  <2>3. at' = 1
    <3>1. at' = Len(StageList[op]) - Len(todo') + 1
      BY <2>1 DEF at
    <3> QED BY <2>1, <2>2, <3>1
  <2>4. \A i \in 1 .. Len(todo') : todo'[i] = StageList[call'.op][at' + i - 1]
    BY <2>1, <2>2, <2>3
  <2>5. todo' # << >>
    <3>1. Len(todo') \in 4 .. 11
      BY <2>1, <2>2
    <3>2. Len(<< >>) = 0 /\ 0 \notin 4 .. 11
      BY EmptySeq
    <3> QED BY <3>1, <3>2, Zenon
  <2> QED BY <2>1, <2>2, <2>3, <2>4, <2>5 DEF Scheduled, Idle
<1>4. ASSUME NEW s, Stage(s), answer' = answer \/ Idle'
      PROVE  Scheduled'
  BY <1>4, StageMoves DEF Scheduled
<1>5. CASE Normalize \/ FT \/ FTtoV2 \/ ZeroChi \/ Chi \/ ZeroChi2 \/ Square \/ LogLike
  BY <1>4, <1>5 DEF Normalize, FT, FTtoV2, ZeroChi, Chi, ZeroChi2, Square, LogLike
<1>6. ASSUME NEW s, Stage(s), \/ s = "T3" /\ call.op = "ImageToData"
                              \/ s \in {"ReadChi", "SumChi2", "SumLogLike"}
      PROVE  Idle'
  <2>1. at \in 1 .. Len(StageList[call.op]) /\ s = StageList[call.op][at] /\ call.op \in Ops
    BY <1>6, StageMoves DEF Scheduled
  <2>2. at = Len(StageList[call.op])
    BY <1>6, <2>1, PlaceOfStage
  <2> QED BY <1>6, <2>2, StageMoves
<1>7. CASE FTtoT3
  BY <1>4, <1>6, <1>7 DEF FTtoT3
<1>8. CASE ReadChi \/ SumChi2 \/ SumLogLike
  BY <1>4, <1>6, <1>8 DEF ReadChi, SumChi2, SumLogLike
<1> QED BY <1>1, <1>2, <1>3, <1>5, <1>7, <1>8, StageOrNot

\* Outside the stages the host is idle, or a call is at its beginning.
LEMMA NotAStage ==
  ASSUME Scheduled,
         \/ NewImage \/ Throw \/ UNCHANGED vars
         \/ \E d \in Sets : ReplaceData(d) \/ \E op \in Ops : Call(op, d)
  PROVE  Idle' \/ at' = 1 \/ UNCHANGED vars
<1>1. ASSUME NEW d \in Sets, NEW op \in Ops, Call(op, d)
      PROVE  at' = 1
  <2>1. call'.op = op /\ todo' = StageList[op]
    BY <1>1, StagesAre, OpsAreListed DEF Call
  <2>2. Len(StageList[op]) \in 4 .. 11
    BY LengthOfList
  <2>3. at' = Len(StageList[op]) - Len(todo') + 1
    BY <2>1 DEF at
  <2> QED BY <2>1, <2>2, <2>3
<1>2. CASE \E d \in Sets, op \in Ops : Call(op, d)
  BY <1>1, <1>2
<1>3. CASE NewImage \/ Throw \/ \E d \in Sets : ReplaceData(d)
  <2>1. todo' = << >>
    BY <1>3 DEF NewImage, Throw, ReplaceData, Idle
  <2> QED BY <2>1 DEF Idle
<1> QED BY <1>2, <1>3

\* The four stages every call begins with: image, transform, V2, T3.
LEMMA SimulatedNext ==
  ASSUME Typed, Scheduled, Simulated, [Next]_vars
  PROVE  Simulated'
<1>1. CASE \/ NewImage \/ Throw \/ UNCHANGED vars
           \/ \E d \in Sets : ReplaceData(d) \/ \E op \in Ops : Call(op, d)
  <2>1. CASE Idle' \/ at' = 1
    BY <2>1 DEF Simulated
  <2>2. CASE UNCHANGED vars
    BY <2>2 DEF Simulated, vars, buffers, Idle, at, ModelOf, Right, Element
  <2> QED BY <1>1, <2>1, <2>2, NotAStage
<1>2. CASE Normalize
  <2>1. SUFFICES ASSUME ~Idle' PROVE Simulated'
    BY DEF Simulated
  <2>2. Stage("Normalize") /\ image'.version = image.version /\ image'.unit
    BY <1>2 DEF Normalize, Typed
  <2>3. at' = 2
    BY <2>1, <2>2, StageFrame, PlaceOfStage
  <2> QED BY <2>2, <2>3 DEF Simulated
<1>3. CASE FT
  <2>1. SUFFICES ASSUME ~Idle' PROVE Simulated'
    BY DEF Simulated
  <2>2. Stage("FT") /\ image' = image
    BY <1>3 DEF FT
  <2>3. at = 2 /\ at' = 3 /\ ~Idle /\ call' = call /\ ModelOf(call.d)' = ModelOf(call.d)
    BY <2>1, <2>2, StageFrame, PlaceOfStage
  <2>4. image.unit /\ ft' = ModelOf(call.d)
    BY <1>3, <2>3 DEF FT, Simulated
  <2> QED BY <2>2, <2>3, <2>4 DEF Simulated
<1>4. CASE FTtoV2
  <2>1. SUFFICES ASSUME ~Idle' PROVE Simulated'
    BY DEF Simulated
  <2>2. Stage("V2") /\ image' = image /\ ft' = ft /\ sim' = Write(sim, V2Of(call.d), FromFT)
    BY <1>4 DEF FTtoV2
  <2>3. /\ at = 3 /\ at' = 4 /\ ~Idle /\ call' = call /\ ModelOf(call.d)' = ModelOf(call.d)
        /\ \A k : Element(call.d, k)' = Element(call.d, k)
    BY <2>1, <2>2, StageFrame, PlaceOfStage
  <2>4. image.unit /\ ft = ModelOf(call.d)
    BY <2>3 DEF Simulated
  <2>5. \A k \in V2Of(call.d) : sim'[k] = Element(call.d, k)
    BY <2>2, <2>4 DEF Write, FromFT
  <2>6. Right(sim, V2Of(call.d))'
    BY <2>3, <2>5 DEF Right
  <2> QED BY <2>2, <2>3, <2>4, <2>6 DEF Simulated
<1>5. CASE FTtoT3
  <2>1. SUFFICES ASSUME ~Idle' PROVE Simulated'
    BY DEF Simulated
  <2>2. Stage("T3") /\ image' = image /\ ft' = ft /\ sim' = Write(sim, T3Of(call.d), FromFT)
    BY <1>5 DEF FTtoT3
  <2>3. /\ at = 4 /\ at' = 5 /\ ~Idle /\ call' = call /\ ModelOf(call.d)' = ModelOf(call.d)
        /\ \A k : Element(call.d, k)' = Element(call.d, k)
    BY <2>1, <2>2, StageFrame, PlaceOfStage
  <2>4. image.unit /\ ft = ModelOf(call.d) /\ Right(sim, V2Of(call.d))
    BY <2>3 DEF Simulated
  <2>5. /\ \A k \in T3Of(call.d) : sim'[k] = Element(call.d, k)
        /\ \A k \in V2Of(call.d) : sim'[k] = Element(call.d, k)
    <3>1. call.d \in Sets
      BY <2>1, <2>2, StageFrame
    <3>2. V2Of(call.d) \subseteq Indices /\ DOMAIN sim = Indices
      BY <3>1, PartsOfData DEF Typed
    <3> QED BY <2>2, <2>4, <3>2 DEF Write, FromFT, Right
  <2>6. Right(sim, V2Of(call.d))' /\ Right(sim, T3Of(call.d))'
    BY <2>3, <2>5 DEF Right
  <2> QED BY <2>2, <2>3, <2>4, <2>6 DEF Simulated
<1>6. ASSUME NEW s, Stage(s), s \notin {"Normalize", "FT", "V2", "T3"}, s \in StageNames,
             UNCHANGED <<image, ft, sim>>
      PROVE  Simulated'
  <2>1. SUFFICES ASSUME ~Idle' PROVE Simulated'
    BY DEF Simulated
  <2>2. /\ at \in Nat /\ at > 4 /\ ~Idle
        /\ call' = call /\ ModelOf(call.d)' = ModelOf(call.d)
        /\ \A k : Element(call.d, k)' = Element(call.d, k)
    BY <1>6, <2>1, StageFrame, PlaceOfStage DEF StageNames
  <2>3. image.unit /\ ft = ModelOf(call.d) /\ Right(sim, V2Of(call.d)) /\ Right(sim, T3Of(call.d))
    BY <2>2 DEF Simulated
  <2>4. Right(sim, V2Of(call.d))' /\ Right(sim, T3Of(call.d))'
    BY <1>6, <2>2, <2>3 DEF Right
  <2> QED BY <1>6, <2>2, <2>3, <2>4 DEF Simulated
<1>7. CASE ZeroChi \/ Chi \/ ReadChi \/ ZeroChi2 \/ Square \/ SumChi2 \/ LogLike \/ SumLogLike
  <2>1. UNCHANGED <<image, ft, sim>>
    BY <1>7 DEF ZeroChi, Chi, ReadChi, ZeroChi2, Square, SumChi2, LogLike, SumLogLike, buffers
  <2>2. \E s \in StageNames \ {"Normalize", "FT", "V2", "T3"} : Stage(s)
    BY <1>7 DEF ZeroChi, Chi, ReadChi, ZeroChi2, Square, SumChi2, LogLike, SumLogLike, StageNames
  <2> QED BY <1>6, <2>1, <2>2
<1> QED BY <1>1, <1>2, <1>3, <1>4, <1>5, <1>7 DEF Next

\* The kernels of CRoutine_Chi write what they compute to the buffer of chi
\* that the call uses, and nothing else.
LEMMA OnChiWrites ==
  ASSUME Typed, NEW part \in SUBSET Indices, OnChi(part, ChiOf), call' = call
  PROVE  \A k \in Indices :
           ChiBuffer'[k] = IF k \in part THEN ChiOf(k) ELSE ChiBuffer[k]
<1>1. CASE call.op = "ImageToLogLike"
  BY <1>1 DEF OnChi, Write, ChiBuffer, Typed
<1>2. CASE call.op # "ImageToLogLike"
  BY <1>2 DEF OnChi, Write, ChiBuffer, Typed
<1> QED BY <1>1, <1>2

\* Without complex visibilities all that chi reads has been simulated.
LEMMA ChiIsRight ==
  ASSUME call.d \in Sets, NoVis(call.d),
         Right(sim, V2Of(call.d)), Right(sim, T3Of(call.d))
  PROVE  \A k \in V2Of(call.d) \cup T3Of(call.d) : ChiOf(k) = Element(call.d, k)
<1> DEFINE d == call.d
<1>1. ASSUME NEW k \in V2Of(d) \cup T3Of(d), NEW p \in Pairs(d), NEW j \in p
      PROVE  j \in T3Of(d)
  BY <1>1, ShapeAssumption DEF Pairs, Complex, NoVis, T3Of, Segment, Count,
       CalculateOffset_Vis, CalculateOffset_T3
<1>2. ASSUME NEW k \in V2Of(d) \cup T3Of(d),
             NEW j \in {k} \cup UNION {p \in Pairs(d) : k \in p}
      PROVE  sim[j] = Element(d, j)
  <2>1. j \in V2Of(d) \cup T3Of(d)
    BY <1>1, <1>2
  <2> QED BY <2>1 DEF Right
<1> QED BY <1>2 DEF ChiOf

\* The stages of CRoutine_Chi.
LEMMA ComparedNext ==
  ASSUME Typed, Scheduled, Simulated, Compared, [Next]_vars
  PROVE  Compared'
<1>1. CASE \/ NewImage \/ Throw \/ UNCHANGED vars
           \/ \E d \in Sets : ReplaceData(d) \/ \E op \in Ops : Call(op, d)
  <2>1. CASE Idle' \/ at' = 1
    BY <2>1 DEF Compared, First
  <2>2. CASE UNCHANGED vars
    BY <2>2 DEF Compared, vars, buffers, Idle, at, First, ModelOf, Right, Zeroed, Element, ChiBuffer
  <2> QED BY <1>1, <2>1, <2>2, NotAStage
<1> USE DEF First
<1>2. ASSUME NEW s, Stage(s), s \in {"Normalize", "FT", "V2", "T3", "ZeroChi2"},
             image'.version = image.version
      PROVE  Compared'
  <2>1. SUFFICES ASSUME ~Idle' PROVE Compared'
    BY DEF Compared
  <2>2. call' = call /\ at' \in Nat /\ at' <= First
    BY <1>2, <2>1, StageFrame, PlaceOfStage
  <2> QED BY <2>2 DEF Compared
<1>3. CASE ZeroChi
  <2>1. SUFFICES ASSUME ~Idle' PROVE Compared'
    BY DEF Compared
  <2>2. Stage("ZeroChi") /\ image' = image /\ OnChi(Indices, LAMBDA k : ZERO)
    BY <1>3 DEF ZeroChi
  <2>3. call' = call /\ at' = First + 1
    BY <2>1, <2>2, StageFrame, PlaceOfStage
  <2>4. \A k \in Indices : ChiBuffer'[k] = ZERO
    BY <2>2, <2>3 DEF OnChi, Write, ChiBuffer
  <2>5. Zeroed(ChiBuffer)'
    BY <2>4 DEF Zeroed
  <2> QED BY <2>3, <2>5 DEF Compared
<1>4. CASE Chi
  <2>1. SUFFICES ASSUME ~Idle' PROVE Compared'
    BY DEF Compared
  <2>2. PICK s \in {"ChiV2", "ChiVis", "ChiT3"} :
          /\ Stage(s) /\ image' = image
          /\ OnChi(IF s = "ChiV2" THEN V2Of(call.d)
                   ELSE IF s = "ChiVis" THEN VisOf(call.d) ELSE T3Of(call.d), ChiOf)
    BY <1>4 DEF Chi
  <2> DEFINE part == IF s = "ChiV2" THEN V2Of(call.d)
                     ELSE IF s = "ChiVis" THEN VisOf(call.d) ELSE T3Of(call.d)
  <2>3. /\ ~Idle /\ call' = call /\ call.d \in Sets /\ at \in Nat /\ at' = at + 1
        /\ at = First + (IF s = "ChiV2" THEN 1 ELSE IF s = "ChiVis" THEN 2 ELSE 3)
        /\ \A k : Element(call.d, k)' = Element(call.d, k)
    BY <2>1, <2>2, StageFrame, PlaceOfStage
  <2>4. /\ part \in SUBSET DataOf(call.d) /\ part \in SUBSET Indices
        /\ NoVis(call.d) => part \subseteq V2Of(call.d) \cup T3Of(call.d)
        /\ V2Of(call.d) \subseteq Indices /\ T3Of(call.d) \subseteq Indices
    BY <2>3, PartsOfData
  <2>5. \A k \in Indices : ChiBuffer'[k] = IF k \in part THEN ChiOf(k) ELSE ChiBuffer[k]
    BY <2>2, <2>3, <2>4, OnChiWrites
  <2>6. Zeroed(ChiBuffer)'
    <3>1. Zeroed(ChiBuffer)
      BY <2>3 DEF Compared
    <3> QED BY <2>3, <2>4, <2>5, <3>1 DEF Zeroed
  <2>7. ASSUME NoVis(call.d), NEW k \in part
        PROVE  ChiBuffer'[k] = Element(call.d, k)
    <3>1. Right(sim, V2Of(call.d)) /\ Right(sim, T3Of(call.d))
      BY <2>3 DEF Simulated
    <3> QED BY <2>3, <2>4, <2>5, <2>7, <3>1, ChiIsRight
  <2>8. ASSUME NoVis(call.d)
        PROVE  Right(ChiBuffer, V2Of(call.d))'
    <3>1. CASE s = "ChiV2"
      BY <2>3, <2>7, <2>8, <3>1 DEF Right
    <3>2. CASE s # "ChiV2"
      <4>1. Right(ChiBuffer, V2Of(call.d))
        BY <2>3, <2>8, <3>2 DEF Compared
      <4>2. ASSUME NEW k \in V2Of(call.d)
            PROVE  ChiBuffer'[k] = Element(call.d, k)
        BY <2>4, <2>5, <2>7, <2>8, <4>1 DEF Right
      <4> QED BY <2>3, <4>2 DEF Right
    <3> QED BY <3>1, <3>2
  <2>9. ASSUME NoVis(call.d), at' > First + 3
        PROVE  Right(ChiBuffer, T3Of(call.d))'
    <3>1. s = "ChiT3"
      BY <2>3, <2>9
    <3> QED BY <2>3, <2>7, <2>9, <3>1 DEF Right
  <2> QED BY <2>3, <2>6, <2>8, <2>9 DEF Compared
<1>5. ASSUME NEW s, Stage(s), s \in {"ReadChi", "Square", "SumChi2", "LogLike", "SumLogLike"},
             UNCHANGED <<image, chi, chiL>>
      PROVE  Compared'
  <2>1. SUFFICES ASSUME ~Idle' PROVE Compared'
    BY DEF Compared
  <2>2. /\ at \in Nat /\ at > First + 3 /\ ~Idle /\ call' = call
        /\ \A k : Element(call.d, k)' = Element(call.d, k)
    BY <1>5, <2>1, StageFrame, PlaceOfStage
  <2>3. ChiBuffer' = ChiBuffer
    BY <1>5, <2>2 DEF ChiBuffer
  <2>4. /\ Zeroed(ChiBuffer)
        /\ NoVis(call.d) => Right(ChiBuffer, V2Of(call.d)) /\ Right(ChiBuffer, T3Of(call.d))
    BY <2>2 DEF Compared
  <2>5. /\ Zeroed(ChiBuffer)'
        /\ NoVis(call.d) => Right(ChiBuffer, V2Of(call.d))' /\ Right(ChiBuffer, T3Of(call.d))'
    BY <2>2, <2>3, <2>4 DEF Zeroed, Right
  <2> QED BY <2>2, <2>5 DEF Compared
<1>6. CASE Normalize \/ FT \/ FTtoV2 \/ FTtoT3 \/ ZeroChi2
  BY <1>2, <1>6 DEF Normalize, FT, FTtoV2, FTtoT3, ZeroChi2, Typed
<1>7. CASE ReadChi \/ Square \/ SumChi2 \/ LogLike \/ SumLogLike
  BY <1>5, <1>7 DEF ReadChi, Square, SumChi2, LogLike, SumLogLike, buffers
<1> QED BY <1>1, <1>3, <1>4, <1>6, <1>7 DEF Next

\* The stages that prepare a sum: ZeroChi2, Square and LogLike.
LEMMA SummedNext ==
  ASSUME Typed, Scheduled, Compared, Summed, [Next]_vars
  PROVE  Summed'
<1>1. CASE \/ NewImage \/ Throw \/ UNCHANGED vars
           \/ \E d \in Sets : ReplaceData(d) \/ \E op \in Ops : Call(op, d)
  <2>1. CASE Idle' \/ at' = 1
    BY <2>1 DEF Summed
  <2>2. CASE UNCHANGED vars
    BY <2>2 DEF Summed, vars, buffers, Idle, at, ModelOf, Right, Zeroed, Element
  <2> QED BY <1>1, <2>1, <2>2, NotAStage
<1>2. ASSUME NEW s, Stage(s), s \in {"Normalize", "FT", "V2", "T3"}, image'.version = image.version
      PROVE  Summed'
  <2>1. SUFFICES ASSUME ~Idle' PROVE Summed'
    BY DEF Summed
  <2>2. at' \in Nat /\ at' <= 5
    BY <1>2, <2>1, StageFrame, PlaceOfStage
  <2> QED BY <2>2 DEF Summed
<1>3. CASE ZeroChi2
  <2>1. SUFFICES ASSUME ~Idle' PROVE Summed'
    BY DEF Summed
  <2>2. Stage("ZeroChi2") /\ image' = image /\ chi2' = [k \in Indices |-> ZERO]
    BY <1>3 DEF ZeroChi2
  <2>3. call' = call /\ at' = 6 /\ call.op = "ImageToChi2"
    BY <2>1, <2>2, StageFrame, PlaceOfStage
  <2>4. Zeroed(chi2)'
    BY <2>2 DEF Zeroed
  <2> QED BY <2>3, <2>4 DEF Summed
<1>4. ASSUME NEW s, Stage(s), s \in {"ZeroChi", "ChiV2", "ChiVis", "ChiT3"},
             UNCHANGED <<image, chi2>>
      PROVE  Summed'
  <2>1. SUFFICES ASSUME ~Idle' PROVE Summed'
    BY DEF Summed
  <2>2. /\ ~Idle /\ call' = call /\ at \in Nat /\ at' \in Nat
        /\ IF call.op = "ImageToChi2" THEN at > 5 /\ at' <= 10 ELSE at' <= 9
    BY <1>4, <2>1, StageFrame, PlaceOfStage
  <2>3. call.op = "ImageToChi2" => Zeroed(chi2)'
    BY <1>4, <2>2 DEF Summed, Zeroed
  <2> QED BY <2>2, <2>3 DEF Summed
<1>5. CASE Square
  <2>1. SUFFICES ASSUME ~Idle' PROVE Summed'
    BY DEF Summed
  <2>2. Stage("Square") /\ image' = image /\ chi2' = Write(chi2, DataOf(call.d), LAMBDA k : chi[k])
    BY <1>5 DEF Square
  <2>3. /\ ~Idle /\ call' = call /\ call.d \in Sets
        /\ at = 10 /\ at' = 11 /\ call.op = "ImageToChi2"
        /\ \A k : Element(call.d, k)' = Element(call.d, k)
    BY <2>1, <2>2, StageFrame, PlaceOfStage
  <2>4. Zeroed(chi2) /\ DOMAIN chi2 = Indices
    BY <2>3 DEF Summed, Typed
  <2>5. \A k \in Indices : chi2'[k] = IF k \in DataOf(call.d) THEN chi[k] ELSE chi2[k]
    BY <2>2, <2>4 DEF Write
  <2>6. Zeroed(chi2)'
    BY <2>3, <2>4, <2>5 DEF Zeroed
  <2>7. ASSUME NoVis(call.d)
        PROVE  Right(chi2, DataOf(call.d))'
    <3>1. Right(chi, V2Of(call.d)) /\ Right(chi, T3Of(call.d))
      BY <2>3, <2>7 DEF Compared, ChiBuffer, First
    <3>2. DataOf(call.d) = V2Of(call.d) \cup T3Of(call.d) /\ DataOf(call.d) \subseteq Indices
      BY <2>3, <2>7, PartsOfData
    <3> QED BY <2>3, <2>5, <3>1, <3>2 DEF Right
  <2> QED BY <2>3, <2>6, <2>7 DEF Summed
<1>6. CASE LogLike
  <2>1. SUFFICES ASSUME ~Idle' PROVE Summed'
    BY DEF Summed
  <2>2. /\ Stage("LogLike") /\ image' = image
        /\ logLike' = Write(logLike, DataOf(call.d), LAMBDA k : chiL[k])
    BY <1>6 DEF LogLike
  <2>3. /\ ~Idle /\ call' = call /\ call.d \in Sets
        /\ at = 9 /\ at' = 10 /\ call.op = "ImageToLogLike"
        /\ \A k : Element(call.d, k)' = Element(call.d, k)
    BY <2>1, <2>2, StageFrame, PlaceOfStage
  <2>4. \A k \in DataOf(call.d) : logLike'[k] = chiL[k]
    BY <2>2 DEF Write
  <2>5. ASSUME NoVis(call.d)
        PROVE  Right(logLike, DataOf(call.d))'
    <3>1. Right(chiL, V2Of(call.d)) /\ Right(chiL, T3Of(call.d))
      BY <2>3, <2>5 DEF Compared, ChiBuffer, First
    <3>2. DataOf(call.d) = V2Of(call.d) \cup T3Of(call.d)
      BY <2>3, <2>5, PartsOfData
    <3> QED BY <2>3, <2>4, <3>1, <3>2 DEF Right
  <2> QED BY <2>3, <2>5 DEF Summed
<1>7. ASSUME NEW s, Stage(s), s \in {"ReadChi", "SumChi2", "SumLogLike"}
      PROVE  Summed'
  <2>1. at \in 1 .. Len(StageList[call.op]) /\ s = StageList[call.op][at] /\ call.op \in Ops
    BY <1>7, StageMoves DEF Scheduled
  <2>2. at = Len(StageList[call.op])
    BY <1>7, <2>1, PlaceOfStage
  <2> QED BY <1>7, <2>2, StageMoves DEF Summed
<1>8. CASE Normalize \/ FT \/ FTtoV2 \/ FTtoT3
  BY <1>2, <1>8 DEF Normalize, FT, FTtoV2, FTtoT3, Typed
<1>9. CASE ZeroChi \/ Chi
  BY <1>4, <1>9 DEF ZeroChi, Chi
<1>10. CASE ReadChi \/ SumChi2 \/ SumLogLike
  BY <1>7, <1>10 DEF ReadChi, SumChi2, SumLogLike
<1> QED BY <1>1, <1>3, <1>5, <1>6, <1>8, <1>9, <1>10 DEF Next

-----------------------------------------------------------------------------
(* What the client is told *)

\* The steps that return, with what they return: for every call but
\* ImageToData the elements of a buffer that is right on the data of the data
\* set, and zero beyond it but for a log-likelihood.
LEMMA Returns ==
  ASSUME Typed, Scheduled, Simulated, Compared, Summed,
         \/ FTtoT3 /\ call.op = "ImageToData"
         \/ ReadChi \/ SumChi2 \/ SumLogLike
  PROVE  /\ call.d \in Sets /\ call.op \in Ops
         /\ image' = image /\ contents' = contents /\ Idle'
         /\ \E elements : Return(elements)
         /\ NoVis(call.d) => Meaningful(answer')
         /\ \A k \in V2Of(call.d) \cup T3Of(call.d) : sim'[k] = Element(call.d, k)
<1> DEFINE d == call.d
<1>1. ASSUME NEW s, Stage(s), s \in {"T3", "ReadChi", "SumChi2", "SumLogLike"},
             s = "T3" => call.op = "ImageToData"
      PROVE  /\ ~Idle /\ call \in [op : Ops, d : Sets] /\ d \in Sets /\ call.op \in Ops
             /\ at \in Nat /\ at = Len(StageList[call.op]) /\ s = StageList[call.op][at]
             /\ contents' = contents /\ Idle'
  <2>1. /\ ~Idle /\ at \in 1 .. Len(StageList[call.op]) /\ s = StageList[call.op][at]
        /\ call \in [op : Ops, d : Sets]
    BY <1>1, StageMoves DEF Scheduled
  <2>2. at = Len(StageList[call.op])
    BY <1>1, <2>1, PlaceOfStage
  <2> QED BY <1>1, <2>1, <2>2, StageMoves
\* A buffer's elements, right on the data of d and zero beyond, are meaningful.
<1>2. ASSUME NEW buffer, NEW part \in SUBSET Indices, d \in Sets, NoVis(d),
             Right(buffer, V2Of(d)), Right(buffer, T3Of(d)),
             Zeroed(buffer) \/ call.op = "ImageToLogLike",
             Return({<<k, buffer[k]>> : k \in part})
      PROVE  Meaningful(answer')
  <2>1. DataOf(d) = V2Of(d) \cup T3Of(d)
    BY <1>2, PartsOfData
  <2>2. \A k \in DataOf(d) : buffer[k] = Element(d, k)
    BY <1>2, <2>1 DEF Right
  <2>3. /\ answer'.op = call.op /\ answer'.d = d /\ answer'.image = image.version
        /\ answer'.version = contents[d] /\ answer'.elements = {<<k, buffer[k]>> : k \in part}
    BY <1>2 DEF Return
  <2>4. ASSUME NEW e \in answer'.elements
        PROVE  \/ /\ e[1] \in DataOf(d)
                  /\ e[2] = [k |-> e[1], of |-> [d |-> d, version |-> contents[d],
                                                image |-> image.version]]
               \/ e[1] \notin DataOf(d) /\ (e[2] = ZERO \/ call.op = "ImageToLogLike")
    <3>1. PICK k \in part : e = <<k, buffer[k]>>
      BY <2>3, <2>4
    <3>2. e[1] = k /\ e[2] = buffer[k]
      BY <3>1
    <3>3. CASE k \in DataOf(d)
      BY <2>2, <3>2, <3>3 DEF Element, ModelOf
    <3>4. CASE k \notin DataOf(d)
      BY <1>2, <3>2, <3>4 DEF Zeroed
    <3> QED BY <3>3, <3>4
  <2> QED BY <2>3, <2>4 DEF Meaningful
<1>3. CASE FTtoT3 /\ call.op = "ImageToData"
  <2>1. /\ Stage("T3") /\ image' = image /\ Return({}) /\ call.op = "ImageToData"
        /\ sim' = Write(sim, T3Of(d), FromFT)
    BY <1>3 DEF FTtoT3
  <2>2. ~Idle /\ call \in [op : Ops, d : Sets] /\ d \in Sets /\ contents' = contents /\ Idle' /\ at = 4
    BY <1>1, <2>1, PlaceOfStage, StageMoves
  <2>3. ft = ModelOf(d) /\ Right(sim, V2Of(d))
    BY <2>2 DEF Simulated
  <2>4. V2Of(d) \subseteq Indices /\ DOMAIN sim = Indices
    BY <2>2, PartsOfData DEF Typed
  <2>5. \A k \in V2Of(d) \cup T3Of(d) : sim'[k] = Element(d, k)
    BY <2>1, <2>3, <2>4 DEF Write, FromFT, Right
  <2>6. Meaningful(answer')
    BY <2>1 DEF Return, Meaningful
  <2> QED BY <2>1, <2>2, <2>5, <2>6
<1>4. ASSUME NEW s, Stage(s), s \in {"ReadChi", "SumChi2", "SumLogLike"}, UNCHANGED <<image, buffers>>
      PROVE  /\ d \in Sets /\ call.op \in Ops
             /\ image' = image /\ contents' = contents /\ Idle'
             /\ \A k \in V2Of(d) \cup T3Of(d) : sim'[k] = Element(d, k)
  <2>1. at \in Nat /\ at > 4 /\ ~Idle
    BY <1>1, <1>4, PlaceOfStage, StageMoves
  <2>2. Right(sim, V2Of(d)) /\ Right(sim, T3Of(d))
    BY <2>1 DEF Simulated
  <2>3. sim' = sim
    BY <1>4 DEF buffers
  <2> QED BY <1>1, <1>4, <2>2, <2>3 DEF Right
<1>5. CASE ReadChi
  <2>1. Stage("ReadChi") /\ UNCHANGED <<image, buffers>>
    BY <1>5 DEF ReadChi
  <2>2. PICK n \in 0 .. BufferSize : Return({<<k, chi[k]>> : k \in Segment(0, n)})
    BY <1>5 DEF ReadChi
  <2>3. /\ ~Idle /\ d \in Sets /\ call.op = "ImageToChi" /\ at = 9
    BY <1>1, <2>1, PlaceOfStage, StageMoves
  <2>4. /\ Zeroed(chi)
        /\ NoVis(d) => Right(chi, V2Of(d)) /\ Right(chi, T3Of(d))
    BY <2>3 DEF Compared, ChiBuffer, First
  <2>5. Segment(0, n) \subseteq Indices
    BY <2>3, PartsOfData DEF Segment, Indices
  <2> QED BY <1>2, <1>4, <2>1, <2>2, <2>3, <2>4, <2>5
<1>6. CASE SumChi2
  <2>1. /\ Stage("SumChi2") /\ UNCHANGED <<image, buffers>>
        /\ Return({<<k, chi2[k]>> : k \in Indices})
    BY <1>6 DEF SumChi2
  <2>2. /\ ~Idle /\ d \in Sets /\ call.op = "ImageToChi2" /\ at = 11
    BY <1>1, <2>1, PlaceOfStage, StageMoves
  <2>3. Zeroed(chi2) /\ (NoVis(d) => Right(chi2, DataOf(d)))
    BY <2>2 DEF Summed
  <2>4. NoVis(d) => Right(chi2, V2Of(d)) /\ Right(chi2, T3Of(d))
    BY <2>2, <2>3, PartsOfData DEF Right
  <2> QED BY <1>2, <1>4, <2>1, <2>2, <2>3, <2>4
<1>7. CASE SumLogLike
  <2>1. /\ Stage("SumLogLike") /\ UNCHANGED <<image, buffers>>
        /\ Return({<<k, logLike[k]>> : k \in Indices})
    BY <1>7 DEF SumLogLike
  <2>2. /\ ~Idle /\ d \in Sets /\ call.op = "ImageToLogLike" /\ at = 10
    BY <1>1, <2>1, PlaceOfStage, StageMoves
  <2>3. NoVis(d) => Right(logLike, DataOf(d))
    BY <2>2 DEF Summed
  <2>4. NoVis(d) => Right(logLike, V2Of(d)) /\ Right(logLike, T3Of(d))
    BY <2>2, <2>3, PartsOfData DEF Right
  <2> QED BY <1>2, <1>4, <2>1, <2>2, <2>4
<1> QED BY <1>3, <1>5, <1>6, <1>7

\* What a step means to the client.
LEMMA ClientSees ==
  ASSUME Typed, Scheduled, Simulated, Compared, Summed, [Next]_vars
  PROVE  \/ NewImage \/ UNCHANGED vars \/ \E d \in Sets : ReplaceData(d)
         \/ /\ answer' = NoCall
            /\ image'.version = image.version /\ contents' = contents
         \/ \/ FTtoT3 /\ call.op = "ImageToData"
            \/ ReadChi \/ SumChi2 \/ SumLogLike
<1>1. CASE Throw \/ \E d \in Sets, op \in Ops : Call(op, d)
  BY <1>1 DEF Throw, Call
<1>2. ASSUME NEW s, Stage(s), answer' = answer, image'.version = image.version
      PROVE  answer' = NoCall /\ image'.version = image.version /\ contents' = contents
  BY <1>2, StageMoves DEF Scheduled
<1>3. CASE \/ Normalize \/ FT \/ FTtoV2 \/ ZeroChi \/ Chi \/ ZeroChi2 \/ Square \/ LogLike
           \/ FTtoT3 /\ call.op # "ImageToData"
  BY <1>2, <1>3 DEF Normalize, FT, FTtoV2, FTtoT3, ZeroChi, Chi, ZeroChi2, Square, LogLike, Typed
<1> QED BY <1>1, <1>3 DEF Next

\* An answer stays meaningful, and its versions stay versions of the past.
LEMMA AnsweredNext ==
  ASSUME Typed, Scheduled, Simulated, Compared, Summed, Answered, [Next]_vars
  PROVE  Answered'
<1>1. CASE NewImage
  BY <1>1 DEF NewImage, Answered, Typed
<1>2. ASSUME NEW d \in Sets, ReplaceData(d)
      PROVE  Answered'
  BY <1>2 DEF ReplaceData, Answered, Typed
<1>3. CASE UNCHANGED vars
  BY <1>3 DEF vars, Answered
<1>4. CASE answer' = NoCall
  BY <1>4 DEF Answered
<1>5. CASE \/ FTtoT3 /\ call.op = "ImageToData"
           \/ ReadChi \/ SumChi2 \/ SumLogLike
  <2>1. /\ call.d \in Sets /\ image' = image /\ contents' = contents
        /\ NoVis(call.d) => Meaningful(answer')
        /\ answer'.d = call.d /\ answer'.image = image.version
        /\ answer'.version = contents[call.d]
    BY <1>5, Returns DEF Return
  <2>2. image.version \in Nat /\ contents[call.d] \in Nat
    BY <2>1 DEF Typed
  <2> QED BY <2>1, <2>2 DEF Answered
<1> QED BY <1>1, <1>2, <1>3, <1>4, <1>5, ClientSees

\* A new image or a replacement makes the answer one about old versions;
\* every other step that touches the simulated data belongs to a call.
LEMMA SimulatedIsCurrentNext ==
  ASSUME Typed, Scheduled, Simulated, Compared, Summed, Answered, SimulatedIsCurrent, [Next]_vars
  PROVE  SimulatedIsCurrent'
<1>1. CASE NewImage
  <2>1. /\ answer' = answer /\ image.version \in Nat /\ image'.version = image.version + 1
    BY <1>1 DEF NewImage, Typed
  <2>2. answer' # NoCall => answer'.image # image'.version
    BY <2>1 DEF Answered
  <2> QED BY <2>2 DEF SimulatedIsCurrent
<1>2. ASSUME NEW d \in Sets, ReplaceData(d)
      PROVE  SimulatedIsCurrent'
  <2>1. /\ answer' = answer /\ sim' = sim /\ image' = image /\ Idle
        /\ \A e \in Sets : contents'[e] = IF e = d THEN contents[d] + 1 ELSE contents[e]
        /\ contents[d] \in Nat
    BY <1>2 DEF ReplaceData, Typed, buffers
  <2>2. CASE answer # NoCall /\ answer.d # d
    <3>1. answer.d \in Sets /\ contents'[answer.d] = contents[answer.d]
      BY <2>1, <2>2 DEF Answered
    <3>2. \A k : Element(answer.d, k)' = Element(answer.d, k)
      BY <2>1, <3>1 DEF Element, ModelOf
    <3> QED BY <2>1, <3>1, <3>2 DEF SimulatedIsCurrent
  <2>3. CASE answer # NoCall /\ answer.d = d
    <3>1. answer'.version # contents'[answer'.d]
      BY <2>1, <2>3 DEF Answered
    <3> QED BY <3>1 DEF SimulatedIsCurrent
  <2>4. CASE answer = NoCall
    BY <2>1, <2>4 DEF SimulatedIsCurrent
  <2> QED BY <2>2, <2>3, <2>4
<1>3. CASE UNCHANGED vars
  BY <1>3 DEF vars, buffers, SimulatedIsCurrent, Idle, Element, ModelOf
<1>4. CASE answer' = NoCall
  BY <1>4 DEF SimulatedIsCurrent
<1>5. CASE \/ FTtoT3 /\ call.op = "ImageToData"
           \/ ReadChi \/ SumChi2 \/ SumLogLike
  <2>1. /\ call.d \in Sets /\ image' = image /\ contents' = contents /\ answer'.d = call.d
        /\ \A k \in V2Of(call.d) \cup T3Of(call.d) : sim'[k] = Element(call.d, k)
    BY <1>5, Returns DEF Return
  <2>2. DataOf(call.d) \ VisOf(call.d) \subseteq V2Of(call.d) \cup T3Of(call.d)
    BY <2>1, PartsOfData
  <2> QED BY <2>1, <2>2 DEF SimulatedIsCurrent, Element, ModelOf
<1> QED BY <1>1, <1>2, <1>3, <1>4, <1>5, ClientSees

-----------------------------------------------------------------------------
(* The theorems *)

LEMMA InitIInv == Init => IInv
<1> SUFFICES ASSUME Init PROVE IInv
  OBVIOUS
<1>1. Idle /\ answer = NoCall /\ call = NoCall /\ todo = << >>
  BY DEF Init, Idle
<1>2. Typed
  BY DEF Init, Typed, Elements
<1>3. Counted
  BY DEF Init, Counted
<1>4. Scheduled
  BY <1>1, EmptySeq DEF Scheduled
<1>5. Simulated /\ Compared /\ Summed /\ Answered /\ SimulatedIsCurrent
  BY <1>1 DEF Simulated, Compared, Summed, Answered, SimulatedIsCurrent
<1> QED BY <1>2, <1>3, <1>4, <1>5 DEF IInv

LEMMA NextIInv == IInv /\ [Next]_vars => IInv'
  BY TypedNext, CountedNext, ScheduledNext, SimulatedNext, ComparedNext, SummedNext,
     AnsweredNext, SimulatedIsCurrentNext DEF IInv

\* The invariant that the other theorems follow from.
THEOREM Invariance == Spec => []IInv
  BY InitIInv, NextIInv, PTL DEF Spec

\* Every stage finds and leaves its buffers whole: no kernel of a call writes
\* beyond the shared buffers, whatever mixture of data sets uses them.
THEOREM TypeCorrect == Spec => []TypeOK
<1>1. IInv => TypeOK
  <2> SUFFICES ASSUME IInv PROVE TypeOK
    OBVIOUS
  <2>1. Stages("ImageToChi2") = StageList["ImageToChi2"] /\ Len(StageList["ImageToChi2"]) = 11
    BY StagesAre DEF StageList
  <2>2. call \in [op : Ops, d : Sets] \cup {NoCall}
    BY DEF IInv, Scheduled
  <2>3. Len(todo) <= 11
    <3>1. CASE Idle
      <4>1. Len(<< >>) = 0
        BY EmptySeq
      <4> QED BY <3>1, <4>1 DEF Idle
    <3>2. CASE ~Idle
      <4> DEFINE n == Len(StageList[call.op])
      <4>1. call.op \in Ops /\ Len(todo) <= n /\ Len(todo) \in Nat
        BY <3>2 DEF IInv, Scheduled
      <4>2. n \in 4 .. 11
        BY <4>1, LengthOfList, OpsAreListed
      <4> HIDE DEF n
      <4> QED BY <4>1, <4>2
    <3> QED BY <3>1, <3>2
  <2>4. \A b \in {sim, chi, chi2, chiL, logLike} : b \in [Indices -> Elements]
    BY DEF IInv, Typed
  <2> QED BY <2>1, <2>2, <2>3, <2>4 DEF IInv, Typed, TypeOK
<1> QED BY <1>1, Invariance, PTL

\* After an answered call, mSimDataBuffer holds the model of the data set the
\* client asked for, until the image or the data change (liboi.cpp 168-174).
THEOREM SimulatedDataCurrent == Spec => []SimulatedIsCurrent
<1>1. IInv => SimulatedIsCurrent
  BY DEF IInv
<1> QED BY <1>1, Invariance, PTL

\* An answer about a data set without complex visibilities is made of its
\* model for the image of the moment and of nothing else, also when other data
\* sets on the same buffers have visibilities (liboi.cpp 366-470).
THEOREM AnswersMeaningful ==
  Spec => [](answer # NoCall /\ NoVis(answer.d) => Meaningful(answer))
<1>1. IInv => (answer # NoCall /\ NoVis(answer.d) => Meaningful(answer))
  BY DEF IInv, Answered
<1> QED BY <1>1, Invariance, PTL

LEMMA PromiseInit == Init => Promise!Init
  BY DEF Init, Promise!Init, AbstractAnswer, Promise!Silent, NoCall

LEMMA PromiseNext ==
  ASSUME \A d \in Sets : NoVis(d), IInv, [Next]_vars
  PROVE  [Promise!Next]_(Promise!vars)
<1> USE DEF IInv
<1>1. CASE NewImage
  <2>1. /\ image.version < MaxChanges
        /\ image'.version = image.version + 1 /\ contents' = contents /\ answer' = answer
    BY <1>1, OpsAssumption DEF NewImage, Typed, Counted
  <2>2. AbstractAnswer' = AbstractAnswer
    BY <2>1 DEF AbstractAnswer, Meaningful
  <2> QED BY <2>1, <2>2 DEF Promise!Next, Promise!NewImage
<1>2. ASSUME NEW d \in Sets, ReplaceData(d)
      PROVE  Promise!Next
  <2>1. /\ contents[d] < MaxChanges
        /\ image' = image /\ contents' = [contents EXCEPT ![d] = @ + 1] /\ answer' = answer
    BY <1>2, OpsAssumption DEF ReplaceData, Typed, Counted
  <2>2. AbstractAnswer' = AbstractAnswer
    BY <2>1 DEF AbstractAnswer, Meaningful
  <2> QED BY <2>1, <2>2 DEF Promise!Next, Promise!ReplaceData
<1>3. CASE UNCHANGED vars
  <2>1. image' = image /\ contents' = contents /\ answer' = answer
    BY <1>3 DEF vars
  <2>2. AbstractAnswer' = AbstractAnswer
    BY <2>1 DEF AbstractAnswer, Meaningful
  <2> QED BY <2>1, <2>2 DEF Promise!vars
<1>4. CASE answer' = NoCall /\ image'.version = image.version /\ contents' = contents
  BY <1>4 DEF AbstractAnswer, Promise!Next, Promise!NoAnswer, Promise!Silent, NoCall
<1>5. CASE \/ FTtoT3 /\ call.op = "ImageToData"
           \/ ReadChi \/ SumChi2 \/ SumLogLike
  <2>1. /\ call.d \in Sets /\ call.op \in Ops /\ image' = image /\ contents' = contents
        /\ Meaningful(answer')
    BY <1>5, Returns
  <2>2. /\ answer'.op = call.op /\ answer'.d = call.d
        /\ answer'.image = image.version /\ answer'.version = contents[call.d]
    BY <1>5, Returns DEF Return
  <2>3. answer' # NoCall
    <3>1. NoCall.op = "none" /\ "none" \notin Ops
      BY OpsAssumption DEF NoCall
    <3> QED BY <2>1, <2>2, <3>1
  <2>4. AbstractAnswer' = [op |-> call.op, d |-> call.d, image |-> image.version,
                           version |-> contents[call.d]]
    BY <2>1, <2>2, <2>3 DEF AbstractAnswer, Meaningful
  <2>5. Promise!Answer(call.op, call.d)
    BY <2>1, <2>4 DEF Promise!Answer, Promise!AnswerTo
  <2> QED BY <2>1, <2>5 DEF Promise!Next
<1> QED BY <1>1, <1>2, <1>3, <1>4, <1>5, ClientSees

\* The calls keep the promise of Evaluation: whatever ran before on the shared
\* buffers, and wherever an exception cut it off, an answer is about the data
\* set asked for and the image of the moment (liboi.cpp 366-470).
THEOREM PromiseKept ==
  ASSUME \A d \in Sets : NoVis(d)
  PROVE  Spec => AnswersKeepThePromise
<1>1. IInv /\ [Next]_vars => [Promise!Next]_(Promise!vars)
  BY PromiseNext
<1> QED BY <1>1, PromiseInit, Invariance, PTL DEF Spec, AnswersKeepThePromise, Promise!Spec
=============================================================================
