--------------------------- MODULE Transfers_proofs ---------------------------
(***************************************************************************)
(* Proofs about Transfers                                                  *)
(***************************************************************************)
EXTENDS Transfers, SequenceTheorems, TLAPS

-----------------------------------------------------------------------------
(* Types *)

Cells == {"uv", "data", "err", "Vis", "V2", "T3", "sign"} \X Nat
Transferring == {"write", "read", "read simulated"}
Commands == [op : Transferring \cup ImageOps, cells : SUBSET Cells,
             mem : {"none", "local", "caller", "freed"}]
Saves == {"save real", "save model"}
Waiters == {"finish", "wait"}
Steps == [do : {"enqueue", "check", "repackage", "return", "glFinish"} \cup Waiters \cup Saves,
          cmds : Seq(Commands)]

Uploads == {"LoadData", "ReplaceData"}
DataCalls == Uploads \cup {"ExportData", "GetData"}
Listed == DataCalls \cup {"CopyImageToBuffer"}

\* The elements the data set has on the device.
Allocated == IF upload = "none" THEN {} ELSE AllocateMemory(counts)

Typed ==
  /\ queue \in Seq(Commands) /\ todo \in Seq(Steps)
  /\ refused \in BOOLEAN /\ owner \in {"GL", "CL"} /\ overlapped \in BOOLEAN
  /\ outcome \in {"ok", "throw", "swallowed", "running"}
  /\ counts \in Count
  /\ upload \in {"none", "partial", "ok"} /\ corrupted \in BOOLEAN
  /\ stale \subseteq Allocated
  /\ arrays \subseteq Allocated \X {"real", "simulated"}
  /\ exported \in {"nothing", "current", "other", "unknown"}
  /\ ignored \in BOOLEAN /\ copied \in BOOLEAN
  /\ source \in Sources /\ rendered \subseteq Tiles /\ image \subseteq Tiles
-----------------------------------------------------------------------------
(* Properties of scripts that their ends have, too *)

Posted(step) == IF step.do = "enqueue" THEN Range(step.cmds) ELSE {}

\* Everything but a release is waited for before the call saves or returns.
FinishedFrom(s, i) ==
  \E j \in DOMAIN s :
    /\ i <= j /\ s[j].do \in Waiters
    /\ \A k \in i .. j : s[k].do \notin Saves \cup {"return"}
Waits(s) ==
  \A i \in DOMAIN s :
    (\E cmd \in Posted(s[i]) : cmd.op # "release") => FinishedFrom(s, i)

\* It returns at its end.
Returns(s) == \A i \in DOMAIN s : (s[i].do = "return") <=> (i = Len(s))

\* Each group is checked at once.
ChecksGroups(s) ==
  \A i \in DOMAIN s : s[i].do = "enqueue" => i + 1 \in DOMAIN s /\ s[i + 1].do = "check"

\* What a call enqueues.
Uses(s, ops, mem, cells) ==
  \A i \in DOMAIN s : \A cmd \in Posted(s[i]) :
    cmd.op \in ops /\ cmd.mem = mem /\ cmd.cells \subseteq cells

OpsOf(op) ==
  CASE op \in Uploads -> {"write"}
    [] op = "ExportData" -> {"read", "read simulated"}
    [] op = "GetData" -> {"read"}
    [] op = "CopyImageToBuffer" -> ImageOps
MemOf(op) ==
  CASE op \in Uploads \cup {"ExportData"} -> "local"
    [] op = "GetData" -> "caller"
    [] op = "CopyImageToBuffer" -> "none"

\* The steps that read what the save at p writes to its file.
Unsaved(s, i, p) == \A k \in i .. p - 1 : s[k].do \notin Saves
ReadAs(cmd) == IF cmd.op = "read simulated" THEN "simulated" ELSE "real"
SourceOf(save, c) == IF save = "save model" /\ c[1] = "data" THEN "simulated" ELSE "real"
ReadsRight(s) ==
  \A p \in DOMAIN s : s[p].do \in Saves =>
    \A i \in 1 .. p - 1 : Unsaved(s, i, p) =>
      \A cmd \in Posted(s[i]) : \A c \in cmd.cells : ReadAs(cmd) = SourceOf(s[p].do, c)

\* Element c is among what the steps from i on, and before p, transfer.
Coming(s, i, p, c) ==
  \E k \in i .. p - 1 : Unsaved(s, k, p) /\ \E cmd \in Posted(s[k]) : c \in cmd.cells
-----------------------------------------------------------------------------
(* The inductive invariant *)

Scheduled ==
  /\ Idle <=> outcome # "running"
  /\ ignored => call # "CopyImageToBuffer"
  /\ ~Idle =>
       /\ call \in Listed
       /\ Returns(todo) /\ Waits(todo)
       /\ Uses(todo, OpsOf(call), MemOf(call), Allocated)
       /\ call \in DataCalls => ChecksGroups(todo) /\ upload # "none"
       /\ call \in Uploads => upload = "partial"

\* The current call will throw.
Throwing == refused /\ Head(todo).do = "check"

\* What is in the queue, and what the call does about it, unless it went on
\* after a clFinish that failed.
Queued ==
  /\ \A k \in DOMAIN queue :
       /\ queue[k].cells \subseteq Allocated
       /\ queue[k].op \in ImageOps <=> queue[k].mem = "none"
       /\ queue[k].mem \in {"local", "caller"} =>
            ~Idle /\ queue[k].mem = MemOf(call) /\ queue[k].op \in OpsOf(call)
       /\ \A j \in 1 .. k - 1 : queue[j].mem = "local" => queue[k].mem # "freed"
  /\ ~Idle /\ ~ignored /\ (\E k \in DOMAIN queue : call \in DataCalls \/ queue[k].op # "release")
       => FinishedFrom(todo, 1) \/ Throwing
  /\ outcome = "ok" /\ ~ignored /\ call \in Listed
       => \A k \in DOMAIN queue : call \notin DataCalls /\ queue[k].op = "release"

\* What GetData reads is for the caller.
Getting ==
  /\ Idle => arrays = {}
  /\ ~Idle /\ call = "GetData" => \A i \in DOMAIN todo : todo[i].do \notin Saves

InQueue(c) == \E k \in DOMAIN queue : queue[k].mem = "local" /\ c \in queue[k].cells

Uploaded == upload = "ok" => stale = {} /\ \A k \in DOMAIN queue : queue[k].op # "write"

Uploading ==
  ~Idle /\ call \in Uploads =>
    /\ \A i \in DOMAIN todo : todo[i].do \notin Saves
    /\ stale # Allocated => \A k \in DOMAIN queue : queue[k].mem # "freed"
    /\ \A c \in stale :
         InQueue(c) \/ Coming(todo, 1, Len(todo), c) \/ Throwing

Exporting ==
  ~Idle /\ ~ignored /\ call = "ExportData" /\ upload = "ok" =>
    /\ ReadsRight(todo)
    /\ \A p \in DOMAIN todo : todo[p].do \in Saves =>
         /\ Unsaved(todo, 1, p) =>
              /\ \A k \in DOMAIN queue : queue[k].mem = "local" =>
                   \A c \in queue[k].cells : ReadAs(queue[k]) = SourceOf(todo[p].do, c)
              /\ \A a \in arrays : a[2] = SourceOf(todo[p].do, a[1])
         /\ \A c \in Allocated :
              \/ Coming(todo, 1, p, c)
              \/ Unsaved(todo, 1, p) /\ (InQueue(c) \/ Throwing \/ \E a \in arrays : a[1] = c)

\* The copies, step by step, and where the current one is.
OpenGLSteps == 
  <<Step("glFinish"), Enqueue(<<Plain("acquire")>>), Step("check"), Step("finish"), Step("check"),
    Enqueue(<<Plain("copy")>>), Step("check"), Step("finish"), Step("check"),
    Enqueue(<<Plain("release")>>), Step("check"), Step("return")>>
HostSteps ==
  <<Enqueue(<<Plain("copy")>>), Step("check"), Step("wait"), Step("check"), Step("return")>>
CopySteps == IF source = "HOST_MEMORY" THEN HostSteps ELSE OpenGLSteps
at == Len(CopySteps) - Len(todo) + 1
Copied == image = Tiles \/ \E k \in DOMAIN queue : queue[k].op = "copy"

Copying ==
  /\ source = "HOST_MEMORY" => rendered = Tiles
  /\ ~Idle /\ call = "CopyImageToBuffer" =>
       /\ Len(todo) <= Len(CopySteps)
       /\ \A k \in DOMAIN todo : todo[k] = CopySteps[at - 1 + k]
       /\ at > 1 => rendered = Tiles
       /\ source = "HOST_MEMORY" =>
            /\ at = 2 => refused \/ Copied
            /\ at > 2 => Copied
       /\ source # "HOST_MEMORY" =>
            /\ at = 7 => refused \/ Copied
            /\ at > 7 => Copied
  /\ call = "CopyImageToBuffer" /\ outcome = "ok" => rendered = Tiles /\ image = Tiles

IInv ==
  /\ Typed /\ Scheduled /\ Queued /\ Getting
  /\ Uploaded /\ Uploading /\ Exporting /\ Copying
-----------------------------------------------------------------------------
(* Sequences of steps *)

LEMMA HeadAndTail ==
  ASSUME NEW S, NEW s \in Seq(S), s # << >>
  PROVE  /\ Head(s) = s[1] /\ s[1] \in S /\ Tail(s) \in Seq(S)
         /\ Len(s) \in Nat \ {0} /\ DOMAIN s = 1 .. Len(s)
         /\ Len(Tail(s)) = Len(s) - 1 /\ DOMAIN Tail(s) = 1 .. Len(s) - 1
         /\ \A i \in 1 .. Len(s) - 1 : Tail(s)[i] = s[i + 1]
<1>1. Len(s) \in Nat \ {0} /\ DOMAIN s = 1 .. Len(s)
  BY EmptySeq, LenProperties
<1>2. Head(s) = s[1]
  BY <1>1
<1>3. s[1] \in S
  BY <1>1, ElementOfSeq
<1>4. /\ Tail(s) \in Seq(S) /\ Len(Tail(s)) = Len(s) - 1
      /\ \A i \in 1 .. Len(Tail(s)) : Tail(s)[i] = s[i + 1]
  BY HeadTailProperties
<1>5. DOMAIN Tail(s) = 1 .. Len(s) - 1
  BY <1>4, LenProperties
<1> QED BY <1>1, <1>2, <1>3, <1>4, <1>5

LEMMA Concatenation ==
  ASSUME NEW S, NEW s \in Seq(S), NEW t \in Seq(S)
  PROVE  /\ s \o t \in Seq(S)
         /\ Len(s) \in Nat /\ Len(t) \in Nat /\ Len(s \o t) = Len(s) + Len(t)
         /\ DOMAIN s = 1 .. Len(s) /\ DOMAIN t = 1 .. Len(t)
         /\ DOMAIN (s \o t) = 1 .. Len(s) + Len(t)
         /\ \A i \in 1 .. Len(s) : (s \o t)[i] = s[i]
         /\ \A i \in 1 .. Len(t) : (s \o t)[Len(s) + i] = t[i]
<1>1. /\ s \o t \in Seq(S) /\ Len(s \o t) = Len(s) + Len(t)
      /\ \A i \in 1 .. Len(s) + Len(t) : (s \o t)[i] = IF i <= Len(s) THEN s[i] ELSE t[i - Len(s)]
  BY ConcatProperties
<1>2. /\ Len(s) \in Nat /\ Len(t) \in Nat
      /\ DOMAIN s = 1 .. Len(s) /\ DOMAIN t = 1 .. Len(t)
  BY LenProperties
<1>3. DOMAIN (s \o t) = 1 .. Len(s) + Len(t)
  BY <1>1, LenProperties
<1>4. ASSUME NEW i \in 1 .. Len(s)
      PROVE  (s \o t)[i] = s[i]
  BY <1>1, <1>2
<1>5. ASSUME NEW i \in 1 .. Len(t)
      PROVE  (s \o t)[Len(s) + i] = t[i]
  <2>1. Len(s) + i \in 1 .. Len(s) + Len(t) /\ ~(Len(s) + i <= Len(s)) /\ Len(s) + i - Len(s) = i
    BY <1>2
  <2> QED BY <1>1, <2>1
<1> QED BY <1>1, <1>2, <1>3, <1>4, <1>5

\* Where an element of a concatenation is from.
LEMMA PartOf ==
  ASSUME NEW S, NEW s \in Seq(S), NEW t \in Seq(S), NEW i \in DOMAIN (s \o t)
  PROVE  \/ i \in DOMAIN s /\ (s \o t)[i] = s[i]
         \/ \E j \in DOMAIN t : i = Len(s) + j /\ (s \o t)[i] = t[j]
<1>1. CASE i <= Len(s)
  BY <1>1, Concatenation
<1>2. CASE i > Len(s)
  <2>1. i - Len(s) \in DOMAIN t /\ i = Len(s) + (i - Len(s))
    BY <1>2, Concatenation
  <2> QED BY <2>1, Concatenation
<1> QED
  <2>1. i \in Int /\ Len(s) \in Int
    BY Concatenation
  <2> QED BY <1>1, <1>2, <2>1

\* What is left of a script after its first step keeps its properties.
LEMMA FinishedTail ==
  ASSUME NEW s \in Seq(Steps), s # << >>, NEW i \in 1 .. Len(s) - 1, FinishedFrom(s, i + 1)
  PROVE  FinishedFrom(Tail(s), i)
<1>1. PICK j \in DOMAIN s : /\ i + 1 <= j /\ s[j].do \in Waiters
                            /\ \A k \in i + 1 .. j : s[k].do \notin Saves \cup {"return"}
  BY DEF FinishedFrom
<1>2. /\ j \in 2 .. Len(s) /\ j - 1 \in DOMAIN Tail(s) /\ i <= j - 1
      /\ Tail(s)[j - 1] = s[j]
  BY <1>1, HeadAndTail
<1>3. ASSUME NEW k \in i .. j - 1
      PROVE  Tail(s)[k].do \notin Saves \cup {"return"}
  <2>1. k + 1 \in i + 1 .. j /\ k \in 1 .. Len(s) - 1
    BY <1>2
  <2>2. Tail(s)[k] = s[k + 1]
    BY <2>1, HeadAndTail
  <2> QED BY <1>1, <2>1, <2>2
<1> QED BY <1>1, <1>2, <1>3 DEF FinishedFrom

LEMMA TailKeeps ==
  ASSUME NEW s \in Seq(Steps), s # << >>
  PROVE  /\ Returns(s) => Returns(Tail(s))
         /\ Waits(s) => Waits(Tail(s))
         /\ ChecksGroups(s) => ChecksGroups(Tail(s))
         /\ \A ops, mem, cells : Uses(s, ops, mem, cells) => Uses(Tail(s), ops, mem, cells)
<1>1. \A i \in DOMAIN Tail(s) : i + 1 \in DOMAIN s /\ Tail(s)[i] = s[i + 1] /\ i \in 1 .. Len(s) - 1
  BY HeadAndTail
<1>2. Len(s) \in Nat /\ Len(Tail(s)) = Len(s) - 1
  BY HeadAndTail
<1>3. Returns(s) => Returns(Tail(s))
  BY <1>1, <1>2 DEF Returns
<1>4. Waits(s) => Waits(Tail(s))
  BY <1>1, FinishedTail DEF Waits
<1>5. ASSUME ChecksGroups(s), NEW i \in DOMAIN Tail(s), Tail(s)[i].do = "enqueue"
      PROVE  i + 1 \in DOMAIN Tail(s) /\ Tail(s)[i + 1].do = "check"
  <2>1. i + 1 + 1 \in DOMAIN s /\ s[i + 1 + 1].do = "check"
    BY <1>1, <1>5 DEF ChecksGroups
  <2>2. i + 1 \in 1 .. Len(s) - 1
    BY <1>1, <2>1, HeadAndTail
  <2> QED BY <2>1, <2>2, HeadAndTail
<1>6. \A ops, mem, cells : Uses(s, ops, mem, cells) => Uses(Tail(s), ops, mem, cells)
  BY <1>1 DEF Uses
<1> QED BY <1>3, <1>4, <1>5, <1>6 DEF ChecksGroups

LEMMA ReadsRightTail ==
  ASSUME NEW s \in Seq(Steps), s # << >>, ReadsRight(s)
  PROVE  ReadsRight(Tail(s))
<1> SUFFICES ASSUME NEW p \in DOMAIN Tail(s), Tail(s)[p].do \in Saves,
                    NEW i \in 1 .. p - 1, Unsaved(Tail(s), i, p)
             PROVE  \A cmd \in Posted(Tail(s)[i]) : \A c \in cmd.cells :
                      ReadAs(cmd) = SourceOf(Tail(s)[p].do, c)
  BY DEF ReadsRight
<1>1. /\ p \in 1 .. Len(s) - 1 /\ p + 1 \in DOMAIN s /\ Tail(s)[p] = s[p + 1]
      /\ i + 1 \in 1 .. p + 1 - 1 /\ Tail(s)[i] = s[i + 1]
  BY HeadAndTail
<1>2. Unsaved(s, i + 1, p + 1)
  <2> SUFFICES ASSUME NEW k \in i + 1 .. p + 1 - 1
               PROVE  s[k].do \notin Saves
    BY DEF Unsaved
  <2>1. k - 1 \in i .. p - 1 /\ k - 1 \in 1 .. Len(s) - 1 /\ (k - 1) + 1 = k
    BY <1>1
  <2>2. Tail(s)[k - 1] = s[k]
    BY <2>1, HeadAndTail
  <2> QED BY <2>1, <2>2 DEF Unsaved
<1>3. p + 1 \in DOMAIN s /\ s[p + 1].do \in Saves /\ i + 1 \in 1 .. p + 1 - 1
  BY <1>1
<1>4. \A cmd \in Posted(s[i + 1]) : \A c \in cmd.cells : ReadAs(cmd) = SourceOf(s[p + 1].do, c)
  BY ONLY ReadsRight(s), <1>2, <1>3 DEF ReadsRight
<1> QED BY <1>1, <1>4

\* ... and transfers what the script did, but for its first step.
LEMMA ComingTail ==
  ASSUME NEW s \in Seq(Steps), s # << >>, NEW p \in 1 .. Len(s) - 1, NEW c,
         Coming(s, 1, p + 1, c)
  PROVE  \/ Coming(Tail(s), 1, p, c)
         \/ Unsaved(s, 1, p + 1) /\ \E cmd \in Posted(s[1]) : c \in cmd.cells
<1>1. PICK k \in 1 .. p + 1 - 1 : Unsaved(s, k, p + 1) /\ \E cmd \in Posted(s[k]) : c \in cmd.cells
  BY DEF Coming
<1>2. CASE k = 1
  BY <1>1, <1>2
<1>3. CASE k # 1
  <2>1. k - 1 \in 1 .. p - 1 /\ k - 1 \in 1 .. Len(s) - 1 /\ (k - 1) + 1 = k
    BY <1>3, HeadAndTail
  <2>2. Tail(s)[k - 1] = s[k]
    BY <2>1, HeadAndTail
  <2>3. Unsaved(Tail(s), k - 1, p)
    <3> SUFFICES ASSUME NEW j \in k - 1 .. p - 1
                 PROVE  Tail(s)[j].do \notin Saves
      BY DEF Unsaved
    <3>1. j + 1 \in k .. p + 1 - 1 /\ j \in 1 .. Len(s) - 1
      BY <2>1, HeadAndTail
    <3>2. Tail(s)[j] = s[j + 1]
      BY <3>1, HeadAndTail
    <3> QED BY <1>1, <3>1, <3>2 DEF Unsaved
  <2> QED BY <1>1, <2>1, <2>2, <2>3 DEF Coming
<1> QED BY <1>2, <1>3

\* A save that is not the first is after the first step.
LEMMA UnsavedTail ==
  ASSUME NEW s \in Seq(Steps), s # << >>, NEW p \in 1 .. Len(s) - 1
  PROVE  Unsaved(s, 1, p + 1) <=> Unsaved(Tail(s), 1, p) /\ s[1].do \notin Saves
<1>1. ASSUME Unsaved(s, 1, p + 1)
      PROVE  Unsaved(Tail(s), 1, p) /\ s[1].do \notin Saves
  <2>1. 1 \in 1 .. p + 1 - 1
    OBVIOUS
  <2>2. ASSUME NEW j \in 1 .. p - 1
        PROVE  Tail(s)[j].do \notin Saves
    <3>1. j + 1 \in 1 .. p + 1 - 1 /\ j \in 1 .. Len(s) - 1
      BY HeadAndTail
    <3> QED BY <1>1, <3>1, HeadAndTail DEF Unsaved
  <2> QED BY <1>1, <2>1, <2>2 DEF Unsaved
<1>2. ASSUME Unsaved(Tail(s), 1, p), s[1].do \notin Saves, NEW k \in 1 .. p + 1 - 1
      PROVE  s[k].do \notin Saves
  <2>1. CASE k = 1
    BY <1>2, <2>1
  <2>2. CASE k # 1
    <3>1. k - 1 \in 1 .. p - 1 /\ k - 1 \in 1 .. Len(s) - 1 /\ (k - 1) + 1 = k
      BY <2>2, HeadAndTail
    <3>2. Tail(s)[k - 1] = s[k]
      BY <3>1, HeadAndTail
    <3> QED BY <1>2, <3>1, <3>2 DEF Unsaved
  <2> QED BY <2>1, <2>2
<1> QED BY <1>1, <1>2 DEF Unsaved

-----------------------------------------------------------------------------
(* Putting scripts together *)

LEMMA StepsTyped ==
  /\ \A do \in {"check", "repackage", "return", "glFinish"} \cup Waiters \cup Saves :
       /\ <<Step(do)>> \in Seq(Steps) /\ Step(do).do = do
       /\ Len(<<Step(do)>>) = 1 /\ <<Step(do)>>[1] = Step(do) /\ Posted(Step(do)) = {}
  /\ \A cmds \in Seq(Commands) : Enqueue(cmds) \in Steps /\ Posted(Enqueue(cmds)) = Range(cmds)
<1>1. << >> \in Seq(Commands)
  BY EmptySeq
<1>2. ASSUME NEW do \in {"check", "repackage", "return", "glFinish"} \cup Waiters \cup Saves
      PROVE  /\ <<Step(do)>> \in Seq(Steps) /\ Step(do).do = do
             /\ Len(<<Step(do)>>) = 1 /\ <<Step(do)>>[1] = Step(do) /\ Posted(Step(do)) = {}
  <2>1. Step(do) \in Steps /\ Step(do).do = do /\ do # "enqueue"
    BY <1>1 DEF Step, Steps, Waiters, Saves
  <2> QED BY <2>1 DEF Posted
<1>3. ASSUME NEW cmds \in Seq(Commands)
      PROVE  Enqueue(cmds) \in Steps /\ Posted(Enqueue(cmds)) = Range(cmds)
  BY <1>3 DEF Enqueue, Steps, Posted
<1> QED BY <1>2, <1>3

LEMMA JoinKeeps ==
  ASSUME NEW s \in Seq(Steps), NEW t \in Seq(Steps)
  PROVE  /\ Waits(s) /\ Waits(t) => Waits(s \o t)
         /\ ChecksGroups(s) /\ ChecksGroups(t) => ChecksGroups(s \o t)
         /\ \A ops, mem, cells :
              Uses(s, ops, mem, cells) /\ Uses(t, ops, mem, cells) => Uses(s \o t, ops, mem, cells)
         /\ FinishedFrom(s, 1) => FinishedFrom(s \o t, 1)
<1> DEFINE u == s \o t
<1>1. /\ u \in Seq(Steps) /\ Len(s) \in Nat /\ Len(t) \in Nat /\ Len(u) = Len(s) + Len(t)
      /\ DOMAIN s = 1 .. Len(s) /\ DOMAIN t = 1 .. Len(t) /\ DOMAIN u = 1 .. Len(s) + Len(t)
      /\ \A i \in 1 .. Len(s) : u[i] = s[i]
      /\ \A i \in 1 .. Len(t) : u[Len(s) + i] = t[i]
  BY Concatenation
<1>2. \A i \in DOMAIN u : \/ i \in DOMAIN s /\ u[i] = s[i]
                          \/ \E j \in DOMAIN t : i = Len(s) + j /\ u[i] = t[j]
  BY PartOf
<1> HIDE DEF u
<1>3. ASSUME NEW i \in DOMAIN s, FinishedFrom(s, i)
      PROVE  FinishedFrom(u, i)
  <2>1. PICK j \in DOMAIN s : /\ i <= j /\ s[j].do \in Waiters
                              /\ \A k \in i .. j : s[k].do \notin Saves \cup {"return"}
    BY <1>3 DEF FinishedFrom
  <2>2. j \in DOMAIN u /\ u[j] = s[j] /\ \A k \in i .. j : u[k] = s[k]
    BY <1>1
  <2> QED BY <2>1, <2>2 DEF FinishedFrom
<1>4. ASSUME NEW i \in DOMAIN t, FinishedFrom(t, i)
      PROVE  FinishedFrom(u, Len(s) + i)
  <2>1. PICK j \in DOMAIN t : /\ i <= j /\ t[j].do \in Waiters
                              /\ \A k \in i .. j : t[k].do \notin Saves \cup {"return"}
    BY <1>4 DEF FinishedFrom
  <2>2. Len(s) + j \in DOMAIN u /\ u[Len(s) + j] = t[j] /\ Len(s) + i <= Len(s) + j
    BY <1>1, <2>1
  <2>3. ASSUME NEW k \in Len(s) + i .. Len(s) + j
        PROVE  u[k].do \notin Saves \cup {"return"}
    <3>1. k - Len(s) \in i .. j /\ k - Len(s) \in 1 .. Len(t) /\ Len(s) + (k - Len(s)) = k
      BY <1>1
    <3>2. u[k] = t[k - Len(s)]
      BY <1>1, <3>1
    <3> QED BY <2>1, <3>1, <3>2
  <2> QED BY <2>1, <2>2, <2>3 DEF FinishedFrom
<1>5. ASSUME Waits(s), Waits(t)
      PROVE  Waits(u)
  BY <1>2, <1>3, <1>4, <1>5 DEF Waits
<1>6. ASSUME ChecksGroups(s), ChecksGroups(t), NEW i \in DOMAIN u, u[i].do = "enqueue"
      PROVE  i + 1 \in DOMAIN u /\ u[i + 1].do = "check"
  <2>1. CASE i \in DOMAIN s /\ u[i] = s[i]
    <3>1. i + 1 \in DOMAIN s /\ s[i + 1].do = "check"
      BY <1>6, <2>1 DEF ChecksGroups
    <3> QED BY <1>1, <3>1
  <2>2. ASSUME NEW j \in DOMAIN t, i = Len(s) + j, u[i] = t[j]
        PROVE  i + 1 \in DOMAIN u /\ u[i + 1].do = "check"
    <3>1. j + 1 \in DOMAIN t /\ t[j + 1].do = "check"
      BY <1>6, <2>2 DEF ChecksGroups
    <3>2. j + 1 \in 1 .. Len(t) /\ i + 1 = Len(s) + (j + 1)
      BY <1>1, <2>2, <3>1
    <3> QED BY <1>1, <3>1, <3>2
  <2> QED BY <1>2, <2>1, <2>2
<1>7. \A ops, mem, cells :
        Uses(s, ops, mem, cells) /\ Uses(t, ops, mem, cells) => Uses(u, ops, mem, cells)
  BY <1>2 DEF Uses
<1>8. ASSUME FinishedFrom(s, 1)
      PROVE  FinishedFrom(u, 1)
  <2>1. 1 \in DOMAIN s
    BY <1>1, <1>8 DEF FinishedFrom
  <2> QED BY <1>3, <1>8, <2>1
<1> QED BY <1>5, <1>6, <1>7, <1>8 DEF ChecksGroups, u

\* A step that enqueues nothing asks for nothing.
LEMMA StepKeeps ==
  ASSUME NEW do \in {"check", "repackage", "return", "glFinish"} \cup Waiters \cup Saves
  PROVE  /\ Waits(<<Step(do)>>) /\ ChecksGroups(<<Step(do)>>)
         /\ \A ops, mem, cells : Uses(<<Step(do)>>, ops, mem, cells)
<1>1. DOMAIN <<Step(do)>> = {1} /\ <<Step(do)>>[1] = Step(do)
  OBVIOUS
<1>2. Posted(Step(do)) = {} /\ Step(do).do # "enqueue"
  BY StepsTyped DEF Waiters, Saves
<1> QED BY <1>1, <1>2 DEF Waits, ChecksGroups, Uses

\* The script of a call, with its return.
CompleteOf(s, script) ==
  /\ script \in Seq(Steps) /\ script # << >> /\ Len(script) = Len(s) + 1
  /\ Returns(script)
  /\ Waits(s) => Waits(script)
  /\ ChecksGroups(s) => ChecksGroups(script)
  /\ \A ops, mem, cells : Uses(s, ops, mem, cells) => Uses(script, ops, mem, cells)
  /\ FinishedFrom(s, 1) => FinishedFrom(script, 1)
  /\ \A i \in DOMAIN s : script[i] = s[i]

LEMMA CompleteScript ==
  ASSUME NEW s \in Seq(Steps), \A i \in DOMAIN s : s[i].do # "return"
  PROVE  CompleteOf(s, s \o <<Step("return")>>)
<1>1. /\ <<Step("return")>> \in Seq(Steps)
      /\ Len(<<Step("return")>>) = 1 /\ <<Step("return")>>[1].do = "return"
      /\ Waits(<<Step("return")>>) /\ ChecksGroups(<<Step("return")>>)
      /\ \A ops, mem, cells : Uses(<<Step("return")>>, ops, mem, cells)
  BY StepsTyped, StepKeeps
<1> SUFFICES ASSUME NEW r \in Seq(Steps), Len(r) = 1, r[1].do = "return",
                    Waits(r), ChecksGroups(r),
                    \A ops, mem, cells : Uses(r, ops, mem, cells)
             PROVE  CompleteOf(s, s \o r)
  BY <1>1
<1> DEFINE script == s \o r
<1>2. /\ script \in Seq(Steps)
      /\ Len(s) \in Nat /\ Len(r) \in Nat /\ Len(script) = Len(s) + Len(r)
      /\ DOMAIN s = 1 .. Len(s) /\ DOMAIN r = 1 .. Len(r)
      /\ DOMAIN script = 1 .. Len(s) + Len(r)
      /\ \A i \in 1 .. Len(s) : script[i] = s[i]
      /\ \A i \in 1 .. Len(r) : script[Len(s) + i] = r[i]
  BY ONLY s \in Seq(Steps), r \in Seq(Steps), Concatenation
<1>3. /\ Waits(s) => Waits(script)
      /\ ChecksGroups(s) => ChecksGroups(script)
      /\ \A ops, mem, cells : Uses(s, ops, mem, cells) => Uses(script, ops, mem, cells)
      /\ FinishedFrom(s, 1) => FinishedFrom(script, 1)
  BY JoinKeeps
<1> HIDE DEF script
<1>4. 1 \in 1 .. Len(r) /\ script[Len(s) + 1] = r[1] /\ script # << >>
  BY <1>2, EmptySeq
<1>5. Returns(script)
  BY <1>2, <1>4 DEF Returns
<1>7. CompleteOf(s, script)
  BY <1>2, <1>3, <1>4, <1>5 DEF CompleteOf
<1> QED BY <1>7 DEF script

-----------------------------------------------------------------------------
(* The transfers of a data set *)

\* Checked groups of non-blocking transfers to or from local arrays.
LocalCommand(cmd, op, valueOp, d) ==
  /\ cmd \in Commands /\ cmd.mem = "local" /\ cmd.cells \subseteq AllocateMemory(d)
  /\ cmd.op \in {op, valueOp}
  /\ \A c \in cmd.cells : cmd.op = IF c[1] = "data" THEN valueOp ELSE op

LocalGroups(s, op, valueOp, d) ==
  /\ s \in Seq(Steps) /\ ChecksGroups(s)
  /\ \A i \in DOMAIN s :
       /\ s[i].do \in {"enqueue", "check"}
       /\ \A cmd \in Posted(s[i]) : LocalCommand(cmd, op, valueOp, d)

Covers(s, cells) ==
  \A c \in cells : \E i \in DOMAIN s : \E cmd \in Posted(s[i]) : c \in cmd.cells

LEMMA JoinGroups ==
  ASSUME NEW s, NEW t, NEW op, NEW valueOp, NEW d, NEW C, NEW D,
         LocalGroups(s, op, valueOp, d), LocalGroups(t, op, valueOp, d),
         Covers(s, C), Covers(t, D)
  PROVE  LocalGroups(s \o t, op, valueOp, d) /\ Covers(s \o t, C \cup D)
<1>1. s \in Seq(Steps) /\ t \in Seq(Steps) /\ ChecksGroups(s) /\ ChecksGroups(t)
  BY DEF LocalGroups
<1>2. s \o t \in Seq(Steps) /\ ChecksGroups(s \o t)
  BY <1>1, Concatenation, JoinKeeps
<1>3. ASSUME NEW i \in DOMAIN (s \o t)
      PROVE  /\ (s \o t)[i].do \in {"enqueue", "check"}
             /\ \A cmd \in Posted((s \o t)[i]) : LocalCommand(cmd, op, valueOp, d)
  BY <1>1, PartOf DEF LocalGroups
<1>4. /\ \A i \in DOMAIN s : i \in DOMAIN (s \o t) /\ (s \o t)[i] = s[i]
      /\ \A i \in DOMAIN t : Len(s) + i \in DOMAIN (s \o t) /\ (s \o t)[Len(s) + i] = t[i]
  <2>1. /\ s \o t \in Seq(Steps)
        /\ Len(s) \in Nat /\ Len(t) \in Nat /\ Len(s \o t) = Len(s) + Len(t)
        /\ DOMAIN s = 1 .. Len(s) /\ DOMAIN t = 1 .. Len(t)
        /\ DOMAIN (s \o t) = 1 .. Len(s) + Len(t)
        /\ \A i \in 1 .. Len(s) : (s \o t)[i] = s[i]
        /\ \A i \in 1 .. Len(t) : (s \o t)[Len(s) + i] = t[i]
    BY ONLY <1>1, Concatenation
  <2> QED BY ONLY <2>1
<1>5. Covers(s \o t, C \cup D)
  BY <1>4, Zenon DEF Covers
<1> QED BY <1>2, <1>3, <1>5 DEF LocalGroups

LEMMA NoGroup ==
  ASSUME NEW op, NEW valueOp, NEW d
  PROVE  LocalGroups(<< >>, op, valueOp, d) /\ Covers(<< >>, {})
<1>1. << >> \in Seq(Steps) /\ DOMAIN << >> = {}
  BY EmptySeq
<1> QED BY <1>1 DEF LocalGroups, Covers, ChecksGroups

LEMMA OneGroup ==
  ASSUME NEW op, NEW valueOp, NEW d, NEW cmds \in Seq(Commands), NEW C,
         \A cmd \in Range(cmds) : LocalCommand(cmd, op, valueOp, d),
         \A c \in C : \E cmd \in Range(cmds) : c \in cmd.cells
  PROVE  LocalGroups(Checked(cmds), op, valueOp, d) /\ Covers(Checked(cmds), C)
<1>1. /\ Enqueue(cmds) \in Steps /\ Enqueue(cmds).do = "enqueue"
      /\ Posted(Enqueue(cmds)) = Range(cmds)
  BY StepsTyped DEF Enqueue
<1>2. Step("check") \in Steps /\ Step("check").do = "check" /\ Posted(Step("check")) = {}
  <2>1. << >> \in Seq(Commands)
    BY EmptySeq
  <2> QED BY <2>1, StepsTyped DEF Step, Steps
<1> SUFFICES ASSUME NEW a \in Steps, NEW b \in Steps,
                    a.do = "enqueue", b.do = "check", Posted(a) = Range(cmds), Posted(b) = {}
             PROVE  LocalGroups(<<a, b>>, op, valueOp, d) /\ Covers(<<a, b>>, C)
  BY <1>1, <1>2 DEF Checked
<1>3. /\ <<a, b>> \in Seq(Steps) /\ DOMAIN <<a, b>> = {1, 2}
      /\ <<a, b>>[1] = a /\ <<a, b>>[2] = b
  OBVIOUS
<1>4. ChecksGroups(<<a, b>>)
  BY <1>3 DEF ChecksGroups
<1>5. Covers(<<a, b>>, C)
  BY <1>3 DEF Covers
<1> QED BY <1>3, <1>4, <1>5 DEF LocalGroups

\* The layout is one of natural numbers, and a data set is in its buffers.
LEMMA LayoutTyped ==
  ASSUME NEW d \in Count
  PROVE  /\ d.nVis \in Nat /\ d.nV2 \in Nat /\ d.nT3 \in Nat /\ d.nUV \in Nat
         /\ NumData(d) = 2 * d.nVis + d.nV2 + 2 * d.nT3 /\ NumData(d) \in Nat
         /\ CountOf(d).Vis = d.nVis /\ CountOf(d).V2 = d.nV2 /\ CountOf(d).T3 = d.nT3
         /\ Offset(d).Vis = 0 /\ Offset(d).V2 = 2 * d.nVis
         /\ Offset(d).T3 = 2 * d.nVis + d.nV2
         /\ Floats("Vis", d) = 2 * d.nVis /\ Floats("V2", d) = d.nV2
         /\ Floats("T3", d) = 2 * d.nT3
<1>1. d.nVis \in Nat /\ d.nV2 \in Nat /\ d.nT3 \in Nat /\ d.nUV \in Nat
  BY DEF Count
<1>2. NumData(d) = 2 * d.nVis + d.nV2 + 2 * d.nT3 /\ NumData(d) \in Nat
  BY <1>1 DEF NumData, TotalBufferSize
<1>3. CountOf(d).Vis = d.nVis /\ CountOf(d).V2 = d.nV2 /\ CountOf(d).T3 = d.nT3
  BY DEF CountOf
<1>4. /\ Offset(d).Vis = 0 /\ Offset(d).V2 = 2 * d.nVis
      /\ Offset(d).T3 = 2 * d.nVis + d.nV2
  BY DEF Offset, CalculateOffset_Vis, CalculateOffset_V2, CalculateOffset_T3
<1>5. /\ CountOf(d)["Vis"] = d.nVis /\ CountOf(d)["V2"] = d.nV2 /\ CountOf(d)["T3"] = d.nT3
  BY DEF CountOf
<1>6. /\ Floats("Vis", d) = 2 * d.nVis /\ Floats("V2", d) = d.nV2
      /\ Floats("T3", d) = 2 * d.nT3
  BY <1>1, <1>5 DEF Floats
<1> QED BY <1>1, <1>2, <1>3, <1>4, <1>6

\* An element of AllocateMemory, case by case.
LEMMA ElementOf ==
  ASSUME NEW d \in Count
  PROVE  /\ \A b, n : <<b, n>> \in AllocateMemory(d) <=>
              \/ b = "uv" /\ n = 0
              \/ b \in {"data", "err"} /\ n \in 0 .. NumData(d) - 1
              \/ b = "Vis" /\ n \in 0 .. d.nVis - 1
              \/ b = "V2" /\ n \in 0 .. d.nV2 - 1
              \/ b \in {"T3", "sign"} /\ n \in 0 .. d.nT3 - 1
         /\ \A c \in AllocateMemory(d) : c = <<c[1], c[2]>>
<1> DEFINE U == UNION {Elements(kind, 0, CountOf(d)[kind]) : kind \in Kinds}
<1>1. U = Elements("Vis", 0, d.nVis) \cup Elements("V2", 0, d.nV2) \cup Elements("T3", 0, d.nT3)
  <2>1. CountOf(d)["Vis"] = d.nVis /\ CountOf(d)["V2"] = d.nV2 /\ CountOf(d)["T3"] = d.nT3
    BY DEF CountOf
  <2> QED BY <2>1 DEF Kinds
<1>a. AllocateMemory(d) =
        {<<"uv", 0>>} \cup Elements("data", 0, NumData(d)) \cup Elements("err", 0, NumData(d))
        \cup U \cup Elements("sign", 0, d.nT3)
  BY Zenon DEF AllocateMemory, UVPoints
<1> HIDE DEF U
<1>2. AllocateMemory(d) =
        {<<"uv", 0>>} \cup Elements("data", 0, NumData(d)) \cup Elements("err", 0, NumData(d))
        \cup (Elements("Vis", 0, d.nVis) \cup Elements("V2", 0, d.nV2) \cup Elements("T3", 0, d.nT3))
        \cup Elements("sign", 0, d.nT3)
  BY <1>1, <1>a
<1>3. \A b, m : Elements(b, 0, m) = {b} \X (0 .. 0 + m - 1)
  BY DEF Elements
<1>4. d.nVis \in Nat /\ d.nV2 \in Nat /\ d.nT3 \in Nat /\ NumData(d) \in Nat
  BY LayoutTyped
<1>5. \A b : \A m \in Nat : Elements(b, 0, m) = {b} \X (0 .. m - 1)
  BY <1>3
<1>6. AllocateMemory(d) =
        {<<"uv", 0>>} \cup ({"data"} \X (0 .. NumData(d) - 1)) \cup ({"err"} \X (0 .. NumData(d) - 1))
        \cup (({"Vis"} \X (0 .. d.nVis - 1)) \cup ({"V2"} \X (0 .. d.nV2 - 1))
              \cup ({"T3"} \X (0 .. d.nT3 - 1)))
        \cup ({"sign"} \X (0 .. d.nT3 - 1))
  BY <1>2, <1>4, <1>5
<1> QED BY <1>6

LEMMA AllocatedCells ==
  ASSUME NEW d \in Count
  PROVE  AllocateMemory(d) \subseteq Cells
<1> SUFFICES ASSUME NEW c \in AllocateMemory(d)
             PROVE  c \in Cells
  OBVIOUS
<1>1. c = <<c[1], c[2]>> /\ <<c[1], c[2]>> \in AllocateMemory(d)
  BY ElementOf
<1>2. d.nVis \in Nat /\ d.nV2 \in Nat /\ d.nT3 \in Nat /\ NumData(d) \in Nat
  BY LayoutTyped
<1>3. /\ c[1] \in {"uv", "data", "err", "Vis", "V2", "T3", "sign"} /\ c[2] \in Nat
  BY <1>1, <1>2, ElementOf
<1> QED BY <1>1, <1>3 DEF Cells

\* What the segment of one kind transfers.
CellsOf(kind, d) ==
  Elements("data", Offset(d)[kind], Floats(kind, d))
  \cup Elements("err", Offset(d)[kind], Floats(kind, d))
  \cup Elements(kind, 0, CountOf(d)[kind])
  \cup (IF kind = "T3" THEN Elements("sign", 0, d.nT3) ELSE {})

LEMMA ElementsAre ==
  ASSUME NEW b, NEW o, NEW n
  PROVE  \A x, y : <<x, y>> \in Elements(b, o, n) <=> x = b /\ y \in o .. o + n - 1
BY DEF Elements

\* Each segment is inside the buffers, wherever the kinds before it end.
LEMMA CellsInside ==
  ASSUME NEW d \in Count, NEW kind \in Kinds
  PROVE  /\ CellsOf(kind, d) \subseteq AllocateMemory(d)
         /\ Offset(d)[kind] \in Nat /\ Floats(kind, d) \in Nat /\ CountOf(d)[kind] \in Nat
         /\ CountOf(d)[kind] = 0 => CellsOf(kind, d) = {}
<1> DEFINE o == Offset(d)[kind]
           n == Floats(kind, d)
           m == CountOf(d)[kind]
<1>1. d.nVis \in Nat /\ d.nV2 \in Nat /\ d.nT3 \in Nat
  BY LayoutTyped
<1>2. /\ o \in Nat /\ n \in Nat /\ m \in Nat /\ o + n <= NumData(d)
      /\ m = 0 => n = 0
  <2>1. CASE kind = "Vis"
    <3>1. o = 0 /\ n = 2 * d.nVis /\ m = d.nVis
      BY <2>1, LayoutTyped
    <3> HIDE DEF o, n, m
    <3> QED BY <1>1, <3>1, LayoutTyped
  <2>2. CASE kind = "V2"
    <3>1. o = 2 * d.nVis /\ n = d.nV2 /\ m = d.nV2
      BY <2>2, LayoutTyped
    <3> HIDE DEF o, n, m
    <3> QED BY <1>1, <3>1, LayoutTyped
  <2>3. CASE kind = "T3"
    <3>1. o = 2 * d.nVis + d.nV2 /\ n = 2 * d.nT3 /\ m = d.nT3
      BY <2>3, LayoutTyped
    <3> HIDE DEF o, n, m
    <3> QED BY <1>1, <3>1, LayoutTyped
  <2> QED BY <2>1, <2>2, <2>3 DEF Kinds
<1>3. /\ kind = "Vis" => m = d.nVis
      /\ kind = "V2" => m = d.nV2
      /\ kind = "T3" => m = d.nT3
  BY LayoutTyped
<1>4. /\ CellsOf(kind, d) = Elements("data", o, n) \cup Elements("err", o, n) \cup Elements(kind, 0, m)
                            \cup (IF kind = "T3" THEN Elements("sign", 0, d.nT3) ELSE {})
      /\ NumData(d) \in Nat
  BY LayoutTyped DEF CellsOf
<1> HIDE DEF o, n, m
<1>5. ASSUME NEW c \in CellsOf(kind, d)
      PROVE  c \in AllocateMemory(d)
  <2>1. CASE c \in Elements("data", o, n) \cup Elements("err", o, n)
    <3>1. PICK b \in {"data", "err"}, k \in o .. o + n - 1 : c = <<b, k>>
      BY <2>1 DEF Elements
    <3>2. k \in 0 .. NumData(d) - 1
      BY <1>2, <1>4
    <3> QED BY <3>1, <3>2, ElementOf
  <2>2. CASE c \in Elements(kind, 0, m)
    <3>1. PICK k \in 0 .. m - 1 : c = <<kind, k>>
      BY <1>2, <2>2 DEF Elements
    <3>2. \/ kind = "Vis" /\ k \in 0 .. d.nVis - 1
          \/ kind = "V2" /\ k \in 0 .. d.nV2 - 1
          \/ kind = "T3" /\ k \in 0 .. d.nT3 - 1
      BY <1>3, <3>1 DEF Kinds
    <3> QED BY <3>1, <3>2, ElementOf
  <2>3. CASE kind = "T3" /\ c \in Elements("sign", 0, d.nT3)
    <3>1. PICK k \in 0 .. d.nT3 - 1 : c = <<"sign", k>>
      BY <1>1, <2>3 DEF Elements
    <3> QED BY <3>1, ElementOf
  <2> QED BY <1>4, <2>1, <2>2, <2>3
<1>6. ASSUME m = 0
      PROVE  CellsOf(kind, d) = {}
  <2>1. n = 0 /\ (kind = "T3" => d.nT3 = 0)
    BY <1>2, <1>3, <1>6
  <2>2. \A b, l \in Nat : Elements(b, l, 0) = {}
    BY DEF Elements
  <2>3. \A b : \A l \in Nat : Elements(b, l, 0) = {}
    BY DEF Elements
  <2> QED BY <1>2, <1>4, <1>6, <2>1, <2>3
<1> QED BY <1>2, <1>5, <1>6 DEF o, n, m

\* Together they are the whole.
LEMMA CellsTogether ==
  ASSUME NEW d \in Count
  PROVE  AllocateMemory(d) =
           (({<<"uv", 0>>} \cup CellsOf("Vis", d)) \cup CellsOf("V2", d)) \cup CellsOf("T3", d)
<1>1. d.nVis \in Nat /\ d.nV2 \in Nat /\ d.nT3 \in Nat
  BY LayoutTyped
<1>2. ASSUME NEW c \in AllocateMemory(d)
      PROVE  c \in {<<"uv", 0>>} \cup CellsOf("Vis", d) \cup CellsOf("V2", d) \cup CellsOf("T3", d)
  <2>1. c = <<c[1], c[2]>> /\ <<c[1], c[2]>> \in AllocateMemory(d)
    BY ElementOf
  <2>2. PICK b, n : c = <<b, n>> /\ <<b, n>> \in AllocateMemory(d)
    BY <2>1
  <2>3. CASE b = "uv" /\ n = 0
    BY <2>2, <2>3
  <2>4. CASE b \in {"data", "err"} /\ n \in 0 .. NumData(d) - 1
    <3>1. n \in Int /\ 0 <= n /\ n < 2 * d.nVis + d.nV2 + 2 * d.nT3
      BY <1>1, <2>4, LayoutTyped
    <3>2. CASE n < 2 * d.nVis
      <4>1. n \in Offset(d)["Vis"] .. Offset(d)["Vis"] + Floats("Vis", d) - 1
        BY <1>1, <3>1, <3>2, LayoutTyped
      <4> QED BY <2>2, <2>4, <4>1, ElementsAre DEF CellsOf
    <3>3. CASE 2 * d.nVis <= n /\ n < 2 * d.nVis + d.nV2
      <4>1. n \in Offset(d)["V2"] .. Offset(d)["V2"] + Floats("V2", d) - 1
        BY <1>1, <3>1, <3>3, LayoutTyped
      <4> QED BY <2>2, <2>4, <4>1, ElementsAre DEF CellsOf
    <3>4. CASE 2 * d.nVis + d.nV2 <= n
      <4>1. n \in Offset(d)["T3"] .. Offset(d)["T3"] + Floats("T3", d) - 1
        BY <1>1, <3>1, <3>4, LayoutTyped
      <4> QED BY <2>2, <2>4, <4>1, ElementsAre DEF CellsOf
    <3> QED BY <1>1, <3>1, <3>2, <3>3, <3>4
  <2>5. CASE \/ b = "Vis" /\ n \in 0 .. d.nVis - 1
             \/ b = "V2" /\ n \in 0 .. d.nV2 - 1
             \/ b = "T3" /\ n \in 0 .. d.nT3 - 1
    <3>1. b \in {"Vis", "V2", "T3"} /\ n \in 0 .. CountOf(d)[b] - 1
      BY <2>5 DEF CountOf
    <3>2. CountOf(d)[b] \in Nat
      BY <1>1, <3>1 DEF CountOf
    <3>3. n \in 0 .. 0 + CountOf(d)[b] - 1
      BY <3>1, <3>2
    <3>4. c \in CellsOf(b, d)
      BY <2>2, <3>3, ElementsAre DEF CellsOf
    <3> QED BY <3>1, <3>4
  <2>6. CASE b = "sign" /\ n \in 0 .. d.nT3 - 1
    <3>1. n \in 0 .. 0 + d.nT3 - 1
      BY <1>1, <2>6
    <3> QED BY <2>2, <2>6, <3>1, ElementsAre DEF CellsOf
  <2> QED BY <2>2, <2>3, <2>4, <2>5, <2>6, ElementOf
<1>3. /\ CellsOf("Vis", d) \subseteq AllocateMemory(d)
      /\ CellsOf("V2", d) \subseteq AllocateMemory(d)
      /\ CellsOf("T3", d) \subseteq AllocateMemory(d)
  BY CellsInside DEF Kinds
<1>4. <<"uv", 0>> \in AllocateMemory(d)
  BY ElementOf
<1> QED BY <1>2, <1>3, <1>4

\* A part of a segment is one command.
LEMMA PartIsLocal ==
  ASSUME NEW d \in Count, NEW op \in Transferring, NEW valueOp \in Transferring,
         NEW b, NEW o, NEW n, Elements(b, o, n) \subseteq AllocateMemory(d)
  PROVE  LocalCommand(Command(IF b = "data" THEN valueOp ELSE op, Elements(b, o, n), "local"),
                      op, valueOp, d)
<1>1. Elements(b, o, n) \subseteq Cells
  BY AllocatedCells
<1>2. \A c \in Elements(b, o, n) : c[1] = b
  BY DEF Elements
<1> DEFINE cells == Elements(b, o, n)
           which == IF b = "data" THEN valueOp ELSE op
           cmd == Command(which, cells, "local")
<1>3. cmd \in Commands /\ cmd.mem = "local" /\ cmd.cells = cells /\ cmd.op = which
  <2>1. which \in Transferring /\ cells \in SUBSET Cells
    BY <1>1
  <2> HIDE DEF which, cells
  <2> QED BY <2>1 DEF cmd, Command, Commands
<1>4. which \in {op, valueOp} /\ \A c \in cells : which = IF c[1] = "data" THEN valueOp ELSE op
  BY <1>2
<1> HIDE DEF cmd, which, cells
<1>5. cells \subseteq AllocateMemory(d)
  BY DEF cells
<1>6. LocalCommand(cmd, op, valueOp, d)
  BY <1>3, <1>4, <1>5 DEF LocalCommand
<1> QED BY <1>6 DEF cmd, which, cells

LEMMA SegmentIsLocal ==
  ASSUME NEW d \in Count, NEW op \in Transferring, NEW valueOp \in Transferring, NEW kind \in Kinds
  PROVE  /\ Segment(op, valueOp, kind, d) \in Seq(Commands)
         /\ \A cmd \in Range(Segment(op, valueOp, kind, d)) : LocalCommand(cmd, op, valueOp, d)
         /\ \A c \in CellsOf(kind, d) :
              \E cmd \in Range(Segment(op, valueOp, kind, d)) : c \in cmd.cells
<1> DEFINE A == Elements("data", Offset(d)[kind], Floats(kind, d))
           B == Elements("err", Offset(d)[kind], Floats(kind, d))
           C == Elements(kind, 0, CountOf(d)[kind])
           D == Elements("sign", 0, d.nT3)
           a == Command(valueOp, A, "local")
           b == Command(op, B, "local")
           c == Command(op, C, "local")
           e == Command(op, D, "local")
           rest == IF kind = "T3" THEN <<e>> ELSE << >>
<1>1. CellsOf(kind, d) = A \cup B \cup C \cup (IF kind = "T3" THEN D ELSE {})
  BY DEF CellsOf
<1>2. CellsOf(kind, d) \subseteq AllocateMemory(d)
  BY CellsInside
<1>3. A \subseteq AllocateMemory(d) /\ B \subseteq AllocateMemory(d) /\ C \subseteq AllocateMemory(d)
  BY <1>1, <1>2
<1>4. kind = "T3" => D \subseteq AllocateMemory(d)
  BY <1>1, <1>2
<1>5. LocalCommand(a, op, valueOp, d)
  BY <1>3, PartIsLocal
<1>6. LocalCommand(b, op, valueOp, d)
  <2>1. "err" # "data"
    OBVIOUS
  <2> QED BY <1>3, <2>1, PartIsLocal
<1>7. LocalCommand(c, op, valueOp, d)
  <2>1. kind # "data"
    BY DEF Kinds
  <2> QED BY <1>3, <2>1, PartIsLocal
<1>8. kind = "T3" => LocalCommand(e, op, valueOp, d)
  <2>1. "sign" # "data"
    OBVIOUS
  <2> QED BY <1>4, <2>1, PartIsLocal
<1>9. a.cells = A /\ b.cells = B /\ c.cells = C /\ e.cells = D
  BY DEF Command
<1>10. Segment(op, valueOp, kind, d) = <<a, b, c>> \o rest
  BY DEF Segment
<1> HIDE DEF A, B, C, D, a, b, c, e
<1>11. /\ <<a, b, c>> \in Seq(Commands) /\ Range(<<a, b, c>>) = {a, b, c}
  BY <1>5, <1>6, <1>7 DEF LocalCommand, Range
<1>12. /\ rest \in Seq(Commands) /\ Range(rest) = IF kind = "T3" THEN {e} ELSE {}
  <2>1. CASE kind = "T3"
    BY <1>8, <2>1 DEF LocalCommand, Range
  <2>2. CASE kind # "T3"
    <3>1. << >> \in Seq(Commands) /\ Range(<< >>) = {}
      BY EmptySeq DEF Range
    <3> QED BY <2>2, <3>1
  <2> QED BY <2>1, <2>2
<1> HIDE DEF rest
<1>13. /\ <<a, b, c>> \o rest \in Seq(Commands)
       /\ Range(<<a, b, c>> \o rest) = {a, b, c} \cup Range(rest)
  <2>1. ASSUME NEW s \in Seq(Commands), NEW t \in Seq(Commands)
        PROVE  s \o t \in Seq(Commands) /\ Range(s \o t) = Range(s) \cup Range(t)
    BY ConcatProperties, RangeConcatenation
  <2> QED BY <1>11, <1>12, <2>1
<1>14. ASSUME NEW x \in CellsOf(kind, d)
       PROVE  \E cmd \in {a, b, c} \cup Range(rest) : x \in cmd.cells
  BY <1>1, <1>9, <1>12
<1> QED BY <1>5, <1>6, <1>7, <1>8, <1>10, <1>12, <1>13, <1>14

LEMMA SegmentsAreGroups ==
  ASSUME NEW d \in Count, NEW op \in Transferring, NEW valueOp \in Transferring
  PROVE  /\ LocalGroups(Segments(op, valueOp, d), op, valueOp, d)
         /\ Covers(Segments(op, valueOp, d), AllocateMemory(d))
<1>1. ASSUME NEW kind \in Kinds
      PROVE  /\ LocalGroups(SegmentIfAny(op, valueOp, kind, d), op, valueOp, d)
             /\ Covers(SegmentIfAny(op, valueOp, kind, d), CellsOf(kind, d))
  <2>1. CASE CountOf(d)[kind] > 0
    <3>1. SegmentIfAny(op, valueOp, kind, d) = Checked(Segment(op, valueOp, kind, d))
      BY <2>1 DEF SegmentIfAny
    <3>2. ASSUME NEW cmds \in Seq(Commands),
                 \A cmd \in Range(cmds) : LocalCommand(cmd, op, valueOp, d),
                 \A c \in CellsOf(kind, d) : \E cmd \in Range(cmds) : c \in cmd.cells
          PROVE  LocalGroups(Checked(cmds), op, valueOp, d) /\ Covers(Checked(cmds), CellsOf(kind, d))
      BY <3>2, OneGroup
    <3> QED BY <3>1, <3>2, SegmentIsLocal
  <2>2. CASE ~(CountOf(d)[kind] > 0)
    <3>1. SegmentIfAny(op, valueOp, kind, d) = << >>
      BY <2>2 DEF SegmentIfAny
    <3>2. CellsOf(kind, d) = {}
      BY <2>2, CellsInside
    <3> QED BY <3>1, <3>2, NoGroup
  <2> QED BY <2>1, <2>2
<1> DEFINE uv == Checked(<<Command(op, UVPoints, "local")>>)
<1>2. LocalGroups(uv, op, valueOp, d) /\ Covers(uv, {<<"uv", 0>>})
  <2> DEFINE cmd == Command(op, UVPoints, "local")
  <2>1. UVPoints = {<<"uv", 0>>} /\ UVPoints \subseteq AllocateMemory(d) /\ UVPoints \subseteq Cells
    BY ElementOf, AllocatedCells DEF UVPoints
  <2>2. LocalCommand(cmd, op, valueOp, d) /\ cmd.cells = UVPoints
    <3>1. cmd \in Commands /\ cmd.mem = "local" /\ cmd.cells = UVPoints /\ cmd.op = op
      BY <2>1 DEF Command, Commands
    <3>2. \A c \in UVPoints : c[1] # "data"
      BY <2>1
    <3> HIDE DEF cmd
    <3> QED BY <2>1, <3>1, <3>2 DEF LocalCommand
  <2> HIDE DEF cmd
  <2>3. <<cmd>> \in Seq(Commands) /\ Range(<<cmd>>) = {cmd}
    BY <2>2 DEF LocalCommand, Range
  <2>4. \A x \in Range(<<cmd>>) : LocalCommand(x, op, valueOp, d)
    BY <2>2, <2>3
  <2>5. \A c \in {<<"uv", 0>>} : \E x \in Range(<<cmd>>) : c \in x.cells
    BY <2>1, <2>2, <2>3
  <2>6. LocalGroups(Checked(<<cmd>>), op, valueOp, d) /\ Covers(Checked(<<cmd>>), {<<"uv", 0>>})
    BY <2>3, <2>4, <2>5, OneGroup
  <2> QED BY <2>6 DEF cmd
<1> DEFINE s1 == SegmentIfAny(op, valueOp, "Vis", d)
           s2 == SegmentIfAny(op, valueOp, "V2", d)
           s3 == SegmentIfAny(op, valueOp, "T3", d)
<1>3. /\ LocalGroups(s1, op, valueOp, d) /\ Covers(s1, CellsOf("Vis", d))
      /\ LocalGroups(s2, op, valueOp, d) /\ Covers(s2, CellsOf("V2", d))
      /\ LocalGroups(s3, op, valueOp, d) /\ Covers(s3, CellsOf("T3", d))
  BY <1>1 DEF Kinds
<1>4. Segments(op, valueOp, d) = ((uv \o s1) \o s2) \o s3
  BY DEF Segments
<1> HIDE DEF uv, s1, s2, s3
<1>5. LocalGroups(uv \o s1, op, valueOp, d) /\ Covers(uv \o s1, {<<"uv", 0>>} \cup CellsOf("Vis", d))
  BY <1>2, <1>3, JoinGroups
<1>6. /\ LocalGroups((uv \o s1) \o s2, op, valueOp, d)
      /\ Covers((uv \o s1) \o s2, ({<<"uv", 0>>} \cup CellsOf("Vis", d)) \cup CellsOf("V2", d))
  BY <1>3, <1>5, JoinGroups
<1>7. /\ LocalGroups(((uv \o s1) \o s2) \o s3, op, valueOp, d)
      /\ Covers(((uv \o s1) \o s2) \o s3,
                (({<<"uv", 0>>} \cup CellsOf("Vis", d)) \cup CellsOf("V2", d)) \cup CellsOf("T3", d))
  BY <1>3, <1>6, JoinGroups
<1> QED BY <1>4, <1>7, CellsTogether

-----------------------------------------------------------------------------
(* The scripts of the calls *)

\* A part of a script whose commands use local memory and are waited for.
LocalPart(s, ops, d) ==
  /\ s \in Seq(Steps)
  /\ \A i \in DOMAIN s : s[i].do # "return"
  /\ Waits(s) /\ ChecksGroups(s) /\ Uses(s, ops, "local", AllocateMemory(d))

NoSaves(s) == \A i \in DOMAIN s : s[i].do \notin Saves

LEMMA JoinParts ==
  ASSUME NEW s, NEW t, NEW ops, NEW d, LocalPart(s, ops, d), LocalPart(t, ops, d)
  PROVE  /\ LocalPart(s \o t, ops, d)
         /\ FinishedFrom(s, 1) => FinishedFrom(s \o t, 1)
         /\ NoSaves(s) /\ NoSaves(t) => NoSaves(s \o t)
         /\ \A C : Covers(s, C) \/ Covers(t, C) => Covers(s \o t, C)
<1>1. s \in Seq(Steps) /\ t \in Seq(Steps)
  BY DEF LocalPart
<1>2. /\ s \o t \in Seq(Steps)
      /\ Len(s) \in Nat /\ Len(t) \in Nat /\ Len(s \o t) = Len(s) + Len(t)
      /\ DOMAIN s = 1 .. Len(s) /\ DOMAIN t = 1 .. Len(t)
      /\ DOMAIN (s \o t) = 1 .. Len(s) + Len(t)
      /\ \A i \in 1 .. Len(s) : (s \o t)[i] = s[i]
      /\ \A i \in 1 .. Len(t) : (s \o t)[Len(s) + i] = t[i]
  BY ONLY <1>1, Concatenation
<1>3. /\ Waits(s \o t) /\ ChecksGroups(s \o t) /\ Uses(s \o t, ops, "local", AllocateMemory(d))
      /\ FinishedFrom(s, 1) => FinishedFrom(s \o t, 1)
  BY <1>1, JoinKeeps DEF LocalPart
<1>4. /\ \A i \in DOMAIN (s \o t) : (s \o t)[i].do # "return"
      /\ NoSaves(s) /\ NoSaves(t) => NoSaves(s \o t)
  BY <1>1, PartOf DEF LocalPart, NoSaves
<1>5. /\ \A i \in DOMAIN s : i \in DOMAIN (s \o t) /\ (s \o t)[i] = s[i]
      /\ \A i \in DOMAIN t : Len(s) + i \in DOMAIN (s \o t) /\ (s \o t)[Len(s) + i] = t[i]
  BY ONLY <1>2
<1>6. \A C : Covers(s, C) \/ Covers(t, C) => Covers(s \o t, C)
  BY <1>5, Zenon DEF Covers
<1> QED BY <1>2, <1>3, <1>4, <1>6 DEF LocalPart

LEMMA StepIsPart ==
  ASSUME NEW do \in {"check", "repackage", "glFinish"} \cup Waiters \cup Saves, NEW ops, NEW d
  PROVE  /\ LocalPart(<<Step(do)>>, ops, d)
         /\ do = "finish" => FinishedFrom(<<Step(do)>>, 1)
         /\ do \notin Saves => NoSaves(<<Step(do)>>)
<1>1. /\ <<Step(do)>> \in Seq(Steps) /\ Step(do).do = do
      /\ Waits(<<Step(do)>>) /\ ChecksGroups(<<Step(do)>>)
      /\ Uses(<<Step(do)>>, ops, "local", AllocateMemory(d))
  BY StepsTyped, StepKeeps
<1>2. DOMAIN <<Step(do)>> = {1} /\ <<Step(do)>>[1] = Step(do) /\ 1 .. 1 = {1}
  OBVIOUS
<1>3. do # "return" /\ (do = "finish" => do \in Waiters /\ do \notin Saves \cup {"return"})
  BY DEF Waiters, Saves
<1> QED BY <1>1, <1>2, <1>3 DEF LocalPart, FinishedFrom, NoSaves

\* Groups and a clFinish.
LEMMA FinishedGroups ==
  ASSUME NEW s, NEW op \in Transferring, NEW valueOp \in Transferring, NEW d,
         LocalGroups(s, op, valueOp, d)
  PROVE  /\ LocalPart(s \o <<Step("finish")>>, {op, valueOp}, d)
         /\ FinishedFrom(s \o <<Step("finish")>>, 1) /\ NoSaves(s \o <<Step("finish")>>)
         /\ \A C : Covers(s, C) => Covers(s \o <<Step("finish")>>, C)
         /\ \A i \in DOMAIN (s \o <<Step("finish")>>) :
              \A cmd \in Posted((s \o <<Step("finish")>>)[i]) : LocalCommand(cmd, op, valueOp, d)
<1>1. /\ <<Step("finish")>> \in Seq(Steps) /\ Len(<<Step("finish")>>) = 1
      /\ <<Step("finish")>>[1].do = "finish" /\ Posted(<<Step("finish")>>[1]) = {}
      /\ ChecksGroups(<<Step("finish")>>)
      /\ \A ops, mem, cells : Uses(<<Step("finish")>>, ops, mem, cells)
  BY StepsTyped, StepKeeps DEF Waiters
<1> SUFFICES ASSUME NEW f \in Seq(Steps), Len(f) = 1, f[1].do = "finish", Posted(f[1]) = {},
                    ChecksGroups(f), \A ops, mem, cells : Uses(f, ops, mem, cells)
             PROVE  /\ LocalPart(s \o f, {op, valueOp}, d)
                    /\ FinishedFrom(s \o f, 1) /\ NoSaves(s \o f)
                    /\ \A C : Covers(s, C) => Covers(s \o f, C)
                    /\ \A i \in DOMAIN (s \o f) :
                         \A cmd \in Posted((s \o f)[i]) : LocalCommand(cmd, op, valueOp, d)
  BY <1>1
<1> DEFINE u == s \o f
<1>2. s \in Seq(Steps) /\ ChecksGroups(s)
  BY DEF LocalGroups
<1>3. /\ u \in Seq(Steps)
      /\ Len(s) \in Nat /\ Len(f) \in Nat /\ Len(u) = Len(s) + Len(f)
      /\ DOMAIN s = 1 .. Len(s) /\ DOMAIN f = 1 .. Len(f)
      /\ DOMAIN u = 1 .. Len(s) + Len(f)
      /\ \A i \in 1 .. Len(s) : u[i] = s[i]
      /\ \A i \in 1 .. Len(f) : u[Len(s) + i] = f[i]
  BY ONLY <1>2, f \in Seq(Steps), Concatenation
<1>4. Uses(s, {op, valueOp}, "local", AllocateMemory(d))
  BY DEF LocalGroups, LocalCommand, Uses
<1>5. ChecksGroups(u) /\ Uses(u, {op, valueOp}, "local", AllocateMemory(d))
  BY <1>2, <1>4, JoinKeeps
<1> HIDE DEF u
<1>6. 1 \in 1 .. Len(f) /\ Len(u) = Len(s) + 1 /\ u[Len(u)] = f[1] /\ Len(u) \in DOMAIN u
  BY <1>3
<1>7. \A i \in DOMAIN u : i = Len(u) \/ i \in DOMAIN s
  BY <1>3, <1>6
<1>8. ASSUME NEW i \in DOMAIN u
      PROVE  /\ u[i].do \in {"enqueue", "check", "finish"}
             /\ \A cmd \in Posted(u[i]) : LocalCommand(cmd, op, valueOp, d)
  BY <1>3, <1>6, <1>7 DEF LocalGroups
<1>9. ASSUME NEW i \in DOMAIN u
      PROVE  FinishedFrom(u, i)
  <2>1. i <= Len(u) /\ u[Len(u)].do \in Waiters
    BY <1>3, <1>6 DEF Waiters
  <2>2. \A k \in i .. Len(u) : k \in DOMAIN u
    BY <1>3, <1>6
  <2>3. \A k \in i .. Len(u) : u[k].do \notin Saves \cup {"return"}
    BY <1>8, <2>2 DEF Saves
  <2> QED BY <1>6, <2>1, <2>3 DEF FinishedFrom
<1>10. FinishedFrom(u, 1)
  BY <1>3, <1>6, <1>9
<1>11. LocalPart(u, {op, valueOp}, d) /\ NoSaves(u)
  BY <1>3, <1>5, <1>8, <1>9 DEF LocalPart, Waits, NoSaves, Saves
<1>12. \A i \in DOMAIN s : i \in DOMAIN u /\ u[i] = s[i]
  BY <1>3
<1>13. \A C : Covers(s, C) => Covers(u, C)
  BY <1>12, Zenon DEF Covers
<1> QED BY <1>8, <1>10, <1>11, <1>13 DEF u

\* What the call of an upload enqueues is all there is to write.
LEMMA UploadScript ==
  ASSUME NEW d \in Count
  PROVE  LET t == CopyToDevice(d)
         IN  /\ LocalPart(t, {"write"}, d) /\ FinishedFrom(t, 1) /\ NoSaves(t)
             /\ Covers(t, AllocateMemory(d))
<1> DEFINE t == CopyToDevice(d)
<1>1. /\ LocalGroups(Segments("write", "write", d), "write", "write", d)
      /\ Covers(Segments("write", "write", d), AllocateMemory(d))
  BY SegmentsAreGroups DEF Transferring
<1>2. t = Segments("write", "write", d) \o <<Step("finish")>>
  BY DEF CopyToDevice
<1>3. {"write", "write"} = {"write"}
  OBVIOUS
<1>4. /\ LocalPart(t, {"write"}, d) /\ FinishedFrom(t, 1) /\ NoSaves(t)
      /\ Covers(t, AllocateMemory(d))
  BY <1>1, <1>2, <1>3, FinishedGroups DEF Transferring
<1> QED BY <1>4

\* What an export saves is right and whole.
SavesAll(s, d) ==
  /\ ReadsRight(s)
  /\ \A p \in DOMAIN s : s[p].do \in Saves => \A c \in AllocateMemory(d) : Coming(s, 1, p, c)

\* A copy from the device, and the save of it.
LEMMA SavedCopy ==
  ASSUME NEW s \in Seq(Steps), NEW d, NEW save \in Saves, NoSaves(s),
         Covers(s, AllocateMemory(d)),
         \A i \in DOMAIN s : \A cmd \in Posted(s[i]) : \A c \in cmd.cells :
           ReadAs(cmd) = SourceOf(save, c)
  PROVE  LET t == s \o <<Step(save)>>
         IN  SavesAll(t, d) /\ t[Len(t)].do \in Saves
<1>1. <<Step(save)>> \in Seq(Steps) /\ Len(<<Step(save)>>) = 1 /\ <<Step(save)>>[1].do = save
  BY StepsTyped
<1> SUFFICES ASSUME NEW f \in Seq(Steps), Len(f) = 1, f[1].do = save
             PROVE  SavesAll(s \o f, d) /\ (s \o f)[Len(s \o f)].do \in Saves
  BY <1>1
<1> DEFINE t == s \o f
           n == Len(s) + 1
<1>2. /\ t \in Seq(Steps)
      /\ Len(s) \in Nat /\ Len(f) \in Nat /\ Len(t) = Len(s) + Len(f)
      /\ DOMAIN s = 1 .. Len(s) /\ DOMAIN f = 1 .. Len(f)
      /\ DOMAIN t = 1 .. Len(s) + Len(f)
      /\ \A i \in 1 .. Len(s) : t[i] = s[i]
      /\ \A i \in 1 .. Len(f) : t[Len(s) + i] = f[i]
  BY ONLY s \in Seq(Steps), f \in Seq(Steps), Concatenation
<1> HIDE DEF t
<1>3. 1 \in 1 .. Len(f) /\ Len(t) = n /\ t[n] = f[1] /\ n \in Nat /\ DOMAIN t = 1 .. n
      /\ DOMAIN s = 1 .. n - 1
  BY <1>2
<1>4. \A i \in 1 .. n - 1 : t[i] = s[i] /\ t[i].do \notin Saves
  BY <1>2, <1>3 DEF NoSaves
<1> HIDE DEF n
<1>5. \A p \in DOMAIN t : t[p].do \in Saves => p = n
  BY <1>3, <1>4
<1>6. ReadsRight(t)
  <2> SUFFICES ASSUME NEW i \in 1 .. n - 1, NEW cmd \in Posted(t[i]), NEW c \in cmd.cells
               PROVE  ReadAs(cmd) = SourceOf(t[n].do, c)
    BY <1>5 DEF ReadsRight
  <2> QED BY <1>3, <1>4
<1>7. ASSUME NEW c \in AllocateMemory(d)
      PROVE  Coming(t, 1, n, c)
  <2>1. PICK i \in DOMAIN s : \E cmd \in Posted(s[i]) : c \in cmd.cells
    BY DEF Covers
  <2>2. i \in 1 .. n - 1 /\ t[i] = s[i] /\ Unsaved(t, i, n)
    BY <1>3, <1>4 DEF Unsaved
  <2> QED BY <2>1, <2>2 DEF Coming
<1>8. SavesAll(t, d)
  BY <1>5, <1>6, <1>7 DEF SavesAll
<1> QED BY <1>3, <1>8 DEF t

\* One export after another does not mix them up.
LEMMA SavesJoin ==
  ASSUME NEW s \in Seq(Steps), NEW t \in Seq(Steps), NEW d, SavesAll(s, d), SavesAll(t, d),
         NoSaves(t) \/ (s # << >> /\ s[Len(s)].do \in Saves)
  PROVE  SavesAll(s \o t, d)
<1> DEFINE u == s \o t
           m == Len(s)
<1>1. /\ u \in Seq(Steps)
      /\ Len(s) \in Nat /\ Len(t) \in Nat /\ Len(u) = Len(s) + Len(t)
      /\ DOMAIN s = 1 .. Len(s) /\ DOMAIN t = 1 .. Len(t)
      /\ DOMAIN u = 1 .. Len(s) + Len(t)
      /\ \A i \in 1 .. Len(s) : u[i] = s[i]
      /\ \A i \in 1 .. Len(t) : u[Len(s) + i] = t[i]
  BY ONLY s \in Seq(Steps), t \in Seq(Steps), Concatenation
<1>2. \A p \in DOMAIN u : \/ p \in DOMAIN s /\ u[p] = s[p]
                          \/ \E q \in DOMAIN t : p = m + q /\ u[p] = t[q]
  BY PartOf
<1> HIDE DEF u
<1>3. ASSUME NEW p \in DOMAIN s, s[p].do \in Saves
      PROVE  /\ \A i \in 1 .. p - 1 : Unsaved(u, i, p) =>
                  \A cmd \in Posted(u[i]) : \A c \in cmd.cells : ReadAs(cmd) = SourceOf(s[p].do, c)
             /\ \A c \in AllocateMemory(d) : Coming(u, 1, p, c)
  <2>1. \A i \in 1 .. p - 1 : u[i] = s[i] /\ (Unsaved(u, i, p) <=> Unsaved(s, i, p))
    <3> SUFFICES ASSUME NEW i \in 1 .. p - 1
                 PROVE  u[i] = s[i] /\ (Unsaved(u, i, p) <=> Unsaved(s, i, p))
      OBVIOUS
    <3>1. \A k \in i .. p - 1 : u[k] = s[k]
      BY <1>1
    <3>2. i \in i .. p - 1
      BY <1>1
    <3>3. Unsaved(u, i, p) <=> Unsaved(s, i, p)
      BY <3>1 DEF Unsaved
    <3> QED BY <3>1, <3>2, <3>3
  <2>2. \A i \in 1 .. p - 1 : Unsaved(s, i, p) =>
          \A cmd \in Posted(s[i]) : \A c \in cmd.cells : ReadAs(cmd) = SourceOf(s[p].do, c)
    BY <1>3 DEF SavesAll, ReadsRight
  <2>3. \A c \in AllocateMemory(d) : Coming(s, 1, p, c)
    BY <1>3 DEF SavesAll
  <2> QED BY <2>1, <2>2, <2>3 DEF Coming
<1>4. ASSUME NEW q \in DOMAIN t, t[q].do \in Saves
      PROVE  /\ \A i \in 1 .. m + q - 1 : Unsaved(u, i, m + q) =>
                  \A cmd \in Posted(u[i]) : \A c \in cmd.cells : ReadAs(cmd) = SourceOf(t[q].do, c)
             /\ \A c \in AllocateMemory(d) : Coming(u, 1, m + q, c)
  <2>1. \A i \in 1 .. q - 1 : u[m + i] = t[i] /\ (Unsaved(u, m + i, m + q) <=> Unsaved(t, i, q))
    <3> SUFFICES ASSUME NEW i \in 1 .. q - 1
                 PROVE  u[m + i] = t[i] /\ (Unsaved(u, m + i, m + q) <=> Unsaved(t, i, q))
      OBVIOUS
    <3>1. \A k \in i .. q - 1 : u[m + k] = t[k] /\ m + k \in m + i .. m + q - 1
      BY <1>1
    <3>2. \A k \in m + i .. m + q - 1 : k - m \in i .. q - 1 /\ m + (k - m) = k
      BY <1>1
    <3>3. ASSUME Unsaved(u, m + i, m + q), NEW k \in i .. q - 1
          PROVE  t[k].do \notin Saves
      <4>1. u[m + k] = t[k] /\ m + k \in m + i .. m + q - 1
        BY <3>1
      <4>2. u[m + k].do \notin Saves
        BY <3>3, <4>1 DEF Unsaved
      <4> QED BY <4>1, <4>2
    <3>4. ASSUME Unsaved(t, i, q), NEW k \in m + i .. m + q - 1
          PROVE  u[k].do \notin Saves
      <4>1. u[k] = t[k - m] /\ k - m \in i .. q - 1
        BY <3>1, <3>2
      <4> QED BY <3>4, <4>1 DEF Unsaved
    <3>5. i \in i .. q - 1
      BY <1>1
    <3> QED BY <3>1, <3>3, <3>4, <3>5 DEF Unsaved
  <2>2. \A i \in 1 .. q - 1 : Unsaved(t, i, q) =>
          \A cmd \in Posted(t[i]) : \A c \in cmd.cells : ReadAs(cmd) = SourceOf(t[q].do, c)
    BY <1>4 DEF SavesAll, ReadsRight
  <2>3. \A c \in AllocateMemory(d) : Coming(t, 1, q, c)
    BY <1>4 DEF SavesAll
  <2>4. m \in 1 .. Len(s) /\ u[m].do \in Saves
    <3>1. s # << >> /\ s[m].do \in Saves
      BY <1>4 DEF NoSaves
    <3>2. Len(s) \in Nat \ {0}
      BY <3>1, EmptySeq
    <3> QED BY <1>1, <3>1, <3>2
  <2>5. ASSUME NEW i \in 1 .. m + q - 1, Unsaved(u, i, m + q)
        PROVE  i - m \in 1 .. q - 1 /\ m + (i - m) = i
    <3>2. ~(m \in i .. m + q - 1)
      BY <2>4, <2>5 DEF Unsaved
    <3>3. q \in Nat /\ q > 0 /\ m \in Nat
      BY <1>1
    <3> QED BY <3>2, <3>3
  <2>6. ASSUME NEW c \in AllocateMemory(d)
        PROVE  Coming(u, 1, m + q, c)
    <3>1. PICK k \in 1 .. q - 1 : Unsaved(t, k, q) /\ \E cmd \in Posted(t[k]) : c \in cmd.cells
      BY <2>3 DEF Coming
    <3>2. m + k \in 1 .. m + q - 1
      BY <1>1
    <3>3. Unsaved(u, m + k, m + q) /\ u[m + k] = t[k]
      BY <2>1, <3>1
    <3>4. \E cmd \in Posted(u[m + k]) : c \in cmd.cells
      BY <3>1, <3>3
    <3> QED BY <3>2, <3>3, <3>4 DEF Coming
  <2>7. ASSUME NEW i \in 1 .. m + q - 1, Unsaved(u, i, m + q)
        PROVE  \A cmd \in Posted(u[i]) : \A c \in cmd.cells : ReadAs(cmd) = SourceOf(t[q].do, c)
    <3>1. PICK k \in 1 .. q - 1 : m + k = i
      BY <2>5, <2>7
    <3>2. u[i] = t[k] /\ Unsaved(t, k, q)
      BY <2>1, <2>7, <3>1
    <3> QED BY <2>2, <3>2
  <2> QED BY <2>6, <2>7
<1>5. \A p \in DOMAIN u : u[p].do \in Saves =>
        \A i \in 1 .. p - 1 : Unsaved(u, i, p) =>
          \A cmd \in Posted(u[i]) : \A c \in cmd.cells : ReadAs(cmd) = SourceOf(u[p].do, c)
  <2> SUFFICES ASSUME NEW p \in DOMAIN u, u[p].do \in Saves
               PROVE  \A i \in 1 .. p - 1 : Unsaved(u, i, p) =>
                        \A cmd \in Posted(u[i]) : \A c \in cmd.cells :
                          ReadAs(cmd) = SourceOf(u[p].do, c)
    OBVIOUS
  <2>1. CASE p \in DOMAIN s /\ u[p] = s[p]
    BY <1>3, <2>1
  <2>2. ASSUME NEW q \in DOMAIN t, p = m + q, u[p] = t[q]
        PROVE  \A i \in 1 .. p - 1 : Unsaved(u, i, p) =>
                 \A cmd \in Posted(u[i]) : \A c \in cmd.cells :
                   ReadAs(cmd) = SourceOf(u[p].do, c)
    BY <1>4, <2>2
  <2> QED BY <1>2, <2>1, <2>2
<1>6. \A p \in DOMAIN u : u[p].do \in Saves => \A c \in AllocateMemory(d) : Coming(u, 1, p, c)
  BY <1>2, <1>3, <1>4
<1>7. SavesAll(u, d)
  BY <1>5, <1>6 DEF SavesAll, ReadsRight
<1> QED BY <1>7 DEF u

\* CopyFromDevice of real or of simulated data, up to its save.
LEMMA CopyAndSave ==
  ASSUME NEW d \in Count, NEW simulated \in BOOLEAN
  PROVE  LET valueOp == IF simulated THEN "read simulated" ELSE "read"
             save == IF simulated THEN "save model" ELSE "save real"
             s == CopyFromDevice(d, valueOp) \o <<Step(save)>>
         IN  /\ LocalPart(s, {"read", "read simulated"}, d) /\ FinishedFrom(s, 1)
             /\ SavesAll(s, d) /\ s[Len(s)].do \in Saves
<1> DEFINE valueOp == IF simulated THEN "read simulated" ELSE "read"
           save == IF simulated THEN "save model" ELSE "save real"
           ops == {"read", "read simulated"}
<1>1. "read" \in Transferring /\ valueOp \in Transferring /\ {"read", valueOp} \subseteq ops
      /\ save \in Saves
  BY DEF Transferring, Saves
<1>2. ASSUME NEW cmd, LocalCommand(cmd, "read", valueOp, d), NEW c \in cmd.cells
      PROVE  ReadAs(cmd) = SourceOf(save, c)
  BY <1>2 DEF LocalCommand, ReadAs, SourceOf
<1> DEFINE g == Segments("read", valueOp, d)
           f == <<Step("finish")>>
           r == <<Step("repackage")>>
<1>3. LocalGroups(g, "read", valueOp, d) /\ Covers(g, AllocateMemory(d))
  BY <1>1, SegmentsAreGroups
<1>4. CopyFromDevice(d, valueOp) = g \o <<Step("finish"), Step("repackage")>>
  BY DEF CopyFromDevice
<1>5. <<Step("finish"), Step("repackage")>> = f \o r
  OBVIOUS
<1>6. f \in Seq(Steps) /\ r \in Seq(Steps)
  BY StepsTyped DEF Waiters
<1>7. LocalPart(r, ops, d) /\ NoSaves(r)
  BY StepIsPart DEF Saves
<1>8. LocalPart(<<Step(save)>>, ops, d)
  BY <1>1, StepIsPart
<1>9. \A i \in DOMAIN r : Posted(r[i]) = {}
  BY StepsTyped
<1> HIDE DEF g, f, r, valueOp, save
<1>10. /\ LocalPart(g \o <<Step("finish")>>, {"read", valueOp}, d)
       /\ FinishedFrom(g \o <<Step("finish")>>, 1) /\ NoSaves(g \o <<Step("finish")>>)
       /\ Covers(g \o <<Step("finish")>>, AllocateMemory(d))
       /\ \A i \in DOMAIN (g \o <<Step("finish")>>) :
            \A cmd \in Posted((g \o <<Step("finish")>>)[i]) : LocalCommand(cmd, "read", valueOp, d)
  BY <1>1, <1>3, FinishedGroups
<1>11. /\ LocalPart(g \o f, ops, d) /\ FinishedFrom(g \o f, 1) /\ NoSaves(g \o f)
       /\ Covers(g \o f, AllocateMemory(d))
       /\ \A i \in DOMAIN (g \o f) :
            \A cmd \in Posted((g \o f)[i]) : LocalCommand(cmd, "read", valueOp, d)
  BY <1>1, <1>10 DEF f, LocalPart, Uses
<1>12. g \in Seq(Steps) /\ g \o f \in Seq(Steps)
  BY <1>3, <1>11 DEF LocalGroups, LocalPart
<1>13. CopyFromDevice(d, valueOp) = (g \o f) \o r
  <2>1. \A a, b, c \in Seq(Steps) : (a \o b) \o c = a \o (b \o c)
    BY ConcatAssociative
  <2>2. (g \o f) \o r = g \o (f \o r)
    BY ONLY <1>6, <1>12, <2>1
  <2> QED BY ONLY <1>4, <1>5, <2>2, Zenon
<1> DEFINE h == CopyFromDevice(d, valueOp)
<1>14. /\ LocalPart(h, ops, d) /\ FinishedFrom(h, 1) /\ NoSaves(h)
       /\ Covers(h, AllocateMemory(d))
  BY <1>7, <1>11, <1>13, JoinParts
<1>15. \A i \in DOMAIN h : \A cmd \in Posted(h[i]) : LocalCommand(cmd, "read", valueOp, d)
  <2> SUFFICES ASSUME NEW i \in DOMAIN ((g \o f) \o r)
               PROVE  \A cmd \in Posted(((g \o f) \o r)[i]) : LocalCommand(cmd, "read", valueOp, d)
    BY <1>13
  <2>1. ASSUME NEW a \in Seq(Steps), NEW b \in Seq(Steps), NEW k \in DOMAIN (a \o b)
        PROVE  \/ k \in DOMAIN a /\ (a \o b)[k] = a[k]
               \/ \E j \in DOMAIN b : (a \o b)[k] = b[j]
    BY PartOf
  <2>2. \/ i \in DOMAIN (g \o f) /\ ((g \o f) \o r)[i] = (g \o f)[i]
        \/ \E j \in DOMAIN r : ((g \o f) \o r)[i] = r[j]
    BY ONLY <1>6, <1>12, i \in DOMAIN ((g \o f) \o r), <2>1
  <2> QED BY <1>9, <1>11, <2>2
<1> HIDE DEF h
<1>16. \A i \in DOMAIN h : \A cmd \in Posted(h[i]) : \A c \in cmd.cells :
         ReadAs(cmd) = SourceOf(save, c)
  BY <1>2, <1>15
<1>17. h \in Seq(Steps)
  BY <1>14 DEF LocalPart
<1>18. /\ SavesAll(h \o <<Step(save)>>, d)
       /\ (h \o <<Step(save)>>)[Len(h \o <<Step(save)>>)].do \in Saves
  BY <1>1, <1>14, <1>16, <1>17, SavedCopy
<1>19. LocalPart(h \o <<Step(save)>>, ops, d) /\ FinishedFrom(h \o <<Step(save)>>, 1)
  BY <1>8, <1>14, JoinParts
<1> QED BY <1>18, <1>19 DEF h, valueOp, save

LEMMA ExportScriptIsRight ==
  ASSUME NEW d \in Count, NEW simulated \in BOOLEAN
  PROVE  /\ LocalPart(ExportScript(d, simulated), {"read", "read simulated"}, d)
         /\ FinishedFrom(ExportScript(d, simulated), 1)
         /\ SavesAll(ExportScript(d, simulated), d)
<1> DEFINE s == CopyFromDevice(d, "read") \o <<Step("save real")>>
           t == CopyFromDevice(d, "read simulated") \o <<Step("save model")>>
           ops == {"read", "read simulated"}
<1>1. LocalPart(s, ops, d) /\ FinishedFrom(s, 1) /\ SavesAll(s, d) /\ s[Len(s)].do \in Saves
  BY CopyAndSave
<1>2. LocalPart(t, ops, d) /\ SavesAll(t, d)
  BY CopyAndSave
<1>3. ExportScript(d, simulated) = s \o (IF simulated THEN t ELSE << >>)
  BY DEF ExportScript
<1> HIDE DEF s, t
<1>4. s \in Seq(Steps) /\ t \in Seq(Steps)
  BY <1>1, <1>2 DEF LocalPart
<1>5. s # << >>
  <2>1. DOMAIN << >> = {}
    OBVIOUS
  <2>2. \E j : j \in DOMAIN s
    BY <1>1, Zenon DEF FinishedFrom
  <2> QED BY <2>1, <2>2, Zenon
<1>6. CASE simulated
  <2>1. LocalPart(s \o t, ops, d) /\ FinishedFrom(s \o t, 1) /\ SavesAll(s \o t, d)
    BY <1>1, <1>2, <1>4, <1>5, JoinParts, SavesJoin
  <2> QED BY <1>3, <1>6, <2>1
<1>7. CASE ~simulated
  <2>1. s \o << >> = s
    BY <1>4, ConcatEmptySeq
  <2> QED BY <1>1, <1>3, <1>7, <2>1
<1> QED BY <1>6, <1>7

LEMMA CallUses ==
  /\ \A op \in Uploads : OpsOf(op) = {"write"} /\ MemOf(op) = "local"
  /\ OpsOf("ExportData") = {"read", "read simulated"} /\ MemOf("ExportData") = "local"
  /\ OpsOf("GetData") = {"read"} /\ MemOf("GetData") = "caller"
  /\ OpsOf("CopyImageToBuffer") = ImageOps /\ MemOf("CopyImageToBuffer") = "none"
<1>1. /\ OpsOf("LoadData") = {"write"} /\ MemOf("LoadData") = "local"
      /\ OpsOf("ReplaceData") = {"write"} /\ MemOf("ReplaceData") = "local"
  BY DEF OpsOf, MemOf, Uploads
<1>2. OpsOf("ExportData") = {"read", "read simulated"} /\ MemOf("ExportData") = "local"
  BY DEF OpsOf, MemOf, Uploads
<1>3. OpsOf("GetData") = {"read"} /\ MemOf("GetData") = "caller"
  BY DEF OpsOf, MemOf, Uploads
<1>4. OpsOf("CopyImageToBuffer") = ImageOps /\ MemOf("CopyImageToBuffer") = "none"
  BY DEF OpsOf, MemOf, Uploads
<1> QED BY <1>1, <1>2, <1>3, <1>4 DEF Uploads

\* What is required of the script of a call of data set d.
Script(op, s, cells) ==
  /\ s \in Seq(Steps) /\ s # << >>
  /\ Returns(s) /\ Waits(s) /\ FinishedFrom(s, 1)
  /\ Uses(s, OpsOf(op), MemOf(op), cells)
  /\ op \in DataCalls => ChecksGroups(s)

LEMMA LocalScript ==
  ASSUME NEW s, NEW d, NEW op \in Uploads \cup {"ExportData"},
         LocalPart(s, OpsOf(op), d), FinishedFrom(s, 1)
  PROVE  Script(op, s \o <<Step("return")>>, AllocateMemory(d))
<1>1. MemOf(op) = "local"
  BY CallUses
<1>2. CompleteOf(s, s \o <<Step("return")>>)
  BY CompleteScript DEF LocalPart
<1> QED BY <1>1, <1>2 DEF CompleteOf, LocalPart, Script

LEMMA CompleteTransfers ==
  ASSUME NEW s \in Seq(Steps), NEW script, CompleteOf(s, script), NoSaves(s),
         NEW C, Covers(s, C)
  PROVE  NoSaves(script) /\ \A c \in C : Coming(script, 1, Len(script), c)
<1>1. /\ script \in Seq(Steps) /\ Len(script) = Len(s) + 1
      /\ \A i \in DOMAIN s : script[i] = s[i]
      /\ Returns(script)
  BY DEF CompleteOf
<1>2. Len(s) \in Nat /\ DOMAIN s = 1 .. Len(s) /\ DOMAIN script = 1 .. Len(script)
  <2>1. \A u \in Seq(Steps) : Len(u) \in Nat /\ DOMAIN u = 1 .. Len(u)
    BY LenProperties
  <2> QED BY <1>1, <2>1
<1> DEFINE n == Len(script)
<1>3. n \in Nat \ {0} /\ DOMAIN s = 1 .. n - 1 /\ DOMAIN script = 1 .. n
  BY <1>1, <1>2
<1>4. script[n].do = "return"
  BY <1>3, <1>1 DEF Returns
<1> HIDE DEF n
<1>5. \A i \in 1 .. n : i = n \/ i \in 1 .. n - 1
  BY <1>3
<1>6. NoSaves(script)
  BY <1>1, <1>3, <1>4, <1>5 DEF NoSaves, Saves
<1>7. ASSUME NEW c \in C
      PROVE  Coming(script, 1, n, c)
  <2>1. PICK i \in DOMAIN s : \E cmd \in Posted(s[i]) : c \in cmd.cells
    BY DEF Covers
  <2>2. i \in 1 .. n - 1 /\ script[i] = s[i]
    BY <1>1, <1>3
  <2>3. Unsaved(script, i, n)
    <3>1. \A k \in i .. n - 1 : k \in DOMAIN script
      BY <1>3, <2>2
    <3> QED BY <1>6, <3>1 DEF NoSaves, Unsaved
  <2>4. \E cmd \in Posted(script[i]) : c \in cmd.cells
    BY <2>1, <2>2
  <2> QED BY <2>2, <2>3, <2>4 DEF Coming
<1> QED BY <1>6, <1>7 DEF n

LEMMA UploadCall ==
  ASSUME NEW d \in Count, NEW op \in Uploads
  PROVE  LET script == CopyToDevice(d) \o <<Step("return")>>
         IN  /\ Script(op, script, AllocateMemory(d)) /\ NoSaves(script)
             /\ \A c \in AllocateMemory(d) : Coming(script, 1, Len(script), c)
<1> DEFINE s == CopyToDevice(d)
           script == s \o <<Step("return")>>
<1>1. /\ LocalPart(s, {"write"}, d) /\ FinishedFrom(s, 1) /\ NoSaves(s)
      /\ Covers(s, AllocateMemory(d))
  BY UploadScript
<1> HIDE DEF s
<1>2. OpsOf(op) = {"write"}
  BY CallUses
<1>3. Script(op, script, AllocateMemory(d))
  BY <1>1, <1>2, LocalScript
<1>4. CompleteOf(s, script)
  BY <1>1, CompleteScript DEF LocalPart
<1>5. s \in Seq(Steps)
  BY <1>1 DEF LocalPart
<1> HIDE DEF script
<1>6. NoSaves(script) /\ \A c \in AllocateMemory(d) : Coming(script, 1, Len(script), c)
  BY <1>1, <1>4, <1>5, CompleteTransfers
<1> QED BY <1>3, <1>6 DEF script, s

LEMMA ExportCall ==
  ASSUME NEW d \in Count, NEW simulated \in BOOLEAN
  PROVE  LET script == ExportScript(d, simulated) \o <<Step("return")>>
         IN  Script("ExportData", script, AllocateMemory(d)) /\ SavesAll(script, d)
<1> DEFINE s == ExportScript(d, simulated)
<1>1. /\ LocalPart(s, {"read", "read simulated"}, d) /\ FinishedFrom(s, 1) /\ SavesAll(s, d)
  BY ExportScriptIsRight
<1> HIDE DEF s
<1>2. OpsOf("ExportData") = {"read", "read simulated"}
  BY CallUses
<1>3. Script("ExportData", s \o <<Step("return")>>, AllocateMemory(d))
  BY <1>1, <1>2, LocalScript
<1>4. /\ <<Step("return")>> \in Seq(Steps) /\ Len(<<Step("return")>>) = 1
      /\ <<Step("return")>>[1].do = "return"
  BY StepsTyped
<1>5. NoSaves(<<Step("return")>>) /\ SavesAll(<<Step("return")>>, d)
  <2> SUFFICES ASSUME NEW r \in Seq(Steps), Len(r) = 1, r[1].do = "return"
               PROVE  NoSaves(r) /\ SavesAll(r, d)
    BY <1>4
  <2>1. DOMAIN r = 1 .. Len(r)
    BY LenProperties
  <2>2. \A i \in DOMAIN r : i = 1
    BY <2>1
  <2>3. \A i \in DOMAIN r : r[i].do \notin Saves
    BY <2>2 DEF Saves
  <2> QED BY <2>3 DEF NoSaves, SavesAll, ReadsRight
<1>6. s \in Seq(Steps)
  BY <1>1 DEF LocalPart
<1>7. SavesAll(s \o <<Step("return")>>, d)
  BY <1>1, <1>4, <1>5, <1>6, SavesJoin
<1> QED BY <1>3, <1>7 DEF s

\* One or two steps added to a list of steps.
LEMMA LongerByOne ==
  ASSUME NEW s \in Seq(Steps), NEW t \in Seq(Steps), NEW a \in Steps,
         Len(t) = Len(s) + 1, \A i \in 1 .. Len(s) : t[i] = s[i], t[Len(t)] = a
  PROVE  s \o <<a>> = t
<1>1. <<a>> \in Seq(Steps) /\ Len(<<a>>) = 1 /\ <<a>>[1] = a
  OBVIOUS
<1> SUFFICES ASSUME NEW r \in Seq(Steps), Len(r) = 1, r[1] = a
             PROVE  s \o r = t
  BY <1>1
<1>2. /\ s \o r \in Seq(Steps) /\ Len(s \o r) = Len(s) + Len(r)
      /\ \A i \in 1 .. Len(s) + Len(r) : (s \o r)[i] = IF i <= Len(s) THEN s[i] ELSE r[i - Len(s)]
  BY ONLY s \in Seq(Steps), r \in Seq(Steps), ConcatProperties
<1>3. Len(s) \in Nat
  BY LenProperties
<1>4. \A i \in 1 .. Len(s) + 1 : (s \o r)[i] = t[i]
  BY <1>2, <1>3
<1> QED BY <1>2, <1>4, SeqEqual

LEMMA LongerByTwo ==
  ASSUME NEW s \in Seq(Steps), NEW t \in Seq(Steps), NEW a \in Steps, NEW b \in Steps,
         Len(t) = Len(s) + 2, \A i \in 1 .. Len(s) : t[i] = s[i],
         t[Len(t) - 1] = a, t[Len(t)] = b
  PROVE  s \o <<a, b>> = t
<1>1. <<a, b>> \in Seq(Steps) /\ Len(<<a, b>>) = 2 /\ <<a, b>>[1] = a /\ <<a, b>>[2] = b
  OBVIOUS
<1> SUFFICES ASSUME NEW r \in Seq(Steps), Len(r) = 2, r[1] = a, r[2] = b
             PROVE  s \o r = t
  BY <1>1
<1>2. /\ s \o r \in Seq(Steps) /\ Len(s \o r) = Len(s) + Len(r)
      /\ \A i \in 1 .. Len(s) + Len(r) : (s \o r)[i] = IF i <= Len(s) THEN s[i] ELSE r[i - Len(s)]
  BY ONLY s \in Seq(Steps), r \in Seq(Steps), ConcatProperties
<1>3. Len(s) \in Nat
  BY LenProperties
<1>4. \A i \in 1 .. Len(s) + 2 : i \in 1 .. Len(s) \/ i = Len(s) + 1 \/ i = Len(s) + 2
  BY <1>3
<1>5. \A i \in 1 .. Len(s) + 2 : (s \o r)[i] = t[i]
  BY <1>2, <1>3, <1>4
<1> QED BY <1>2, <1>5, SeqEqual

\* One command is all that GetData enqueues.
GetSteps(cmd) == <<Enqueue(<<cmd>>), Step("check"), Step("finish"), Step("return")>>

LEMMA GetCall ==
  ASSUME NEW d \in Count, NEW buffer \in {"data", "err"}, NEW n \in Nat, n <= NumData(d)
  PROVE  LET script == GetScript(buffer, n) \o <<Step("return")>>
         IN  Script("GetData", script, AllocateMemory(d)) /\ NoSaves(script)
<1> DEFINE cmd == Command("read", Elements(buffer, 0, n), "caller")
<1>1. /\ cmd \in Commands /\ cmd.op = "read" /\ cmd.mem = "caller"
      /\ cmd.cells \subseteq AllocateMemory(d)
  <2>1. NumData(d) \in Nat
    BY LayoutTyped
  <2>2. ASSUME NEW c \in Elements(buffer, 0, n)
        PROVE  c \in AllocateMemory(d)
    <3>1. PICK k \in 0 .. n - 1 : c = <<buffer, k>>
      BY <2>2 DEF Elements
    <3>2. k \in 0 .. NumData(d) - 1
      BY <2>1
    <3> QED BY <3>1, <3>2, ElementOf
  <2>3. Elements(buffer, 0, n) \in SUBSET Cells
    BY <2>2, AllocatedCells
  <2> QED BY <2>2, <2>3 DEF Command, Commands, Transferring
<1> HIDE DEF cmd
<1>3. <<cmd>> \in Seq(Commands) /\ Range(<<cmd>>) = {cmd} /\ Len(<<cmd>>) = 1
  BY <1>1 DEF Range
<1>4. /\ Enqueue(<<cmd>>) \in Steps /\ Posted(Enqueue(<<cmd>>)) = {cmd}
      /\ Enqueue(<<cmd>>).do = "enqueue" /\ Enqueue(<<cmd>>).cmds = <<cmd>>
  BY <1>3, StepsTyped DEF Enqueue
<1>5. /\ Step("check") \in Steps /\ Step("check").do = "check"
      /\ Step("finish") \in Steps /\ Step("finish").do = "finish"
      /\ Step("return") \in Steps /\ Step("return").do = "return"
      /\ Posted(Step("check")) = {} /\ Posted(Step("finish")) = {} /\ Posted(Step("return")) = {}
  <2>1. << >> \in Seq(Commands)
    BY EmptySeq
  <2> QED BY <2>1 DEF Step, Steps, Waiters, Posted
<1>2. GetScript(buffer, n) \o <<Step("return")>> = GetSteps(cmd)
  <2>1. GetScript(buffer, n) = <<Enqueue(<<cmd>>), Step("check")>> \o <<Step("finish")>>
    BY DEF cmd, GetScript, Checked
  <2> SUFFICES ASSUME NEW a \in Steps, NEW b \in Steps, NEW c \in Steps, NEW e \in Steps
               PROVE  (<<a, b>> \o <<c>>) \o <<e>> = <<a, b, c, e>>
    BY <1>4, <1>5, <2>1 DEF GetSteps
  <2>2. <<a, b>> \o <<c>> = <<a, b, c>>
    <3>1. /\ <<a, b>> \in Seq(Steps) /\ <<a, b, c>> \in Seq(Steps) /\ Len(<<a, b>>) = 2
          /\ \A i \in 1 .. 2 : <<a, b, c>>[i] = <<a, b>>[i]
          /\ Len(<<a, b, c>>) = 3 /\ <<a, b, c>>[3] = c
      OBVIOUS
    <3>2. ASSUME NEW s \in Seq(Steps), NEW t \in Seq(Steps), Len(s) = 2,
                 \A i \in 1 .. 2 : t[i] = s[i], Len(t) = 3, t[3] = c
          PROVE  s \o <<c>> = t
      <4>1. /\ Len(t) = Len(s) + 1 /\ t[Len(t)] = c
            /\ \A i \in 1 .. Len(s) : t[i] = s[i]
        BY <3>2
      <4> QED BY ONLY <4>1, s \in Seq(Steps), t \in Seq(Steps), c \in Steps, LongerByOne
    <3> QED BY ONLY <3>1, <3>2, Zenon
  <2>3. <<a, b, c>> \o <<e>> = <<a, b, c, e>>
    <3>1. /\ <<a, b, c>> \in Seq(Steps) /\ <<a, b, c, e>> \in Seq(Steps) /\ Len(<<a, b, c>>) = 3
          /\ \A i \in 1 .. 3 : <<a, b, c, e>>[i] = <<a, b, c>>[i]
          /\ Len(<<a, b, c, e>>) = 4 /\ <<a, b, c, e>>[4] = e
      OBVIOUS
    <3>2. ASSUME NEW s \in Seq(Steps), NEW t \in Seq(Steps), Len(s) = 3,
                 \A i \in 1 .. 3 : t[i] = s[i], Len(t) = 4, t[4] = e
          PROVE  s \o <<e>> = t
      <4>1. /\ Len(t) = Len(s) + 1 /\ t[Len(t)] = e
            /\ \A i \in 1 .. Len(s) : t[i] = s[i]
        BY <3>2
      <4> QED BY ONLY <4>1, s \in Seq(Steps), t \in Seq(Steps), e \in Steps, LongerByOne
    <3> QED BY ONLY <3>1, <3>2, Zenon
  <2> QED BY <2>2, <2>3, Zenon
<1> DEFINE s == GetSteps(cmd)
<1>6. /\ s \in Seq(Steps) /\ Len(s) = 4 /\ DOMAIN s = 1 .. 4
      /\ s[1] = Enqueue(<<cmd>>) /\ s[2] = Step("check")
      /\ s[3] = Step("finish") /\ s[4] = Step("return")
  BY <1>4, <1>5 DEF GetSteps
<1> HIDE DEF s
<1>7. /\ s[1].do = "enqueue" /\ s[2].do = "check" /\ s[3].do = "finish" /\ s[4].do = "return"
      /\ Posted(s[1]) = {cmd} /\ Posted(s[2]) = {} /\ Posted(s[3]) = {} /\ Posted(s[4]) = {}
  BY <1>3, <1>4, <1>5, <1>6
<1>8. \A i \in DOMAIN s : i = 1 \/ i = 2 \/ i = 3 \/ i = 4
  BY <1>6
<1>9. FinishedFrom(s, 1)
  <2>1. 3 \in DOMAIN s /\ \A k \in 1 .. 3 : k = 1 \/ k = 2 \/ k = 3
    BY <1>6
  <2>2. \A k \in 1 .. 3 : s[k].do \notin Saves \cup {"return"}
    BY <1>7, <2>1 DEF Saves
  <2> QED BY <1>7, <2>1, <2>2 DEF FinishedFrom, Waiters
<1>10. Waits(s)
  BY <1>7, <1>8, <1>9 DEF Waits
<1>11. Returns(s) /\ ChecksGroups(s) /\ NoSaves(s)
  <2>1. Returns(s) /\ ChecksGroups(s)
    BY <1>6, <1>7, <1>8 DEF Returns, ChecksGroups
  <2>2. \A i \in DOMAIN s : s[i].do \notin Saves
    BY <1>7, <1>8 DEF Saves
  <2> QED BY <2>1, <2>2 DEF NoSaves
<1>12. Uses(s, OpsOf("GetData"), MemOf("GetData"), AllocateMemory(d))
  <2>1. OpsOf("GetData") = {"read"} /\ MemOf("GetData") = "caller"
    BY CallUses
  <2> QED BY <1>1, <1>7, <1>8, <2>1 DEF Uses
<1>13. s # << >>
  BY <1>6, EmptySeq
<1>14. Script("GetData", s, AllocateMemory(d)) /\ NoSaves(s)
  BY <1>6, <1>9, <1>10, <1>11, <1>12, <1>13 DEF Script
<1> QED BY <1>2, <1>14 DEF s

\* The copies of the image, spelled out.
LEMMA Twelve ==
  \A g, a, b, c, k, f, r \in Steps :
    (((((<<g>> \o <<a, k>>) \o <<f, k>>) \o <<b, k>>) \o <<f, k>>) \o <<c, k>>) \o <<r>>
      = <<g, a, k, f, k, b, k, f, k, c, k, r>>
<1> TAKE g, a, b, c, k, f, r \in Steps
<1>1. <<g>> \o <<a, k>> = <<g, a, k>>
  <2>1. /\ <<g>> \in Seq(Steps) /\ Len(<<g>>) = 1
        /\ <<g, a, k>> \in Seq(Steps) /\ Len(<<g, a, k>>) = 3
        /\ \A i \in 1 .. 1 : <<g, a, k>>[i] = <<g>>[i]
        /\ <<g, a, k>>[2] = a /\ <<g, a, k>>[3] = k
    OBVIOUS
  <2>2. ASSUME NEW s \in Seq(Steps), NEW u \in Seq(Steps), Len(s) = 1, Len(u) = 3,
               \A i \in 1 .. 1 : u[i] = s[i], u[2] = a, u[3] = k
        PROVE  s \o <<a, k>> = u
    <3>1. /\ Len(u) = Len(s) + 2 /\ u[Len(u) - 1] = a /\ u[Len(u)] = k
          /\ \A i \in 1 .. Len(s) : u[i] = s[i]
      BY <2>2
    <3> QED BY ONLY <3>1, s \in Seq(Steps), u \in Seq(Steps), a \in Steps, k \in Steps, LongerByTwo
  <2> QED BY ONLY <2>1, <2>2, Zenon
<1>2. <<g, a, k>> \o <<f, k>> = <<g, a, k, f, k>>
  <2>1. /\ <<g, a, k>> \in Seq(Steps) /\ Len(<<g, a, k>>) = 3
        /\ <<g, a, k, f, k>> \in Seq(Steps) /\ Len(<<g, a, k, f, k>>) = 5
        /\ \A i \in 1 .. 3 : <<g, a, k, f, k>>[i] = <<g, a, k>>[i]
        /\ <<g, a, k, f, k>>[4] = f /\ <<g, a, k, f, k>>[5] = k
    OBVIOUS
  <2>2. ASSUME NEW s \in Seq(Steps), NEW u \in Seq(Steps), Len(s) = 3, Len(u) = 5,
               \A i \in 1 .. 3 : u[i] = s[i], u[4] = f, u[5] = k
        PROVE  s \o <<f, k>> = u
    <3>1. /\ Len(u) = Len(s) + 2 /\ u[Len(u) - 1] = f /\ u[Len(u)] = k
          /\ \A i \in 1 .. Len(s) : u[i] = s[i]
      BY <2>2
    <3> QED BY ONLY <3>1, s \in Seq(Steps), u \in Seq(Steps), f \in Steps, k \in Steps, LongerByTwo
  <2> QED BY ONLY <2>1, <2>2, Zenon
<1>3. <<g, a, k, f, k>> \o <<b, k>> = <<g, a, k, f, k, b, k>>
  <2>1. /\ <<g, a, k, f, k>> \in Seq(Steps) /\ Len(<<g, a, k, f, k>>) = 5
        /\ <<g, a, k, f, k, b, k>> \in Seq(Steps) /\ Len(<<g, a, k, f, k, b, k>>) = 7
        /\ \A i \in 1 .. 5 : <<g, a, k, f, k, b, k>>[i] = <<g, a, k, f, k>>[i]
        /\ <<g, a, k, f, k, b, k>>[6] = b /\ <<g, a, k, f, k, b, k>>[7] = k
    OBVIOUS
  <2>2. ASSUME NEW s \in Seq(Steps), NEW u \in Seq(Steps), Len(s) = 5, Len(u) = 7,
               \A i \in 1 .. 5 : u[i] = s[i], u[6] = b, u[7] = k
        PROVE  s \o <<b, k>> = u
    <3>1. /\ Len(u) = Len(s) + 2 /\ u[Len(u) - 1] = b /\ u[Len(u)] = k
          /\ \A i \in 1 .. Len(s) : u[i] = s[i]
      BY <2>2
    <3> QED BY ONLY <3>1, s \in Seq(Steps), u \in Seq(Steps), b \in Steps, k \in Steps, LongerByTwo
  <2> QED BY ONLY <2>1, <2>2, Zenon
<1>4. <<g, a, k, f, k, b, k>> \o <<f, k>> = <<g, a, k, f, k, b, k, f, k>>
  <2>1. /\ <<g, a, k, f, k, b, k>> \in Seq(Steps) /\ Len(<<g, a, k, f, k, b, k>>) = 7
        /\ <<g, a, k, f, k, b, k, f, k>> \in Seq(Steps) /\ Len(<<g, a, k, f, k, b, k, f, k>>) = 9
        /\ \A i \in 1 .. 7 : <<g, a, k, f, k, b, k, f, k>>[i] = <<g, a, k, f, k, b, k>>[i]
        /\ <<g, a, k, f, k, b, k, f, k>>[8] = f /\ <<g, a, k, f, k, b, k, f, k>>[9] = k
    OBVIOUS
  <2>2. ASSUME NEW s \in Seq(Steps), NEW u \in Seq(Steps), Len(s) = 7, Len(u) = 9,
               \A i \in 1 .. 7 : u[i] = s[i], u[8] = f, u[9] = k
        PROVE  s \o <<f, k>> = u
    <3>1. /\ Len(u) = Len(s) + 2 /\ u[Len(u) - 1] = f /\ u[Len(u)] = k
          /\ \A i \in 1 .. Len(s) : u[i] = s[i]
      BY <2>2
    <3> QED BY ONLY <3>1, s \in Seq(Steps), u \in Seq(Steps), f \in Steps, k \in Steps, LongerByTwo
  <2> QED BY ONLY <2>1, <2>2, Zenon
<1>5. <<g, a, k, f, k, b, k, f, k>> \o <<c, k>> = <<g, a, k, f, k, b, k, f, k, c, k>>
  <2>1. /\ <<g, a, k, f, k, b, k, f, k>> \in Seq(Steps) /\ Len(<<g, a, k, f, k, b, k, f, k>>) = 9
        /\ <<g, a, k, f, k, b, k, f, k, c, k>> \in Seq(Steps) /\ Len(<<g, a, k, f, k, b, k, f, k, c, k>>) = 11
        /\ \A i \in 1 .. 9 : <<g, a, k, f, k, b, k, f, k, c, k>>[i] = <<g, a, k, f, k, b, k, f, k>>[i]
        /\ <<g, a, k, f, k, b, k, f, k, c, k>>[10] = c /\ <<g, a, k, f, k, b, k, f, k, c, k>>[11] = k
    OBVIOUS
  <2>2. ASSUME NEW s \in Seq(Steps), NEW u \in Seq(Steps), Len(s) = 9, Len(u) = 11,
               \A i \in 1 .. 9 : u[i] = s[i], u[10] = c, u[11] = k
        PROVE  s \o <<c, k>> = u
    <3>1. /\ Len(u) = Len(s) + 2 /\ u[Len(u) - 1] = c /\ u[Len(u)] = k
          /\ \A i \in 1 .. Len(s) : u[i] = s[i]
      BY <2>2
    <3> QED BY ONLY <3>1, s \in Seq(Steps), u \in Seq(Steps), c \in Steps, k \in Steps, LongerByTwo
  <2> QED BY ONLY <2>1, <2>2, Zenon
<1>6. <<g, a, k, f, k, b, k, f, k, c, k>> \o <<r>> = <<g, a, k, f, k, b, k, f, k, c, k, r>>
  <2>1. /\ <<g, a, k, f, k, b, k, f, k, c, k>> \in Seq(Steps) /\ Len(<<g, a, k, f, k, b, k, f, k, c, k>>) = 11
        /\ <<g, a, k, f, k, b, k, f, k, c, k, r>> \in Seq(Steps) /\ Len(<<g, a, k, f, k, b, k, f, k, c, k, r>>) = 12
        /\ \A i \in 1 .. 11 : <<g, a, k, f, k, b, k, f, k, c, k, r>>[i] = <<g, a, k, f, k, b, k, f, k, c, k>>[i]
        /\ <<g, a, k, f, k, b, k, f, k, c, k, r>>[12] = r
    OBVIOUS
  <2>2. ASSUME NEW s \in Seq(Steps), NEW u \in Seq(Steps), Len(s) = 11, Len(u) = 12,
               \A i \in 1 .. 11 : u[i] = s[i], u[12] = r
        PROVE  s \o <<r>> = u
    <3>1. /\ Len(u) = Len(s) + 1 /\ u[Len(u)] = r
          /\ \A i \in 1 .. Len(s) : u[i] = s[i]
      BY <2>2
    <3> QED BY ONLY <3>1, s \in Seq(Steps), u \in Seq(Steps), r \in Steps, LongerByOne
  <2> QED BY ONLY <2>1, <2>2, Zenon
<1> QED BY ONLY <1>1, <1>2, <1>3, <1>4, <1>5, <1>6, Zenon

LEMMA CopyStepsTyped ==
  /\ Step("check") \in Steps /\ Step("finish") \in Steps /\ Step("return") \in Steps
  /\ Step("glFinish") \in Steps /\ Step("wait") \in Steps
  /\ Step("check").do = "check" /\ Step("finish").do = "finish" /\ Step("return").do = "return"
  /\ Step("glFinish").do = "glFinish" /\ Step("wait").do = "wait"
  /\ Posted(Step("check")) = {} /\ Posted(Step("finish")) = {} /\ Posted(Step("return")) = {}
  /\ Posted(Step("glFinish")) = {} /\ Posted(Step("wait")) = {}
  /\ \A op \in ImageOps :
       /\ Plain(op) \in Commands /\ Plain(op).op = op
       /\ Plain(op).mem = "none" /\ Plain(op).cells = {}
       /\ <<Plain(op)>> \in Seq(Commands) /\ Len(<<Plain(op)>>) = 1 /\ <<Plain(op)>>[1] = Plain(op)
       /\ Enqueue(<<Plain(op)>>) \in Steps /\ Posted(Enqueue(<<Plain(op)>>)) = {Plain(op)}
       /\ Enqueue(<<Plain(op)>>).do = "enqueue" /\ Enqueue(<<Plain(op)>>).cmds = <<Plain(op)>>
<1>1. << >> \in Seq(Commands)
  BY EmptySeq
<1>2. /\ Step("check") \in Steps /\ Step("finish") \in Steps /\ Step("return") \in Steps
      /\ Step("glFinish") \in Steps /\ Step("wait") \in Steps
      /\ Step("check").do = "check" /\ Step("finish").do = "finish" /\ Step("return").do = "return"
      /\ Step("glFinish").do = "glFinish" /\ Step("wait").do = "wait"
      /\ Posted(Step("check")) = {} /\ Posted(Step("finish")) = {} /\ Posted(Step("return")) = {}
      /\ Posted(Step("glFinish")) = {} /\ Posted(Step("wait")) = {}
  BY <1>1 DEF Step, Steps, Waiters, Posted
<1>3. ASSUME NEW op \in ImageOps
      PROVE  /\ Plain(op) \in Commands /\ Plain(op).op = op
             /\ Plain(op).mem = "none" /\ Plain(op).cells = {}
  BY DEF Plain, Command, Commands
<1>4. ASSUME NEW cmd \in Commands
      PROVE  /\ <<cmd>> \in Seq(Commands) /\ Len(<<cmd>>) = 1 /\ <<cmd>>[1] = cmd
             /\ Enqueue(<<cmd>>) \in Steps /\ Posted(Enqueue(<<cmd>>)) = {cmd}
             /\ Enqueue(<<cmd>>).do = "enqueue" /\ Enqueue(<<cmd>>).cmds = <<cmd>>
  <2>1. <<cmd>> \in Seq(Commands) /\ Len(<<cmd>>) = 1 /\ <<cmd>>[1] = cmd /\ Range(<<cmd>>) = {cmd}
    BY DEF Range
  <2> QED BY <2>1, StepsTyped DEF Enqueue
<1> QED BY <1>2, <1>3, <1>4

LEMMA CopySpelledOut ==
  /\ CopyImage \o <<Step("return")>> = OpenGLSteps
  /\ CopyHostMemory \o <<Step("return")>> = HostSteps
<1> DEFINE a == Enqueue(<<Plain("acquire")>>)
           b == Enqueue(<<Plain("copy")>>)
           c == Enqueue(<<Plain("release")>>)
           g == Step("glFinish")
           f == Step("finish")
           k == Step("check")
           w == Step("wait")
           r == Step("return")
<1>1. /\ a \in Steps /\ b \in Steps /\ c \in Steps /\ g \in Steps
      /\ f \in Steps /\ k \in Steps /\ w \in Steps /\ r \in Steps
  BY CopyStepsTyped DEF ImageOps
<1>2. CopyImage = ((((<<g>> \o <<a, k>>) \o <<f, k>>) \o <<b, k>>) \o <<f, k>>) \o <<c, k>>
  BY DEF CopyImage, Checked, FinishChecked
<1>3. OpenGLSteps = <<g, a, k, f, k, b, k, f, k, c, k, r>>
  BY DEF OpenGLSteps
<1>4. CopyHostMemory = <<b, k>> \o <<w, k>> /\ HostSteps = <<b, k, w, k, r>>
  BY DEF CopyHostMemory, Checked, HostSteps
<1> HIDE DEF a, b, c, g, f, k, w, r
<1>5. CopyImage \o <<r>> = OpenGLSteps
  <2>1. (((((<<g>> \o <<a, k>>) \o <<f, k>>) \o <<b, k>>) \o <<f, k>>) \o <<c, k>>) \o <<r>>
          = <<g, a, k, f, k, b, k, f, k, c, k, r>>
    <3>1. \A a_, b_, c_, k_, f_, r_ \in Steps :
            (((((<<g>> \o <<a_, k_>>) \o <<f_, k_>>) \o <<b_, k_>>) \o <<f_, k_>>) \o <<c_, k_>>) \o <<r_>>
              = <<g, a_, k_, f_, k_, b_, k_, f_, k_, c_, k_, r_>>
      BY ONLY <1>1, Twelve, Zenon
    <3>2. \A b_, c_, k_, f_, r_ \in Steps :
            (((((<<g>> \o <<a, k_>>) \o <<f_, k_>>) \o <<b_, k_>>) \o <<f_, k_>>) \o <<c_, k_>>) \o <<r_>>
              = <<g, a, k_, f_, k_, b_, k_, f_, k_, c_, k_, r_>>
      BY ONLY <1>1, <3>1, Zenon
    <3>3. \A c_, k_, f_, r_ \in Steps :
            (((((<<g>> \o <<a, k_>>) \o <<f_, k_>>) \o <<b, k_>>) \o <<f_, k_>>) \o <<c_, k_>>) \o <<r_>>
              = <<g, a, k_, f_, k_, b, k_, f_, k_, c_, k_, r_>>
      BY ONLY <1>1, <3>2, Zenon
    <3>4. \A k_, f_, r_ \in Steps :
            (((((<<g>> \o <<a, k_>>) \o <<f_, k_>>) \o <<b, k_>>) \o <<f_, k_>>) \o <<c, k_>>) \o <<r_>>
              = <<g, a, k_, f_, k_, b, k_, f_, k_, c, k_, r_>>
      BY ONLY <1>1, <3>3, Zenon
    <3> QED BY ONLY <1>1, <3>4, Zenon
  <2> QED BY ONLY <1>2, <1>3, <2>1, Zenon
<1>6. (<<b, k>> \o <<w, k>>) \o <<r>> = <<b, k, w, k, r>>
  <2>1. <<b, k>> \o <<w, k>> = <<b, k, w, k>>
    <3>1. /\ <<b, k>> \in Seq(Steps) /\ Len(<<b, k>>) = 2
          /\ <<b, k, w, k>> \in Seq(Steps) /\ Len(<<b, k, w, k>>) = 4
          /\ \A i \in 1 .. 2 : <<b, k, w, k>>[i] = <<b, k>>[i]
          /\ <<b, k, w, k>>[3] = w /\ <<b, k, w, k>>[4] = k
      BY <1>1
    <3>2. ASSUME NEW s \in Seq(Steps), NEW u \in Seq(Steps), Len(s) = 2, Len(u) = 4,
                 \A i \in 1 .. 2 : u[i] = s[i], u[3] = w, u[4] = k
          PROVE  s \o <<w, k>> = u
      <4>1. /\ Len(u) = Len(s) + 2 /\ u[Len(u) - 1] = w /\ u[Len(u)] = k
            /\ \A i \in 1 .. Len(s) : u[i] = s[i]
        BY <3>2
      <4> QED BY ONLY <4>1, <1>1, s \in Seq(Steps), u \in Seq(Steps), LongerByTwo
    <3> QED BY ONLY <3>1, <3>2, Zenon
  <2>2. <<b, k, w, k>> \o <<r>> = <<b, k, w, k, r>>
    <3>1. /\ <<b, k, w, k>> \in Seq(Steps) /\ Len(<<b, k, w, k>>) = 4
          /\ <<b, k, w, k, r>> \in Seq(Steps) /\ Len(<<b, k, w, k, r>>) = 5
          /\ \A i \in 1 .. 4 : <<b, k, w, k, r>>[i] = <<b, k, w, k>>[i]
          /\ <<b, k, w, k, r>>[5] = r
      BY <1>1
    <3>2. ASSUME NEW s \in Seq(Steps), NEW u \in Seq(Steps), Len(s) = 4, Len(u) = 5,
                 \A i \in 1 .. 4 : u[i] = s[i], u[5] = r
          PROVE  s \o <<r>> = u
      <4>1. /\ Len(u) = Len(s) + 1 /\ u[Len(u)] = r
            /\ \A i \in 1 .. Len(s) : u[i] = s[i]
        BY <3>2
      <4> QED BY ONLY <4>1, <1>1, s \in Seq(Steps), u \in Seq(Steps), LongerByOne
    <3> QED BY ONLY <3>1, <3>2, Zenon
  <2> QED BY ONLY <2>1, <2>2, Zenon
<1> QED BY <1>4, <1>5, <1>6, Zenon DEF r

\* What the steps of the copies are.
EnqueuesOnly(step, op) ==
  /\ step.do = "enqueue" /\ step.cmds = <<Plain(op)>> /\ Posted(step) = {Plain(op)}
WaitsOnly(step, do) == step.do = do /\ Posted(step) = {}

LEMMA CopyShapes ==
  /\ OpenGLSteps \in Seq(Steps) /\ Len(OpenGLSteps) = 12 /\ DOMAIN OpenGLSteps = 1 .. 12
  /\ WaitsOnly(OpenGLSteps[1], "glFinish") /\ EnqueuesOnly(OpenGLSteps[2], "acquire")
  /\ WaitsOnly(OpenGLSteps[3], "check") /\ WaitsOnly(OpenGLSteps[4], "finish")
  /\ WaitsOnly(OpenGLSteps[5], "check") /\ EnqueuesOnly(OpenGLSteps[6], "copy")
  /\ WaitsOnly(OpenGLSteps[7], "check") /\ WaitsOnly(OpenGLSteps[8], "finish")
  /\ WaitsOnly(OpenGLSteps[9], "check") /\ EnqueuesOnly(OpenGLSteps[10], "release")
  /\ WaitsOnly(OpenGLSteps[11], "check") /\ WaitsOnly(OpenGLSteps[12], "return")
  /\ HostSteps \in Seq(Steps) /\ Len(HostSteps) = 5 /\ DOMAIN HostSteps = 1 .. 5
  /\ EnqueuesOnly(HostSteps[1], "copy") /\ WaitsOnly(HostSteps[2], "check")
  /\ WaitsOnly(HostSteps[3], "wait") /\ WaitsOnly(HostSteps[4], "check")
  /\ WaitsOnly(HostSteps[5], "return")
<1> DEFINE a == Enqueue(<<Plain("acquire")>>)
           b == Enqueue(<<Plain("copy")>>)
           c == Enqueue(<<Plain("release")>>)
           g == Step("glFinish")
           f == Step("finish")
           k == Step("check")
           w == Step("wait")
           r == Step("return")
<1>1. /\ a \in Steps /\ b \in Steps /\ c \in Steps /\ g \in Steps
      /\ f \in Steps /\ k \in Steps /\ w \in Steps /\ r \in Steps
  BY CopyStepsTyped DEF ImageOps
<1>2. /\ EnqueuesOnly(a, "acquire") /\ EnqueuesOnly(b, "copy") /\ EnqueuesOnly(c, "release")
      /\ WaitsOnly(g, "glFinish") /\ WaitsOnly(f, "finish") /\ WaitsOnly(k, "check")
      /\ WaitsOnly(w, "wait") /\ WaitsOnly(r, "return")
  BY CopyStepsTyped DEF ImageOps, EnqueuesOnly, WaitsOnly
<1>3. OpenGLSteps = <<g, a, k, f, k, b, k, f, k, c, k, r>> /\ HostSteps = <<b, k, w, k, r>>
  BY DEF OpenGLSteps, HostSteps
<1> HIDE DEF a, b, c, g, f, k, w, r
<1>4. /\ OpenGLSteps \in Seq(Steps) /\ Len(OpenGLSteps) = 12 /\ DOMAIN OpenGLSteps = 1 .. 12
      /\ OpenGLSteps[1] = g /\ OpenGLSteps[2] = a /\ OpenGLSteps[3] = k /\ OpenGLSteps[4] = f
      /\ OpenGLSteps[5] = k /\ OpenGLSteps[6] = b /\ OpenGLSteps[7] = k /\ OpenGLSteps[8] = f
      /\ OpenGLSteps[9] = k /\ OpenGLSteps[10] = c /\ OpenGLSteps[11] = k /\ OpenGLSteps[12] = r
  BY <1>1, <1>3
<1>5. /\ HostSteps \in Seq(Steps) /\ Len(HostSteps) = 5 /\ DOMAIN HostSteps = 1 .. 5
      /\ HostSteps[1] = b /\ HostSteps[2] = k /\ HostSteps[3] = w /\ HostSteps[4] = k
      /\ HostSteps[5] = r
  BY <1>1, <1>3
<1> QED BY <1>2, <1>4, <1>5

LEMMA OpenGLCopy ==
  /\ Returns(OpenGLSteps) /\ Waits(OpenGLSteps) /\ FinishedFrom(OpenGLSteps, 1) /\ NoSaves(OpenGLSteps)
  /\ \A cells : Uses(OpenGLSteps, ImageOps, "none", cells)
<1> SUFFICES ASSUME NEW s, s = OpenGLSteps
             PROVE  /\ Returns(s) /\ Waits(s) /\ FinishedFrom(s, 1) /\ NoSaves(s)
                    /\ \A cells : Uses(s, ImageOps, "none", cells)
  OBVIOUS
<1>1. DOMAIN s = 1 .. 12 /\ Len(s) = 12
  BY CopyShapes
<1>2. /\ s[1].do = "glFinish" /\ s[2].do = "enqueue" /\ s[3].do = "check" /\ s[4].do = "finish"
      /\ s[5].do = "check" /\ s[6].do = "enqueue" /\ s[7].do = "check" /\ s[8].do = "finish"
      /\ s[9].do = "check" /\ s[10].do = "enqueue" /\ s[11].do = "check" /\ s[12].do = "return"
  BY CopyShapes DEF EnqueuesOnly, WaitsOnly
<1>3. /\ Posted(s[1]) = {} /\ Posted(s[2]) = {Plain("acquire")} /\ Posted(s[3]) = {}
      /\ Posted(s[4]) = {} /\ Posted(s[5]) = {} /\ Posted(s[6]) = {Plain("copy")}
      /\ Posted(s[7]) = {} /\ Posted(s[8]) = {} /\ Posted(s[9]) = {}
      /\ Posted(s[10]) = {Plain("release")} /\ Posted(s[11]) = {} /\ Posted(s[12]) = {}
  BY CopyShapes DEF EnqueuesOnly, WaitsOnly
<1>4. \A op \in ImageOps : Plain(op).op = op /\ Plain(op).mem = "none" /\ Plain(op).cells = {}
  BY CopyStepsTyped
<1> HIDE DEF OpenGLSteps
<1>5. \A i \in 1 .. 12 : i = 1 \/ i = 2 \/ i = 3 \/ i = 4 \/ i = 5 \/ i = 6 \/ i = 7 \/ i = 8 \/ i = 9 \/ i = 10 \/ i = 11 \/ i = 12
  OBVIOUS
<1>6. Returns(s)
  BY ONLY <1>1, <1>2, <1>5 DEF Returns
<1>7. FinishedFrom(s, 1)
  <2>1. s[1].do \notin Saves \cup {"return"} /\ s[2].do \notin Saves \cup {"return"} /\ s[3].do \notin Saves \cup {"return"} /\ s[4].do \notin Saves \cup {"return"}
    BY ONLY <1>2 DEF Saves
  <2>2. \A k \in 1 .. 4 : k = 1 \/ k = 2 \/ k = 3 \/ k = 4
    OBVIOUS
  <2>3. \A k \in 1 .. 4 : s[k].do \notin Saves \cup {"return"}
    BY ONLY <2>1, <2>2, Zenon
  <2> QED BY ONLY <1>1, <1>2, <2>3 DEF FinishedFrom, Waiters
<1>8. FinishedFrom(s, 2)
  <2>1. s[2].do \notin Saves \cup {"return"} /\ s[3].do \notin Saves \cup {"return"} /\ s[4].do \notin Saves \cup {"return"}
    BY ONLY <1>2 DEF Saves
  <2>2. \A k \in 2 .. 4 : k = 2 \/ k = 3 \/ k = 4
    OBVIOUS
  <2>3. \A k \in 2 .. 4 : s[k].do \notin Saves \cup {"return"}
    BY ONLY <2>1, <2>2, Zenon
  <2> QED BY ONLY <1>1, <1>2, <2>3 DEF FinishedFrom, Waiters
<1>9. FinishedFrom(s, 6)
  <2>1. s[6].do \notin Saves \cup {"return"} /\ s[7].do \notin Saves \cup {"return"} /\ s[8].do \notin Saves \cup {"return"}
    BY ONLY <1>2 DEF Saves
  <2>2. \A k \in 6 .. 8 : k = 6 \/ k = 7 \/ k = 8
    OBVIOUS
  <2>3. \A k \in 6 .. 8 : s[k].do \notin Saves \cup {"return"}
    BY ONLY <2>1, <2>2, Zenon
  <2> QED BY ONLY <1>1, <1>2, <2>3 DEF FinishedFrom, Waiters
<1>10. Waits(s)
  <2>1. ASSUME NEW i \in DOMAIN s, NEW cmd \in Posted(s[i]), cmd.op # "release"
        PROVE  i = 2 \/ i = 6
    <3>1. i = 2 \/ i = 6 \/ i = 10
      BY ONLY <2>1, <1>1, <1>3, <1>5, Zenon
    <3>2. i # 10
      BY ONLY <2>1, <1>3, <1>4 DEF ImageOps
    <3> QED BY <3>1, <3>2
  <2> QED BY ONLY <2>1, <1>8, <1>9, Zenon DEF Waits
<1>11. ASSUME NEW cells PROVE Uses(s, ImageOps, "none", cells)
  <2>1. ASSUME NEW i \in DOMAIN s, NEW cmd \in Posted(s[i])
        PROVE  \E op \in ImageOps : cmd = Plain(op)
    <3>1. i = 2 \/ i = 6 \/ i = 10
      BY ONLY <2>1, <1>1, <1>3, <1>5, Zenon
    <3> QED BY ONLY <2>1, <3>1, <1>3 DEF ImageOps
  <2> QED BY ONLY <2>1, <1>4 DEF Uses
<1>12. NoSaves(s)
  BY ONLY <1>1, <1>2, <1>5 DEF NoSaves, Saves
<1> QED BY <1>6, <1>7, <1>10, <1>11, <1>12

LEMMA HostCopy ==
  /\ Returns(HostSteps) /\ Waits(HostSteps) /\ FinishedFrom(HostSteps, 1) /\ NoSaves(HostSteps)
  /\ \A cells : Uses(HostSteps, ImageOps, "none", cells)
<1> SUFFICES ASSUME NEW s, s = HostSteps
             PROVE  /\ Returns(s) /\ Waits(s) /\ FinishedFrom(s, 1) /\ NoSaves(s)
                    /\ \A cells : Uses(s, ImageOps, "none", cells)
  OBVIOUS
<1>1. DOMAIN s = 1 .. 5 /\ Len(s) = 5
  BY CopyShapes
<1>2. /\ s[1].do = "enqueue" /\ s[2].do = "check" /\ s[3].do = "wait" /\ s[4].do = "check"
      /\ s[5].do = "return"
  BY CopyShapes DEF EnqueuesOnly, WaitsOnly
<1>3. /\ Posted(s[1]) = {Plain("copy")} /\ Posted(s[2]) = {} /\ Posted(s[3]) = {}
      /\ Posted(s[4]) = {} /\ Posted(s[5]) = {}
  BY CopyShapes DEF EnqueuesOnly, WaitsOnly
<1>4. \A op \in ImageOps : Plain(op).op = op /\ Plain(op).mem = "none" /\ Plain(op).cells = {}
  BY CopyStepsTyped
<1> HIDE DEF HostSteps
<1>5. \A i \in 1 .. 5 : i = 1 \/ i = 2 \/ i = 3 \/ i = 4 \/ i = 5
  OBVIOUS
<1>6. Returns(s)
  BY ONLY <1>1, <1>2, <1>5 DEF Returns
<1>7. FinishedFrom(s, 1)
  <2>1. s[1].do \notin Saves \cup {"return"} /\ s[2].do \notin Saves \cup {"return"} /\ s[3].do \notin Saves \cup {"return"}
    BY ONLY <1>2 DEF Saves
  <2>2. \A k \in 1 .. 3 : k = 1 \/ k = 2 \/ k = 3
    OBVIOUS
  <2>3. \A k \in 1 .. 3 : s[k].do \notin Saves \cup {"return"}
    BY ONLY <2>1, <2>2, Zenon
  <2> QED BY ONLY <1>1, <1>2, <2>3 DEF FinishedFrom, Waiters
<1>8. Waits(s)
  <2>1. ASSUME NEW i \in DOMAIN s, NEW cmd \in Posted(s[i])
        PROVE  i = 1
    BY ONLY <2>1, <1>1, <1>3, <1>5, Zenon
  <2> QED BY ONLY <2>1, <1>7, Zenon DEF Waits
<1>9. ASSUME NEW cells PROVE Uses(s, ImageOps, "none", cells)
  <2>1. ASSUME NEW i \in DOMAIN s, NEW cmd \in Posted(s[i])
        PROVE  \E op \in ImageOps : cmd = Plain(op)
    <3>1. i = 1
      BY ONLY <2>1, <1>1, <1>3, <1>5, Zenon
    <3> QED BY ONLY <2>1, <3>1, <1>3 DEF ImageOps
  <2> QED BY ONLY <2>1, <1>4 DEF Uses
<1>10. NoSaves(s)
  BY ONLY <1>1, <1>2, <1>5 DEF NoSaves, Saves
<1> QED BY <1>6, <1>7, <1>8, <1>9, <1>10

LEMMA CopyCall ==
  /\ CopySteps = (IF source = "HOST_MEMORY" THEN CopyHostMemory ELSE CopyImage) \o <<Step("return")>>
  /\ \A cells : Script("CopyImageToBuffer", CopySteps, cells)
<1>1. CopySteps = (IF source = "HOST_MEMORY" THEN CopyHostMemory ELSE CopyImage) \o <<Step("return")>>
  BY CopySpelledOut DEF CopySteps
<1>2. CopySteps \in {OpenGLSteps, HostSteps}
  BY DEF CopySteps
<1>3. ASSUME NEW cells, NEW s \in {OpenGLSteps, HostSteps}
      PROVE  Script("CopyImageToBuffer", s, cells)
  <2>1. s \in Seq(Steps) /\ s # << >>
    <3>1. s \in Seq(Steps) /\ 1 \in DOMAIN s
      BY CopyShapes
    <3>2. DOMAIN << >> = {}
      OBVIOUS
    <3> QED BY ONLY <3>1, <3>2, Zenon
  <2>2. /\ Returns(s) /\ Waits(s) /\ FinishedFrom(s, 1)
        /\ Uses(s, ImageOps, "none", cells)
    BY ONLY s \in {OpenGLSteps, HostSteps}, OpenGLCopy, HostCopy, Zenon
  <2> QED BY ONLY <2>1, <2>2, CallUses DEF Script, DataCalls, Uploads
<1> QED BY ONLY <1>1, <1>2, <1>3, Zenon

-----------------------------------------------------------------------------
(* The steps of a call *)

LEMMA Allocation ==
  (upload' = upload /\ counts' = counts) => Allocated' = Allocated
BY DEF Allocated

\* A call goes on up to its return.
LEMMA GoesOn ==
  ASSUME Typed, Scheduled, ~Idle
  PROVE  /\ todo \in Seq(Steps) /\ todo # << >> /\ Head(todo) = todo[1] /\ todo[1] \in Steps
         /\ Len(todo) \in Nat \ {0} /\ DOMAIN todo = 1 .. Len(todo)
         /\ Tail(todo) \in Seq(Steps) /\ Len(Tail(todo)) = Len(todo) - 1
         /\ DOMAIN Tail(todo) = 1 .. Len(todo) - 1
         /\ \A i \in 1 .. Len(todo) - 1 : i + 1 \in DOMAIN todo /\ Tail(todo)[i] = todo[i + 1]
         /\ todo[1].do = "return" => Len(todo) = 1
         /\ todo[1].do # "return" => Len(todo) >= 2 /\ Tail(todo) # << >>
<1>1. todo \in Seq(Steps) /\ todo # << >> /\ Returns(todo)
  BY DEF Typed, Scheduled, Idle
<1>2. /\ Head(todo) = todo[1] /\ todo[1] \in Steps /\ Tail(todo) \in Seq(Steps)
      /\ Len(todo) \in Nat \ {0} /\ DOMAIN todo = 1 .. Len(todo)
      /\ Len(Tail(todo)) = Len(todo) - 1 /\ DOMAIN Tail(todo) = 1 .. Len(todo) - 1
      /\ \A i \in 1 .. Len(todo) - 1 : Tail(todo)[i] = todo[i + 1]
  BY <1>1, HeadAndTail
<1>3. todo[1].do = "return" <=> Len(todo) = 1
  BY <1>1, <1>2 DEF Returns
<1>4. ASSUME Len(todo) >= 2 PROVE Tail(todo) # << >>
  <2>1. 1 \in DOMAIN Tail(todo)
    BY <1>2, <1>4
  <2>2. DOMAIN << >> = {}
    OBVIOUS
  <2> QED BY ONLY <2>1, <2>2, Zenon
<1>5. \A i \in 1 .. Len(todo) - 1 : i + 1 \in DOMAIN todo
  BY <1>2
<1>6. todo[1].do # "return" => Len(todo) >= 2
  BY <1>2, <1>3
<1> QED BY <1>1, <1>2, <1>3, <1>4, <1>5, <1>6

LEMMA StepOn ==
  ASSUME Typed, Scheduled, ~Idle, todo[1].do # "return",
         todo' = Tail(todo), call' = call, outcome' = outcome, upload' = upload, counts' = counts,
         ignored' = ignored \/ call # "CopyImageToBuffer"
  PROVE  Scheduled' /\ ~Idle' /\ todo' \in Seq(Steps)
<1>1. /\ todo' \in Seq(Steps) /\ todo' # << >> /\ todo # << >> /\ todo \in Seq(Steps)
  BY GoesOn
<1>2. /\ Returns(todo) => Returns(todo')
      /\ Waits(todo) => Waits(todo')
      /\ ChecksGroups(todo) => ChecksGroups(todo')
      /\ \A ops, mem, cells : Uses(todo, ops, mem, cells) => Uses(todo', ops, mem, cells)
  BY <1>1, TailKeeps
<1>3. Allocated' = Allocated
  BY Allocation
<1> QED BY <1>1, <1>2, <1>3 DEF Scheduled, Idle

LEMMA WaitsOn ==
  ASSUME Typed, Scheduled, ~Idle, FinishedFrom(todo, 1), todo[1].do \notin Waiters
  PROVE  FinishedFrom(Tail(todo), 1)
<1>1. PICK j \in DOMAIN todo : /\ 1 <= j /\ todo[j].do \in Waiters
                               /\ \A k \in 1 .. j : todo[k].do \notin Saves \cup {"return"}
  BY DEF FinishedFrom
<1>2. DOMAIN todo = 1 .. Len(todo) /\ Len(todo) \in Nat /\ todo \in Seq(Steps) /\ todo # << >>
  BY GoesOn
<1>3. j >= 2 /\ 1 \in 1 .. Len(todo) - 1
  <2>1. j # 1
    BY <1>1
  <2> QED BY <2>1, <1>1, <1>2
<1>4. FinishedFrom(todo, 1 + 1)
  BY <1>1, <1>2, <1>3 DEF FinishedFrom
<1> QED BY ONLY <1>2, <1>3, <1>4, FinishedTail

\* Nothing is waited for from a save or a return on.
LEMMA Waited ==
  ASSUME Typed, Scheduled, Queued, ~Idle, ~ignored, todo[1].do \in Saves \cup {"return"}
  PROVE  \A k \in DOMAIN queue :
           queue[k].op = "release" /\ queue[k].mem = "none" /\ call \notin DataCalls
<1>1. ~FinishedFrom(todo, 1)
  <2> SUFFICES ASSUME NEW j \in DOMAIN todo, 1 <= j,
                      \A k \in 1 .. j : todo[k].do \notin Saves \cup {"return"}
               PROVE  FALSE
    BY DEF FinishedFrom
  <2> QED BY GoesOn
<1>2. ~Throwing
  BY GoesOn DEF Throwing, Saves
<1> QED BY <1>1, <1>2 DEF Queued, ImageOps

\* What is in the queue after a group has been enqueued.
LEMMA Enqueued ==
  ASSUME Typed, Scheduled, EnqueueGroup
  PROVE  /\ ~Idle /\ todo[1].do = "enqueue" /\ todo' = Tail(todo)
         /\ call' = call /\ outcome' = outcome /\ ignored' = ignored /\ refused' \in BOOLEAN
         /\ queue' \in Seq(Commands)
         /\ \A k \in DOMAIN queue : k \in DOMAIN queue' /\ queue'[k] = queue[k]
         /\ \A k \in DOMAIN queue' : k \in Nat /\
              (k \in DOMAIN queue \/ queue'[k] \in Posted(todo[1]))
         /\ \A k \in DOMAIN queue' : \A j \in 1 .. k - 1 :
              j \in DOMAIN queue' /\ (k \in DOMAIN queue => j \in DOMAIN queue)
         /\ ~refused' => \A cmd \in Posted(todo[1]) : \E k \in DOMAIN queue' : queue'[k] = cmd
<1>1. /\ ~Idle /\ todo[1].do = "enqueue" /\ todo[1] \in Steps
      /\ todo' = Tail(todo) /\ call' = call /\ outcome' = outcome /\ ignored' = ignored
  BY GoesOn DEF EnqueueGroup, Does, Proceeds
<1> DEFINE cmds == todo[1].cmds
<1>2. cmds \in Seq(Commands) /\ Posted(todo[1]) = Range(cmds)
  BY <1>1 DEF Steps, Posted
<1>3. PICK n \in 0 .. Len(cmds) : \E sent \in [1 .. n -> DOMAIN cmds] :
        /\ queue' = queue \o [k \in 1 .. n |-> cmds[sent[k]]]
        /\ refused' = (Range(sent) # DOMAIN cmds)
  BY <1>1, GoesOn DEF EnqueueGroup
<1>20. PICK sent \in [1 .. n -> DOMAIN cmds] :
      /\ queue' = queue \o [k \in 1 .. n |-> cmds[sent[k]]]
      /\ refused' = (Range(sent) # DOMAIN cmds)
  BY <1>3
<1> HIDE DEF cmds
<1> DEFINE q == [k \in 1 .. n |-> cmds[sent[k]]]
<1>4. n \in Nat /\ Len(cmds) \in Nat /\ DOMAIN cmds = 1 .. Len(cmds)
  BY <1>2, LenProperties
<1>5. \A k \in 1 .. n : cmds[sent[k]] \in Range(cmds) /\ cmds[sent[k]] \in Commands
  <2>1. \A k \in DOMAIN cmds : cmds[k] \in Commands /\ cmds[k] \in Range(cmds)
    BY <1>2, <1>4, ElementOfSeq DEF Range
  <2> QED BY <2>1
<1>6. /\ q \in Seq(Commands) /\ Len(q) = n /\ \A k \in 1 .. n : q[k] = cmds[sent[k]]
  BY <1>4, <1>5
<1> HIDE DEF q
<1>7. queue \in Seq(Commands)
  BY DEF Typed
<1>8. queue' = queue \o q
  BY <1>20 DEF q
<1>9. /\ queue' \in Seq(Commands)
      /\ Len(queue) \in Nat /\ DOMAIN queue = 1 .. Len(queue) /\ DOMAIN queue' = 1 .. Len(queue) + n
      /\ \A k \in 1 .. Len(queue) : queue'[k] = queue[k]
      /\ \A k \in 1 .. n : queue'[Len(queue) + k] = q[k]
  <2>1. /\ queue \o q \in Seq(Commands)
        /\ Len(queue) \in Nat /\ DOMAIN queue = 1 .. Len(queue)
        /\ DOMAIN (queue \o q) = 1 .. Len(queue) + Len(q)
        /\ \A k \in 1 .. Len(queue) : (queue \o q)[k] = queue[k]
        /\ \A k \in 1 .. Len(q) : (queue \o q)[Len(queue) + k] = q[k]
    BY ONLY <1>6, <1>7, Concatenation
  <2> QED BY ONLY <1>6, <1>8, <2>1, Zenon
<1>10. ASSUME NEW k \in DOMAIN queue', k \notin DOMAIN queue
       PROVE  queue'[k] \in Posted(todo[1])
  <2>1. k - Len(queue) \in 1 .. n /\ k = Len(queue) + (k - Len(queue))
    BY <1>4, <1>9, <1>10
  <2> QED BY <2>1, <1>2, <1>5, <1>6, <1>9
<1>11. ASSUME ~refused', NEW cmd \in Posted(todo[1])
       PROVE  \E k \in DOMAIN queue' : queue'[k] = cmd
  <2>1. PICK i \in DOMAIN cmds : cmd = cmds[i]
    BY <1>2, <1>11 DEF Range
  <2>3. Range(sent) = DOMAIN cmds
    BY ONLY <1>20, <1>11, Zenon
  <2>2. PICK k \in 1 .. n : sent[k] = i
    BY <2>1, <2>3 DEF Range
  <2>4. Len(queue) + k \in DOMAIN queue' /\ queue'[Len(queue) + k] = cmd
    BY <1>4, <1>6, <1>9, <2>1, <2>2
  <2> QED BY <2>4
<1>13. refused' \in BOOLEAN
  BY ONLY <1>20, Zenon
<1>15. \A k \in DOMAIN queue' : k \in Nat /\ \A j \in 1 .. k - 1 :
         j \in DOMAIN queue' /\ (k \in DOMAIN queue => j \in DOMAIN queue)
  BY <1>4, <1>9
<1>16. \A k \in DOMAIN queue : k \in DOMAIN queue' /\ queue'[k] = queue[k]
  BY <1>4, <1>9
<1> QED BY <1>1, <1>9, <1>10, <1>11, <1>13, <1>15, <1>16 DEF cmds

-----------------------------------------------------------------------------
(* Calls that begin *)

\* Between calls only the leftovers of calls that ended are in the queue.
LEMMA Leftovers ==
  ASSUME Queued, Idle
  PROVE  \A k \in DOMAIN queue : queue[k].mem \notin {"local", "caller"}
BY DEF Queued

LEMMA Begins ==
  ASSUME IInv, Idle, NEW op \in Listed, NEW s, Script(op, s, Allocated'),
         queue' = queue, todo' = s, refused' = FALSE, call' = op, outcome' = "running",
         ignored' = FALSE,
         Allocated \subseteq Allocated', arrays' = arrays,
         op \in DataCalls => upload' # "none",
         op \in Uploads => upload' = "partial",
         op = "GetData" => NoSaves(s)
  PROVE  ~Idle' /\ todo' \in Seq(Steps) /\ Scheduled' /\ Queued' /\ Getting'
<1>1. /\ todo' \in Seq(Steps) /\ todo' # << >>
      /\ Returns(todo') /\ Waits(todo') /\ FinishedFrom(todo', 1)
      /\ Uses(todo', OpsOf(call'), MemOf(call'), Allocated')
      /\ call' \in DataCalls => ChecksGroups(todo')
  BY DEF Script
<1>2. ~Idle'
  BY <1>1 DEF Idle
<1>3. Scheduled'
  BY <1>1, <1>2 DEF Scheduled
<1>4. \A k \in DOMAIN queue : queue[k].mem \notin {"local", "caller"}
  BY Leftovers DEF IInv
<1>5. Queued'
  BY <1>1, <1>2, <1>4 DEF IInv, Queued
<1>6. Getting'
  BY <1>2, <1>4 DEF Getting, NoSaves
<1> QED BY <1>1, <1>2, <1>3, <1>5, <1>6

LEMMA UploadBegins ==
  ASSUME IInv, Idle, NEW d \in Count, NEW op \in Uploads,
         Upload(op, CopyToDevice(d), d), upload = "none" \/ d = counts, UNCHANGED imageVars
  PROVE  IInv'
<1> DEFINE script == CopyToDevice(d) \o <<Step("return")>>
<1>1. /\ queue' = queue /\ todo' = script /\ refused' = FALSE /\ call' = op /\ outcome' = "running"
      /\ ignored' = FALSE
      /\ upload' = "partial" /\ counts' = d /\ stale' = AllocateMemory(d)
      /\ exported' \in {"nothing", "current", "other", "unknown"} /\ arrays' = arrays /\ corrupted' = corrupted
  BY DEF Upload, Calls, IInv, Typed
<1>2. /\ Script(op, script, AllocateMemory(d)) /\ NoSaves(script)
      /\ \A c \in AllocateMemory(d) : Coming(script, 1, Len(script), c)
  BY UploadCall
<1> HIDE DEF script
<1>3. Allocated' = AllocateMemory(d) /\ Allocated \subseteq Allocated'
  BY <1>1 DEF Allocated
<1>4. op \in Listed /\ op \in DataCalls /\ op \notin {"ExportData", "GetData", "CopyImageToBuffer"}
  BY DEF Listed, DataCalls, Uploads
<1>5. ~Idle' /\ todo' \in Seq(Steps) /\ Scheduled' /\ Queued' /\ Getting'
  BY <1>1, <1>2, <1>3, <1>4, Begins
<1>6. Typed'
  BY <1>1, <1>3, <1>5 DEF IInv, Typed, imageVars
<1>7. Uploaded'
  BY <1>1 DEF Uploaded
<1>8. Uploading'
  BY <1>1, <1>2, <1>3 DEF Uploading, NoSaves
<1>9. Exporting' /\ Copying'
  BY <1>1, <1>4 DEF IInv, Exporting, Copying, imageVars
<1> QED BY <1>5, <1>6, <1>7, <1>8, <1>9 DEF IInv

LEMMA PaddedTyped ==
  ASSUME NEW d \in Count
  PROVE  Padded(d) \in Count
<1>1. d.nUV \in Nat
  BY DEF Count
<1>2. (d.nUV \div UVBlock + 1) * UVBlock \in Nat
  BY <1>1 DEF UVBlock
<1> QED BY <1>2 DEF Padded, NextHighestMultiple, Count

LEMMA LoadDataKeeps ==
  ASSUME IInv, LoadData, UNCHANGED imageVars
  PROVE  IInv'
<1>1. PICK d \in DataSets :
        /\ upload = "none"
        /\ Upload("LoadData", CopyToDevice(Padded(d)), Padded(d))
  BY DEF LoadData
<1>2. Padded(d) \in Count
  BY TransferAssumption, PaddedTyped
<1>3. Idle
  BY <1>1 DEF Upload, Calls
<1>4. "LoadData" \in Uploads
  BY DEF Uploads
<1> SUFFICES ASSUME NEW e \in Count, Upload("LoadData", CopyToDevice(e), e)
             PROVE  IInv'
  BY <1>1, <1>2
<1> QED BY <1>1, <1>3, <1>4, UploadBegins

LEMMA ReplaceDataKeeps ==
  ASSUME IInv, ReplaceData, UNCHANGED imageVars
  PROVE  IInv'
<1>1. CASE Upload("ReplaceData", CopyToDevice(counts), counts)
  <2>1. counts \in Count /\ Idle /\ "ReplaceData" \in Uploads
    BY <1>1 DEF IInv, Typed, Upload, Calls, Uploads
  <2> SUFFICES ASSUME NEW e \in Count, e = counts, Upload("ReplaceData", CopyToDevice(e), e)
               PROVE  IInv'
    BY <1>1, <2>1
  <2> QED BY <2>1, UploadBegins
<1>2. CASE Immediate("ReplaceData", "throw") /\ UNCHANGED <<queue, dataVars>>
  <2>1. /\ Idle /\ Idle' /\ call' = "ReplaceData" /\ outcome' = "throw"
        /\ ignored' = FALSE
        /\ todo' = todo /\ refused' = refused /\ queue' = queue
        /\ UNCHANGED <<counts, upload, stale, arrays, exported, corrupted>>
        /\ UNCHANGED <<source, rendered, owner, overlapped, image, copied>>
    BY <1>2 DEF Immediate, Idle, dataVars, imageVars
  <2>2. Allocated' = Allocated
    BY <2>1, Allocation
  <2>3. Typed' /\ Scheduled' /\ Uploaded'
    BY <2>1, <2>2 DEF IInv, Typed, Scheduled, Uploaded
  <2>4. Queued'
    BY <2>1, <2>2, Leftovers DEF IInv, Queued
  <2>5. Getting'
    BY <2>1, Leftovers DEF IInv, Getting
  <2>6. Uploading' /\ Exporting' /\ Copying'
    BY <2>1 DEF IInv, Uploading, Exporting, Copying
  <2> QED BY <2>3, <2>4, <2>5, <2>6 DEF IInv
<1> QED BY <1>1, <1>2 DEF ReplaceData

LEMMA ExportDataKeeps ==
  ASSUME IInv, ExportData, UNCHANGED imageVars
  PROVE  IInv'
<1>1. PICK simulated \in BOOLEAN :
        /\ upload # "none"
        /\ Calls("ExportData", ExportScript(counts, simulated) \o <<Step("return")>>)
        /\ UNCHANGED dataVars
  BY DEF ExportData
<1> DEFINE script == ExportScript(counts, simulated) \o <<Step("return")>>
<1>2. counts \in Count
  BY DEF IInv, Typed
<1>3. Script("ExportData", script, AllocateMemory(counts)) /\ SavesAll(script, counts)
  BY <1>2, ExportCall
<1>4. /\ Idle /\ queue' = queue /\ todo' = script /\ refused' = FALSE
      /\ call' = "ExportData" /\ outcome' = "running" /\ ignored' = FALSE
      /\ UNCHANGED <<counts, upload, stale, arrays, exported, corrupted>>
      /\ UNCHANGED <<source, rendered, owner, overlapped, image, copied>>
  BY <1>1 DEF Calls, dataVars, imageVars
<1> HIDE DEF script
<1>5. Allocated' = Allocated /\ Allocated = AllocateMemory(counts)
  BY <1>1, <1>4, Allocation DEF Allocated
<1>6. /\ "ExportData" \in Listed /\ "ExportData" \notin Uploads
  BY DEF Listed, DataCalls, Uploads
<1>7. ~Idle' /\ todo' \in Seq(Steps) /\ Scheduled' /\ Queued' /\ Getting'
  BY <1>1, <1>3, <1>4, <1>5, <1>6, Begins
<1>8. Typed' /\ Uploaded' /\ Uploading' /\ Copying'
  BY <1>4, <1>5, <1>6, <1>7 DEF IInv, Typed, Uploaded, Uploading, Copying
<1>9. Exporting'
  <2>1. arrays = {} /\ \A k \in DOMAIN queue : queue[k].mem # "local"
    BY <1>4, Leftovers DEF IInv, Getting
  <2>2. /\ ReadsRight(todo')
        /\ \A p \in DOMAIN todo' : todo'[p].do \in Saves =>
             \A c \in Allocated' : Coming(todo', 1, p, c)
    BY <1>3, <1>4, <1>5 DEF SavesAll
  <2> QED BY <1>4, <2>1, <2>2 DEF Exporting
<1> QED BY <1>7, <1>8, <1>9 DEF IInv

LEMMA GetDataKeeps ==
  ASSUME IInv, GetData, UNCHANGED imageVars
  PROVE  IInv'
<1>1. PICK buffer \in {"data", "err"}, m \in Lengths :
        /\ upload # "none"
        /\ Calls("GetData", GetScript(buffer, Min({m, NumData(counts)})) \o <<Step("return")>>)
        /\ UNCHANGED dataVars
  BY DEF GetData
<1>2. counts \in Count /\ NumData(counts) \in Nat /\ m \in Nat
  BY LayoutTyped, LengthAssumption DEF IInv, Typed
<1>3. Min({m, NumData(counts)}) \in Nat /\ Min({m, NumData(counts)}) <= NumData(counts)
  <2> SUFFICES ASSUME NEW a \in Nat, NEW b \in Nat
               PROVE  Min({a, b}) \in Nat /\ Min({a, b}) <= b
    BY <1>2
  <2>1. \E x \in {a, b} : \A y \in {a, b} : x <= y
    OBVIOUS
  <2>2. Min({a, b}) \in {a, b} /\ \A y \in {a, b} : Min({a, b}) <= y
    BY <2>1 DEF Min
  <2> QED BY <2>2
<1> SUFFICES ASSUME NEW n \in Nat, n <= NumData(counts),
                    Calls("GetData", GetScript(buffer, n) \o <<Step("return")>>)
             PROVE  IInv'
  BY <1>1, <1>3
<1> DEFINE script == GetScript(buffer, n) \o <<Step("return")>>
<1>4. Script("GetData", script, AllocateMemory(counts)) /\ NoSaves(script)
  BY <1>2, GetCall
<1>5. /\ Idle /\ queue' = queue /\ todo' = script /\ refused' = FALSE
      /\ call' = "GetData" /\ outcome' = "running" /\ ignored' = FALSE
      /\ UNCHANGED <<counts, upload, stale, arrays, exported, corrupted>>
      /\ UNCHANGED <<source, rendered, owner, overlapped, image, copied>>
  BY <1>1 DEF Calls, dataVars, imageVars
<1> HIDE DEF script
<1>6. Allocated' = Allocated /\ Allocated = AllocateMemory(counts)
  BY <1>1, <1>5, Allocation DEF Allocated
<1>7. /\ "GetData" \in Listed /\ "GetData" \notin Uploads
  BY DEF Listed, DataCalls, Uploads
<1>8. ~Idle' /\ todo' \in Seq(Steps) /\ Scheduled' /\ Queued' /\ Getting'
  BY <1>1, <1>4, <1>5, <1>6, <1>7, Begins
<1>9. Typed' /\ Uploaded' /\ Uploading' /\ Exporting' /\ Copying'
  BY <1>5, <1>6, <1>7, <1>8 DEF IInv, Typed, Uploaded, Uploading, Exporting, Copying
<1> QED BY <1>8, <1>9 DEF IInv

LEMMA CopyImageKeeps ==
  ASSUME IInv, CopyImageToBuffer, UNCHANGED dataVars
  PROVE  IInv'
<1>1. /\ Idle /\ queue' = queue /\ todo' = CopySteps /\ refused' = FALSE
      /\ call' = "CopyImageToBuffer" /\ outcome' = "running" /\ ignored' = FALSE /\ copied' = FALSE
      /\ UNCHANGED <<counts, upload, stale, arrays, exported, corrupted>>
      /\ UNCHANGED <<source, rendered, owner, overlapped, image>>
  BY CopyCall DEF CopyImageToBuffer, Calls, dataVars, imageVars
<1>2. Allocated' = Allocated
  BY <1>1, Allocation
<1>3. /\ "CopyImageToBuffer" \in Listed /\ "CopyImageToBuffer" \notin DataCalls
      /\ "CopyImageToBuffer" \notin Uploads
  BY DEF Listed, DataCalls, Uploads
<1>4. Script("CopyImageToBuffer", CopySteps, Allocated')
  BY CopyCall
<1>5. ~Idle' /\ todo' \in Seq(Steps) /\ Scheduled' /\ Queued' /\ Getting'
  BY <1>1, <1>2, <1>3, <1>4, Begins
<1>6. Typed' /\ Uploaded' /\ Uploading' /\ Exporting'
  BY <1>1, <1>2, <1>3, <1>5 DEF IInv, Typed, Uploaded, Uploading, Exporting
<1>7. Copying'
  <2>1. Len(CopySteps) \in Nat
    BY CopyShapes DEF CopySteps
  <2>2. CopySteps' = CopySteps
    BY <1>1 DEF CopySteps
  <2>3. at' = 1
    BY <1>1, <2>1, <2>2 DEF at
  <2> QED BY <1>1, <2>1, <2>2, <2>3 DEF IInv, Copying
<1> QED BY <1>5, <1>6, <1>7 DEF IInv

-----------------------------------------------------------------------------
(* Calls that go on *)

\* Where the current copy is in its script.
LEMMA CopyPlace ==
  ASSUME IInv, ~Idle, call = "CopyImageToBuffer"
  PROVE  /\ at \in 1 .. Len(CopySteps) /\ Len(todo) = Len(CopySteps) - at + 1
         /\ DOMAIN CopySteps = 1 .. Len(CopySteps) /\ todo[1] = CopySteps[at]
         /\ at < Len(CopySteps) => todo[2] = CopySteps[at + 1]
<1>1. Len(todo) \in Nat \ {0} /\ DOMAIN todo = 1 .. Len(todo)
  BY GoesOn DEF IInv
<1>2. Len(CopySteps) \in Nat /\ DOMAIN CopySteps = 1 .. Len(CopySteps)
  BY CopyShapes DEF CopySteps
<1>3. Len(todo) <= Len(CopySteps) /\ \A k \in 1 .. Len(todo) : todo[k] = CopySteps[at - 1 + k]
  BY <1>1 DEF IInv, Copying
<1>4. at = Len(CopySteps) - Len(todo) + 1
  BY DEF at
<1> SUFFICES ASSUME NEW a, a = at, NEW m, m = Len(todo), NEW n, n = Len(CopySteps)
             PROVE  /\ a \in 1 .. n /\ m = n - a + 1 /\ DOMAIN CopySteps = 1 .. n
                    /\ todo[1] = CopySteps[a]
                    /\ a < n => todo[2] = CopySteps[a + 1]
  OBVIOUS
<1>5. a \in 1 .. n /\ m = n - a + 1 /\ a - 1 + 1 = a /\ a - 1 + 2 = a + 1 /\ 1 \in 1 .. m
  BY <1>1, <1>2, <1>3, <1>4
<1>6. a < n => 2 \in 1 .. m
  BY <1>1, <1>2, <1>5
<1> QED BY <1>2, <1>3, <1>5, <1>6

\* Which step of a copy is the current one, and what that says of the next.
LEMMA CopyOn ==
  ASSUME IInv, ~Idle, todo[1].do # "return", todo' = Tail(todo),
         call' = call, outcome' = outcome,
         source' = source, rendered' = rendered, image' = image,
         todo[1].do = "glFinish" => rendered = Tiles,
         todo[1].do = "check" => ~refused,
         todo[1].do = "enqueue" =>
           refused' \/ \A cmd \in Posted(todo[1]) : \E k \in DOMAIN queue' : queue'[k] = cmd,
         Copied => Copied'
  PROVE  Copying'
<1>1. outcome # "ok"
  BY DEF IInv, Scheduled
<1>2. source' = "HOST_MEMORY" => rendered' = Tiles
  BY DEF IInv, Copying
<1> SUFFICES ASSUME call = "CopyImageToBuffer"
             PROVE  Copying'
  BY <1>1, <1>2 DEF Copying
<1> DEFINE s == CopySteps
           n == Len(todo)
<1>3. /\ n \in Nat /\ n >= 2 /\ DOMAIN todo = 1 .. n /\ Len(todo') = n - 1 /\ DOMAIN todo' = 1 .. n - 1
      /\ \A i \in 1 .. n - 1 : todo'[i] = todo[i + 1]
  BY GoesOn DEF IInv
<1>4. Len(s) \in Nat /\ n <= Len(s) /\ \A k \in 1 .. n : todo[k] = s[at - 1 + k]
  <2>1. Len(s) \in Nat
    BY CopyShapes DEF CopySteps
  <2> QED BY <1>3, <2>1 DEF IInv, Copying
<1>5. at = Len(s) - n + 1 /\ at \in 1 .. Len(s) - 1 /\ at' = at + 1
  <2>1. CopySteps' = CopySteps
    BY DEF CopySteps
  <2>2. at' = Len(CopySteps) - Len(todo') + 1
    BY <2>1 DEF at
  <2>3. at = Len(CopySteps) - n + 1
    BY DEF at
  <2> HIDE DEF n
  <2> QED BY ONLY <1>3, <1>4, <2>2, <2>3
<1>6. todo[1] = s[at]
  BY <1>3, <1>4, <1>5
<1>7. Len(todo') <= Len(CopySteps') /\ CopySteps' = s
  BY <1>3, <1>4 DEF CopySteps
<1>8. \A k \in DOMAIN todo' : todo'[k] = s[at' - 1 + k]
  <2> SUFFICES ASSUME NEW k \in 1 .. n - 1 PROVE todo'[k] = s[at' - 1 + k]
    BY <1>3
  <2>1. todo'[k] = todo[k + 1] /\ k + 1 \in 1 .. n
    BY <1>3
  <2>2. at - 1 + (k + 1) = at' - 1 + k
    BY <1>5
  <2> QED BY <1>4, <2>1, <2>2
<1> HIDE DEF s, n
<1>9. /\ at > 1 => rendered = Tiles
      /\ source = "HOST_MEMORY" => rendered = Tiles
      /\ source = "HOST_MEMORY" => (at = 2 => refused \/ Copied) /\ (at > 2 => Copied)
      /\ source # "HOST_MEMORY" => (at = 7 => refused \/ Copied) /\ (at > 7 => Copied)
  BY DEF IInv, Copying
<1>10. \A cmd : Posted(todo[1]) = {cmd} /\ cmd.op = "copy" /\ todo[1].do = "enqueue" => refused' \/ Copied'
  BY DEF Copied
<1>11. Plain("copy").op = "copy"
  BY CopyStepsTyped DEF ImageOps
<1>12. CASE source = "HOST_MEMORY"
  <2>1. s = HostSteps /\ at \in {1, 2, 3, 4}
    <3>1. s = HostSteps /\ Len(s) = 5
      BY <1>12, CopyShapes DEF s, CopySteps
    <3> QED BY ONLY <1>5, <3>1
  <2>2. at = 1 => refused' \/ Copied'
    BY <1>6, <1>10, <1>11, <2>1, CopyShapes DEF EnqueuesOnly
  <2>3. at = 2 => Copied'
    BY <1>6, <1>9, <1>12, <2>1, CopyShapes DEF WaitsOnly
  <2>4. at \in {3, 4} => Copied'
    BY <1>9, <1>12
  <2>5. /\ at' = 2 => refused' \/ Copied'
        /\ at' > 2 => Copied'
    BY <1>5, <2>1, <2>2, <2>3, <2>4
  <2> QED BY <1>1, <1>2, <1>7, <1>8, <1>9, <1>12, <2>5 DEF Copying
<1>13. CASE source # "HOST_MEMORY"
  <2>1. s = OpenGLSteps /\ at \in 1 .. 11
    <3>1. s = OpenGLSteps /\ Len(s) = 12
      BY <1>13, CopyShapes DEF s, CopySteps
    <3> QED BY ONLY <1>5, <3>1
  <2>2. at = 1 => rendered = Tiles
    BY <1>6, <2>1, CopyShapes DEF WaitsOnly
  <2>3. at = 6 => refused' \/ Copied'
    BY <1>6, <1>10, <1>11, <2>1, CopyShapes DEF EnqueuesOnly
  <2>4. at = 7 => Copied'
    BY <1>6, <1>9, <1>13, <2>1, CopyShapes DEF WaitsOnly
  <2>5. /\ at' = 7 => refused' \/ Copied'
        /\ at' > 7 => Copied'
        /\ rendered' = Tiles
    BY <1>5, <1>9, <1>13, <2>1, <2>2, <2>3, <2>4
  <2> QED BY <1>1, <1>2, <1>7, <1>8, <1>13, <2>5 DEF Copying
<1> QED BY <1>12, <1>13

\* A step that neither enqueues nor saves.
LEMMA Waiting ==
  ASSUME IInv, ~Idle, todo[1].do \notin Saves \cup {"return", "enqueue"}, todo' = Tail(todo),
         call' = call, outcome' = outcome, queue' = queue,
         todo[1].do = "check" => ~refused,
         ignored' = ignored \/ call # "CopyImageToBuffer", ignored => ignored',
         todo[1].do \in Waiters => queue = << >> \/ ignored' \/ Throwing',
         UNCHANGED <<counts, upload, stale, arrays>>
  PROVE  /\ ~Idle' /\ todo' \in Seq(Steps)
         /\ Scheduled' /\ Queued' /\ Getting' /\ Uploaded' /\ Uploading' /\ Exporting'
<1> DEFINE n == Len(todo)
<1>1. /\ todo[1].do # "return" /\ todo[1].do \notin Saves /\ Posted(todo[1]) = {}
  BY DEF Posted
<1>2. /\ n \in Nat /\ n >= 2 /\ DOMAIN todo = 1 .. n /\ Len(todo') = n - 1 /\ DOMAIN todo' = 1 .. n - 1
      /\ \A i \in 1 .. n - 1 : i + 1 \in DOMAIN todo /\ todo'[i] = todo[i + 1]
      /\ todo \in Seq(Steps) /\ todo # << >> /\ Head(todo) = todo[1]
  BY <1>1, GoesOn DEF IInv
<1>3. ~Idle' /\ todo' \in Seq(Steps) /\ Scheduled'
  BY <1>1, StepOn DEF IInv
<1>4. Allocated' = Allocated
  BY Allocation
<1>5. ~Throwing
  BY <1>2 DEF Throwing
<1>6. \A c : InQueue(c) <=> InQueue(c)'
  BY DEF InQueue
<1>7. Queued'
  <2>1. ASSUME ~ignored', NEW k \in DOMAIN queue, call \in DataCalls \/ queue[k].op # "release"
        PROVE  FinishedFrom(todo', 1) \/ Throwing'
    <3>1. CASE todo[1].do \in Waiters
      BY <2>1, <3>1
    <3>2. CASE todo[1].do \notin Waiters
      <4>1. FinishedFrom(todo, 1)
        BY <1>5, <2>1 DEF IInv, Queued
      <4> QED BY <3>2, <4>1, WaitsOn DEF IInv
    <3> QED BY <3>1, <3>2
  <2>2. outcome' # "ok"
    BY DEF IInv, Scheduled
  <2>3. ASSUME NEW k \in DOMAIN queue
        PROVE  /\ queue[k].cells \subseteq Allocated
               /\ queue[k].op \in ImageOps <=> queue[k].mem = "none"
               /\ queue[k].mem \in {"local", "caller"} =>
                    queue[k].mem = MemOf(call) /\ queue[k].op \in OpsOf(call)
               /\ \A j \in 1 .. k - 1 : queue[j].mem = "local" => queue[k].mem # "freed"
    BY DEF IInv, Queued
  <2> QED BY <1>3, <1>4, <2>1, <2>2, <2>3 DEF Queued
<1>8. Getting'
  BY <1>2, <1>3 DEF IInv, Getting
<1>9. Uploaded'
  BY DEF IInv, Uploaded
<1>10. Uploading'
  <2> SUFFICES ASSUME call \in Uploads PROVE Uploading'
    BY DEF Uploading
  <2>1. \A i \in DOMAIN todo' : todo'[i].do \notin Saves
    BY <1>2 DEF IInv, Uploading
  <2>2. ASSUME NEW c \in stale
        PROVE  InQueue(c)' \/ Coming(todo', 1, Len(todo'), c)
    <3>1. InQueue(c) \/ Coming(todo, 1, n, c)
      BY <1>5, <2>2 DEF IInv, Uploading
    <3>2. ASSUME Coming(todo, 1, n, c)
          PROVE  Coming(todo', 1, n - 1, c)
      <4>1. n - 1 \in 1 .. n - 1 /\ (n - 1) + 1 = n
        BY <1>2
      <4> QED BY ONLY <1>1, <1>2, <3>2, <4>1, todo' = Tail(todo), ComingTail
    <3> QED BY <1>2, <1>6, <3>1, <3>2
  <2> QED BY <1>4, <2>1, <2>2 DEF IInv, Uploading
<1>11. Exporting'
  <2> SUFFICES ASSUME ~ignored, call = "ExportData", upload = "ok" PROVE Exporting'
    BY DEF Exporting
  <2>1. ReadsRight(todo')
    BY <1>2, ReadsRightTail DEF IInv, Exporting
  <2>2. ASSUME NEW p \in DOMAIN todo', todo'[p].do \in Saves
        PROVE  /\ Unsaved(todo', 1, p) =>
                    /\ \A k \in DOMAIN queue : queue[k].mem = "local" =>
                         \A c \in queue[k].cells : ReadAs(queue[k]) = SourceOf(todo'[p].do, c)
                    /\ \A a \in arrays : a[2] = SourceOf(todo'[p].do, a[1])
               /\ \A c \in Allocated :
                    \/ Coming(todo', 1, p, c)
                    \/ Unsaved(todo', 1, p) /\ (InQueue(c) \/ \E a \in arrays : a[1] = c)
    <3>1. p \in 1 .. n - 1 /\ p + 1 \in DOMAIN todo /\ todo'[p] = todo[p + 1]
      BY <1>2
    <3>2. Unsaved(todo, 1, p + 1) <=> Unsaved(todo', 1, p)
      BY ONLY <1>1, <1>2, <3>1, todo' = Tail(todo), UnsavedTail
    <3>3. \A c : Coming(todo, 1, p + 1, c) => Coming(todo', 1, p, c)
      BY ONLY <1>1, <1>2, <3>1, todo' = Tail(todo), ComingTail
    <3>4. /\ Unsaved(todo, 1, p + 1) =>
               /\ \A k \in DOMAIN queue : queue[k].mem = "local" =>
                    \A c \in queue[k].cells : ReadAs(queue[k]) = SourceOf(todo[p + 1].do, c)
               /\ \A a \in arrays : a[2] = SourceOf(todo[p + 1].do, a[1])
          /\ \A c \in Allocated :
               \/ Coming(todo, 1, p + 1, c)
               \/ Unsaved(todo, 1, p + 1) /\ (InQueue(c) \/ \E a \in arrays : a[1] = c)
      BY <1>5, <2>2, <3>1 DEF IInv, Exporting
    <3> QED BY ONLY <3>1, <3>2, <3>3, <3>4, Zenon
  <2> QED BY <1>4, <1>6, <2>1, <2>2 DEF Exporting
<1> QED BY <1>3, <1>7, <1>8, <1>9, <1>10, <1>11

\* The steps that use it: none changes what the data set has on the device.
LEMMA RepackageKeeps ==
  ASSUME IInv, Repackage, UNCHANGED imageVars
  PROVE  IInv'
<1>1. /\ ~Idle /\ todo[1].do = "repackage" /\ todo' = Tail(todo)
      /\ call' = call /\ outcome' = outcome /\ ignored' = ignored /\ corrupted' \in BOOLEAN
      /\ UNCHANGED <<queue, refused, counts, upload, stale, arrays, exported>>
      /\ UNCHANGED <<source, rendered, owner, overlapped, image, copied>>
  BY GoesOn DEF IInv, Repackage, Does, Proceeds, imageVars
<1>2. /\ ~Idle' /\ todo' \in Seq(Steps)
      /\ Scheduled' /\ Queued' /\ Getting' /\ Uploaded' /\ Uploading' /\ Exporting'
  BY <1>1, Waiting DEF Waiters, Saves
<1>3. Copying'
  BY <1>1, CopyOn DEF Copied
<1>4. Typed'
  BY <1>1, <1>2, Allocation DEF IInv, Typed
<1> QED BY <1>2, <1>3, <1>4 DEF IInv

LEMMA FinishKeeps ==
  ASSUME IInv, Finish, UNCHANGED <<dataVars, imageVars>>
  PROVE  IInv'
<1>1. /\ ~Idle /\ todo[1].do \in Waiters /\ todo' = Tail(todo) /\ queue = << >>
      /\ call' = call /\ outcome' = outcome /\ ignored' = ignored /\ queue' = queue
      /\ UNCHANGED <<counts, upload, stale, arrays, exported, corrupted>>
      /\ UNCHANGED <<source, rendered, owner, overlapped, image, copied>>
  BY GoesOn DEF IInv, Finish, Does, Proceeds, Waiters, dataVars, imageVars
<1>2. refused' \in BOOLEAN
  <2>1. refused \in BOOLEAN /\ refused' \in {refused, TRUE}
    BY Zenon DEF IInv, Typed, Finish
  <2> QED BY ONLY <2>1, Zenon
<1>3. todo[1].do \notin Saves \cup {"return", "enqueue", "check", "glFinish"}
  BY <1>1 DEF Waiters, Saves
<1>4. /\ ~Idle' /\ todo' \in Seq(Steps)
      /\ Scheduled' /\ Queued' /\ Getting' /\ Uploaded' /\ Uploading' /\ Exporting'
  BY <1>1, <1>3, Waiting
<1>5. Copying'
  BY <1>1, <1>3, CopyOn DEF Copied
<1>6. Typed'
  BY <1>1, <1>2, <1>4, Allocation DEF IInv, Typed
<1> QED BY <1>4, <1>5, <1>6 DEF IInv

\* A copy of the image checks what its clFinish returns.
LEMMA CopyChecks ==
  ASSUME IInv, ~Idle, call = "CopyImageToBuffer", todo[1].do = "finish"
  PROVE  todo[2].do = "check"
<1>1. /\ at \in 1 .. Len(CopySteps) /\ CopySteps[at].do = "finish"
      /\ at < Len(CopySteps) => todo[2] = CopySteps[at + 1]
  BY CopyPlace
<1> HIDE DEF at
<1>2. CASE CopySteps = HostSteps
  <2>1. at \in 1 .. 5 /\ HostSteps[at].do = "finish"
    BY <1>1, <1>2, CopyShapes
  <2>2. at = 1 \/ at = 2 \/ at = 3 \/ at = 4 \/ at = 5
    BY ONLY <2>1
  <2> QED BY <2>1, <2>2, CopyShapes DEF EnqueuesOnly, WaitsOnly
<1>3. CASE CopySteps = OpenGLSteps
  <2>1. at \in 1 .. 12 /\ OpenGLSteps[at].do = "finish" /\ Len(CopySteps) = 12
    BY <1>1, <1>3, CopyShapes
  <2>2. \/ at = 1 \/ at = 2 \/ at = 3 \/ at = 4 \/ at = 5 \/ at = 6
        \/ at = 7 \/ at = 8 \/ at = 9 \/ at = 10 \/ at = 11 \/ at = 12
    BY ONLY <2>1
  <2>3. at = 4 \/ at = 8
    BY <2>1, <2>2, CopyShapes DEF EnqueuesOnly, WaitsOnly
  <2>4. OpenGLSteps[5].do = "check" /\ OpenGLSteps[9].do = "check"
    BY CopyShapes DEF WaitsOnly
  <2>5. (at = 4 => at < 12 /\ at + 1 = 5) /\ (at = 8 => at < 12 /\ at + 1 = 9)
    OBVIOUS
  <2> QED BY ONLY <1>1, <1>3, <2>1, <2>3, <2>4, <2>5, Zenon
<1> QED BY <1>2, <1>3 DEF CopySteps

\* A clFinish that fails either makes the call throw, or is ignored.
LEMMA FinishFailsKeeps ==
  ASSUME IInv, FinishFails(call = "CopyImageToBuffer"), UNCHANGED <<dataVars, imageVars>>
  PROVE  IInv'
<1>1. /\ ~Idle /\ todo[1].do = "finish" /\ todo' = Tail(todo) /\ refused' = TRUE
      /\ call' = call /\ outcome' = outcome /\ queue' = queue
      /\ ignored' = (ignored \/ call # "CopyImageToBuffer")
      /\ UNCHANGED <<counts, upload, stale, arrays, exported, corrupted>>
      /\ UNCHANGED <<source, rendered, owner, overlapped, image, copied>>
  BY GoesOn DEF IInv, FinishFails, Does, dataVars, imageVars
<1>2. ignored \in BOOLEAN /\ ignored' \in BOOLEAN /\ (ignored => ignored')
      /\ (ignored' = ignored \/ call # "CopyImageToBuffer")
  <2>1. ignored \in BOOLEAN
    BY DEF IInv, Typed
  <2> QED BY ONLY <1>1, <2>1, Zenon
<1>3. todo[1].do \notin Saves \cup {"return", "enqueue", "check", "glFinish"}
  BY <1>1 DEF Saves
<1>4. call = "CopyImageToBuffer" => Throwing'
  <2> SUFFICES ASSUME call = "CopyImageToBuffer" PROVE Throwing'
    OBVIOUS
  <2>1. todo[2].do = "check"
    BY <1>1, CopyChecks
  <2>2. todo' \in Seq(Steps) /\ todo' # << >> /\ todo'[1] = todo[2]
    <3>1. todo[1].do # "return"
      BY <1>3
    <3> QED BY <1>1, <3>1, GoesOn DEF IInv
  <2>3. Head(todo') = todo'[1]
    BY ONLY <2>2, HeadAndTail
  <2> QED BY <1>1, <2>1, <2>2, <2>3 DEF Throwing
<1>5. ignored' \/ Throwing'
  BY <1>1, <1>4
<1>6. /\ ~Idle' /\ todo' \in Seq(Steps)
      /\ Scheduled' /\ Queued' /\ Getting' /\ Uploaded' /\ Uploading' /\ Exporting'
  BY <1>1, <1>2, <1>3, <1>5, Waiting
<1>7. Copying'
  BY <1>1, <1>3, CopyOn DEF Copied
<1>8. Typed'
  BY <1>1, <1>2, <1>6, Allocation DEF IInv, Typed
<1> QED BY <1>6, <1>7, <1>8 DEF IInv

LEMMA CheckPassesKeeps ==
  ASSUME IInv, CheckPasses, UNCHANGED <<dataVars, imageVars>>
  PROVE  IInv'
<1>1. /\ ~Idle /\ todo[1].do = "check" /\ ~refused /\ todo' = Tail(todo)
      /\ call' = call /\ outcome' = outcome /\ ignored' = ignored /\ queue' = queue /\ refused' = refused
      /\ UNCHANGED <<counts, upload, stale, arrays, exported, corrupted>>
      /\ UNCHANGED <<source, rendered, owner, overlapped, image, copied>>
  BY GoesOn DEF IInv, CheckPasses, Does, Proceeds, dataVars, imageVars
<1>2. /\ ~Idle' /\ todo' \in Seq(Steps)
      /\ Scheduled' /\ Queued' /\ Getting' /\ Uploaded' /\ Uploading' /\ Exporting'
  BY <1>1, Waiting DEF Waiters, Saves
<1>3. Copying'
  BY <1>1, CopyOn DEF Copied
<1>4. Typed'
  BY <1>1, <1>2, Allocation DEF IInv, Typed
<1> QED BY <1>2, <1>3, <1>4 DEF IInv

LEMMA GlFinishKeeps ==
  ASSUME IInv, GlFinish, UNCHANGED dataVars
  PROVE  IInv'
<1>1. /\ ~Idle /\ todo[1].do = "glFinish" /\ rendered = Tiles /\ todo' = Tail(todo)
      /\ call' = call /\ outcome' = outcome /\ ignored' = ignored /\ queue' = queue /\ refused' = refused
      /\ UNCHANGED <<counts, upload, stale, arrays, exported, corrupted>>
      /\ UNCHANGED <<source, rendered, owner, overlapped, image, copied>>
  BY GoesOn DEF IInv, GlFinish, Does, Proceeds, dataVars, imageVars
<1>2. /\ ~Idle' /\ todo' \in Seq(Steps)
      /\ Scheduled' /\ Queued' /\ Getting' /\ Uploaded' /\ Uploading' /\ Exporting'
  BY <1>1, Waiting DEF Waiters, Saves
<1>3. Copying'
  BY <1>1, CopyOn DEF Copied
<1>4. Typed'
  BY <1>1, <1>2, Allocation DEF IInv, Typed
<1> QED BY <1>2, <1>3, <1>4 DEF IInv

\* A group is enqueued: what was to come is in the queue, or the check ahead
\* will throw.
LEMMA EnqueueGroupKeeps ==
  ASSUME IInv, EnqueueGroup, UNCHANGED <<dataVars, imageVars>>
  PROVE  IInv'
<1> DEFINE n == Len(todo)
<1>1. /\ ~Idle /\ todo[1].do = "enqueue" /\ todo' = Tail(todo)
      /\ call' = call /\ outcome' = outcome /\ ignored' = ignored /\ refused' \in BOOLEAN
      /\ queue' \in Seq(Commands)
      /\ \A k \in DOMAIN queue : k \in DOMAIN queue' /\ queue'[k] = queue[k]
      /\ \A k \in DOMAIN queue' : k \in Nat /\
           (k \in DOMAIN queue \/ queue'[k] \in Posted(todo[1]))
      /\ \A k \in DOMAIN queue' : \A j \in 1 .. k - 1 :
           j \in DOMAIN queue' /\ (k \in DOMAIN queue => j \in DOMAIN queue)
      /\ ~refused' => \A cmd \in Posted(todo[1]) : \E k \in DOMAIN queue' : queue'[k] = cmd
  BY Enqueued DEF IInv
<1>2. /\ UNCHANGED <<counts, upload, stale, arrays, exported, corrupted>>
      /\ UNCHANGED <<source, rendered, owner, overlapped, image, copied>>
  BY DEF dataVars, imageVars
<1>3. /\ todo[1].do # "return" /\ todo[1].do \notin Waiters /\ todo[1].do # "check"
      /\ todo[1].do # "glFinish" /\ todo[1].do \notin Saves
  BY <1>1 DEF Waiters, Saves
<1>4. /\ n \in Nat /\ n >= 2 /\ DOMAIN todo = 1 .. n /\ Len(todo') = n - 1 /\ DOMAIN todo' = 1 .. n - 1
      /\ \A i \in 1 .. n - 1 : i + 1 \in DOMAIN todo /\ todo'[i] = todo[i + 1]
      /\ todo \in Seq(Steps) /\ todo # << >> /\ Head(todo) = todo[1] /\ 1 \in DOMAIN todo
  BY <1>1, <1>3, GoesOn DEF IInv
<1>5. ~Idle' /\ todo' \in Seq(Steps) /\ Scheduled'
  BY <1>1, <1>2, <1>3, StepOn DEF IInv
<1>6. Allocated' = Allocated
  BY <1>2, Allocation
<1>7. call \in Listed /\ Uses(todo, OpsOf(call), MemOf(call), Allocated) /\ Waits(todo)
  BY <1>1 DEF IInv, Scheduled
<1>8. \A cmd \in Posted(todo[1]) :
        cmd.op \in OpsOf(call) /\ cmd.mem = MemOf(call) /\ cmd.cells \subseteq Allocated
  BY <1>4, <1>7 DEF Uses
<1>9. /\ MemOf(call) # "freed"
      /\ \A op \in OpsOf(call) : op \in ImageOps <=> MemOf(call) = "none"
      /\ MemOf(call) = "caller" => call = "GetData"
      /\ call \notin Uploads => "write" \notin OpsOf(call)
      /\ call \in DataCalls => "release" \notin OpsOf(call)
  BY <1>7, CallUses DEF Listed, DataCalls, ImageOps
<1>10. ~Throwing
  BY <1>3, <1>4 DEF Throwing
<1>11. call \in DataCalls /\ refused' => Throwing'
  <2> SUFFICES ASSUME call \in DataCalls, refused' PROVE Throwing'
    OBVIOUS
  <2>1. todo[1 + 1].do = "check"
    BY <1>1, <1>4 DEF IInv, Scheduled, ChecksGroups
  <2>2. todo'[1].do = "check" /\ Head(todo') = todo'[1]
    BY <1>4, <1>5, <2>1, HeadAndTail DEF Idle
  <2> QED BY <2>2 DEF Throwing
<1>12. \A c : InQueue(c) => InQueue(c)'
  BY <1>1 DEF InQueue
<1>13. ASSUME MemOf(call) = "local", call \in DataCalls, NEW cmd \in Posted(todo[1]), NEW c \in cmd.cells
       PROVE  InQueue(c)' \/ Throwing'
  BY <1>1, <1>8, <1>11, <1>13 DEF InQueue
<1>14. Queued'
  <2>1. ASSUME NEW k \in DOMAIN queue'
        PROVE  /\ queue'[k].cells \subseteq Allocated
               /\ queue'[k].op \in ImageOps <=> queue'[k].mem = "none"
               /\ queue'[k].mem \in {"local", "caller"} =>
                    queue'[k].mem = MemOf(call) /\ queue'[k].op \in OpsOf(call)
               /\ \A j \in 1 .. k - 1 : queue'[j].mem = "local" => queue'[k].mem # "freed"
    <3>1. CASE k \in DOMAIN queue
      BY <1>1, <3>1 DEF IInv, Queued
    <3>2. CASE queue'[k] \in Posted(todo[1])
      BY <3>2, <1>8, <1>9
    <3> QED BY <1>1, <3>1, <3>2
  <2>2. ASSUME ~ignored, NEW k \in DOMAIN queue',
               call \in DataCalls \/ queue'[k].op # "release"
        PROVE  FinishedFrom(todo', 1)
    <3>1. FinishedFrom(todo, 1)
      <4>1. CASE k \in DOMAIN queue
        BY <1>1, <1>10, <2>2, <4>1 DEF IInv, Queued
      <4>2. CASE queue'[k] \in Posted(todo[1])
        BY <1>4, <1>7, <1>8, <1>9, <2>2, <4>2 DEF Waits
      <4> QED BY <1>1, <4>1, <4>2
    <3> QED BY <1>1, <1>3, <3>1, WaitsOn DEF IInv
  <2>3. outcome' # "ok"
    BY <1>1 DEF IInv, Scheduled
  <2> QED BY <1>1, <1>5, <1>6, <2>1, <2>2, <2>3 DEF Queued
<1>15. Getting'
  BY <1>1, <1>2, <1>4, <1>5 DEF IInv, Getting
<1>16. Uploaded'
  <2> SUFFICES ASSUME upload = "ok" PROVE Uploaded'
    BY <1>2 DEF Uploaded
  <2>1. call \notin Uploads
    BY <1>1 DEF IInv, Scheduled
  <2>2. ASSUME NEW k \in DOMAIN queue' PROVE queue'[k].op # "write"
    BY <1>1, <1>8, <1>9, <2>1 DEF IInv, Uploaded
  <2> QED BY <1>2, <2>2 DEF IInv, Uploaded
<1>17. Uploading'
  <2> SUFFICES ASSUME call \in Uploads PROVE Uploading'
    BY <1>1 DEF Uploading
  <2>1. \A i \in DOMAIN todo' : todo'[i].do \notin Saves
    BY <1>1, <1>4 DEF IInv, Uploading
  <2>2. MemOf(call) = "local" /\ call \in DataCalls
    BY CallUses DEF DataCalls
  <2>3. ASSUME stale # Allocated, NEW k \in DOMAIN queue'
        PROVE  queue'[k].mem # "freed"
    BY <1>1, <1>8, <1>9, <2>3 DEF IInv, Uploading
  <2>4. ASSUME NEW c \in stale
        PROVE  InQueue(c)' \/ Coming(todo', 1, Len(todo'), c) \/ Throwing'
    <3>1. InQueue(c) \/ Coming(todo, 1, n, c)
      BY <1>1, <1>10, <2>4 DEF IInv, Uploading
    <3>2. ASSUME Coming(todo, 1, n, c)
          PROVE  Coming(todo', 1, n - 1, c) \/ \E cmd \in Posted(todo[1]) : c \in cmd.cells
      <4>1. n - 1 \in 1 .. n - 1 /\ (n - 1) + 1 = n
        BY <1>4
      <4> QED BY ONLY <1>1, <1>4, <3>2, <4>1, ComingTail
    <3> QED BY <1>4, <1>12, <1>13, <2>2, <3>1, <3>2
  <2> QED BY <1>2, <1>6, <2>1, <2>3, <2>4 DEF Uploading
<1>18. Exporting'
  <2> SUFFICES ASSUME ~ignored, call = "ExportData", upload = "ok" PROVE Exporting'
    BY <1>1, <1>2 DEF Exporting
  <2>1. ReadsRight(todo) /\ ReadsRight(todo')
    BY <1>1, <1>4, ReadsRightTail DEF IInv, Exporting
  <2>2. MemOf(call) = "local" /\ call \in DataCalls
    BY CallUses DEF DataCalls
  <2>3. ASSUME NEW p \in DOMAIN todo', todo'[p].do \in Saves
        PROVE  /\ Unsaved(todo', 1, p) =>
                    /\ \A k \in DOMAIN queue' : queue'[k].mem = "local" =>
                         \A c \in queue'[k].cells : ReadAs(queue'[k]) = SourceOf(todo'[p].do, c)
                    /\ \A a \in arrays : a[2] = SourceOf(todo'[p].do, a[1])
               /\ \A c \in Allocated :
                    \/ Coming(todo', 1, p, c)
                    \/ Unsaved(todo', 1, p) /\ (InQueue(c)' \/ Throwing' \/ \E a \in arrays : a[1] = c)
    <3>1. /\ p \in 1 .. n - 1 /\ p + 1 \in DOMAIN todo /\ todo'[p] = todo[p + 1]
          /\ 1 \in 1 .. (p + 1) - 1
      BY <1>4
    <3>2. Unsaved(todo, 1, p + 1) <=> Unsaved(todo', 1, p)
      BY ONLY <1>1, <1>3, <1>4, <3>1, UnsavedTail
    <3>3. \A c : Coming(todo, 1, p + 1, c) =>
                   \/ Coming(todo', 1, p, c)
                   \/ Unsaved(todo, 1, p + 1) /\ \E cmd \in Posted(todo[1]) : c \in cmd.cells
      BY ONLY <1>1, <1>4, <3>1, ComingTail
    <3>4. /\ Unsaved(todo, 1, p + 1) =>
               /\ \A k \in DOMAIN queue : queue[k].mem = "local" =>
                    \A c \in queue[k].cells : ReadAs(queue[k]) = SourceOf(todo[p + 1].do, c)
               /\ \A a \in arrays : a[2] = SourceOf(todo[p + 1].do, a[1])
          /\ \A c \in Allocated :
               \/ Coming(todo, 1, p + 1, c)
               \/ Unsaved(todo, 1, p + 1) /\ (InQueue(c) \/ \E a \in arrays : a[1] = c)
      BY <1>1, <1>10, <2>3, <3>1 DEF IInv, Exporting
    <3>5. Unsaved(todo, 1, p + 1) =>
            \A cmd \in Posted(todo[1]) : \A c \in cmd.cells : ReadAs(cmd) = SourceOf(todo[p + 1].do, c)
      BY <2>1, <2>3, <3>1 DEF ReadsRight
    <3>6. ASSUME Unsaved(todo, 1, p + 1), NEW k \in DOMAIN queue', queue'[k].mem = "local",
                 NEW c \in queue'[k].cells
          PROVE  ReadAs(queue'[k]) = SourceOf(todo[p + 1].do, c)
      <4>1. CASE k \in DOMAIN queue
        BY <1>1, <3>4, <3>6, <4>1
      <4>2. CASE queue'[k] \in Posted(todo[1])
        BY <3>5, <3>6, <4>2
      <4> QED BY <1>1, <4>1, <4>2
    <3>7. \A cmd \in Posted(todo[1]) : \A c \in cmd.cells : InQueue(c)' \/ Throwing'
      BY <1>13, <2>2
    <3> QED BY ONLY <1>12, <3>1, <3>2, <3>3, <3>4, <3>6, <3>7, Zenon
  <2> QED BY <1>2, <1>6, <2>1, <2>3 DEF Exporting
<1>19. Copying'
  <2>1. Copied => Copied'
    BY <1>1, <1>2 DEF Copied
  <2> QED BY <1>1, <1>2, <1>3, <2>1, CopyOn
<1>20. Typed'
  BY <1>1, <1>2, <1>5, <1>6 DEF IInv, Typed
<1> QED BY <1>5, <1>14, <1>15, <1>16, <1>17, <1>18, <1>19, <1>20 DEF IInv

\* A file is written from what was read, and the next copy starts anew.
LEMMA SaveKeeps ==
  ASSUME IInv, NEW save \in Saves, Save(save), UNCHANGED imageVars
  PROVE  IInv'
<1> DEFINE n == Len(todo)
<1>1. /\ ~Idle /\ todo[1].do = save /\ todo' = Tail(todo)
      /\ call' = call /\ outcome' = outcome /\ ignored' = ignored /\ arrays' = {}
      /\ exported' \in {"nothing", "current", "other", "unknown"}
      /\ UNCHANGED <<queue, refused, counts, upload, stale, corrupted>>
      /\ UNCHANGED <<source, rendered, owner, overlapped, image, copied>>
  BY GoesOn DEF IInv, Save, Does, Proceeds, imageVars
<1>2. /\ todo[1].do \notin {"return", "check", "glFinish", "enqueue"} /\ todo[1].do \in Saves
      /\ Posted(todo[1]) = {}
  BY <1>1 DEF Saves, Posted
<1>3. /\ n \in Nat /\ n >= 2 /\ DOMAIN todo = 1 .. n /\ Len(todo') = n - 1 /\ DOMAIN todo' = 1 .. n - 1
      /\ \A i \in 1 .. n - 1 : i + 1 \in DOMAIN todo /\ todo'[i] = todo[i + 1]
      /\ todo \in Seq(Steps) /\ todo # << >> /\ Head(todo) = todo[1] /\ 1 \in DOMAIN todo
  BY <1>1, <1>2, GoesOn DEF IInv
<1>4. ~Idle' /\ todo' \in Seq(Steps) /\ Scheduled'
  BY <1>1, <1>2, StepOn DEF IInv
<1>5. Allocated' = Allocated
  BY <1>1, Allocation
<1>6. ~ignored => \A k \in DOMAIN queue :
         queue[k].op = "release" /\ queue[k].mem = "none" /\ call \notin DataCalls
  BY <1>1, <1>2, Waited DEF IInv
<1>7. Queued'
  <2>1. outcome' # "ok"
    BY <1>1 DEF IInv, Scheduled
  <2>2. ASSUME NEW k \in DOMAIN queue
        PROVE  /\ queue[k].cells \subseteq Allocated
               /\ queue[k].op \in ImageOps <=> queue[k].mem = "none"
               /\ queue[k].mem \in {"local", "caller"} =>
                    queue[k].mem = MemOf(call) /\ queue[k].op \in OpsOf(call)
               /\ \A j \in 1 .. k - 1 : queue[j].mem = "local" => queue[k].mem # "freed"
    BY DEF IInv, Queued
  <2> QED BY <1>1, <1>4, <1>5, <1>6, <2>1, <2>2 DEF Queued
<1>8. Getting'
  <2>1. call # "GetData"
    BY <1>1, <1>2, <1>3 DEF IInv, Getting
  <2> QED BY <1>1, <1>4, <1>6, <2>1 DEF Getting
<1>9. Uploaded'
  BY <1>1 DEF IInv, Uploaded
<1>10. Uploading'
  <2>1. call \notin Uploads
    BY <1>1, <1>2, <1>3 DEF IInv, Uploading
  <2> QED BY <1>1, <2>1 DEF Uploading
<1>11. Exporting'
  <2> SUFFICES ASSUME ~ignored, call = "ExportData", upload = "ok" PROVE Exporting'
    BY <1>1 DEF Exporting
  <2>1. ReadsRight(todo')
    BY <1>1, <1>3, ReadsRightTail DEF IInv, Exporting
  <2>2. ASSUME NEW p \in DOMAIN todo', todo'[p].do \in Saves, NEW c \in Allocated
        PROVE  Coming(todo', 1, p, c)
    <3>1. /\ p \in 1 .. n - 1 /\ p + 1 \in DOMAIN todo /\ todo'[p] = todo[p + 1]
      BY <1>3
    <3>2. ~Unsaved(todo, 1, p + 1)
      BY ONLY <1>1, <1>2, <1>3, <3>1, UnsavedTail
    <3>3. Coming(todo, 1, p + 1, c) => Coming(todo', 1, p, c)
      BY ONLY <1>1, <1>2, <1>3, <3>1, <3>2, ComingTail
    <3> QED BY <1>1, <2>2, <3>1, <3>2, <3>3 DEF IInv, Exporting
  <2> QED BY <1>1, <1>5, <1>6, <2>1, <2>2 DEF Exporting
<1>12. Copying'
  <2>1. Copied => Copied'
    BY <1>1 DEF Copied
  <2> QED BY <1>1, <1>2, <2>1, CopyOn
<1>13. Typed'
  BY <1>1, <1>4, <1>5 DEF IInv, Typed
<1> QED BY <1>4, <1>7, <1>8, <1>9, <1>10, <1>11, <1>12, <1>13 DEF IInv

\* What a call that ends leaves behind uses memory that is gone.
LEMMA Orphans ==
  ASSUME Typed
  PROVE  /\ Orphaned(queue) \in Seq(Commands) /\ DOMAIN Orphaned(queue) = DOMAIN queue
         /\ \A k \in DOMAIN queue :
              /\ Orphaned(queue)[k].op = queue[k].op /\ Orphaned(queue)[k].cells = queue[k].cells
              /\ Orphaned(queue)[k].mem = (IF queue[k].mem \in {"local", "caller"} THEN "freed" ELSE queue[k].mem)
<1>1. /\ queue \in Seq(Commands) /\ Len(queue) \in Nat /\ DOMAIN queue = 1 .. Len(queue)
      /\ \A k \in DOMAIN queue : queue[k] \in Commands
  <2>1. queue \in Seq(Commands)
    BY DEF Typed
  <2>2. Len(queue) \in Nat /\ DOMAIN queue = 1 .. Len(queue)
    BY <2>1, LenProperties
  <2> QED BY <2>1, <2>2, ElementOfSeq
<1>2. ASSUME NEW cmd \in Commands
      PROVE  LET o == IF cmd.mem \in {"local", "caller"} THEN [cmd EXCEPT !.mem = "freed"] ELSE cmd
             IN  /\ o \in Commands /\ o.op = cmd.op /\ o.cells = cmd.cells
                 /\ o.mem = (IF cmd.mem \in {"local", "caller"} THEN "freed" ELSE cmd.mem)
  BY DEF Commands
<1>3. \A k \in DOMAIN queue :
        /\ Orphaned(queue)[k] \in Commands
        /\ Orphaned(queue)[k].op = queue[k].op /\ Orphaned(queue)[k].cells = queue[k].cells
        /\ Orphaned(queue)[k].mem = (IF queue[k].mem \in {"local", "caller"} THEN "freed" ELSE queue[k].mem)
  BY <1>1, <1>2 DEF Orphaned
<1>4. Orphaned(queue) \in [1 .. Len(queue) -> Commands]
  BY <1>1, <1>3 DEF Orphaned
<1> QED BY <1>1, <1>3, <1>4, SeqDef

LEMMA Abandonment ==
  ASSUME NEW q \in Seq(Commands)
  PROVE  /\ Abandoned(q) \in Seq(Commands) /\ DOMAIN Abandoned(q) = DOMAIN q
         /\ \A k \in DOMAIN q :
              /\ Abandoned(q)[k].op = q[k].op /\ Abandoned(q)[k].cells = {}
              /\ Abandoned(q)[k].mem = q[k].mem
<1>1. /\ Len(q) \in Nat /\ DOMAIN q = 1 .. Len(q)
      /\ \A k \in DOMAIN q : q[k] \in Commands
  <2>1. Len(q) \in Nat /\ DOMAIN q = 1 .. Len(q)
    BY LenProperties
  <2> QED BY <2>1, ElementOfSeq
<1>2. ASSUME NEW cmd \in Commands
      PROVE  LET o == [cmd EXCEPT !.cells = {}]
             IN  o \in Commands /\ o.op = cmd.op /\ o.cells = {} /\ o.mem = cmd.mem
  BY DEF Commands
<1>3. \A k \in DOMAIN q :
        /\ Abandoned(q)[k] \in Commands /\ Abandoned(q)[k].op = q[k].op
        /\ Abandoned(q)[k].cells = {} /\ Abandoned(q)[k].mem = q[k].mem
  BY <1>1, <1>2 DEF Abandoned
<1>4. Abandoned(q) \in [1 .. Len(q) -> Commands]
  BY <1>1, <1>3 DEF Abandoned
<1> QED BY <1>1, <1>3, <1>4, SeqDef

LEMMA OrphanedQueue ==
  ASSUME Typed, Queued
  PROVE  \A k \in DOMAIN queue : /\ Orphaned(queue)[k].mem \notin {"local", "caller"}
                                 /\ Orphaned(queue)[k].op \in ImageOps
                                      <=> Orphaned(queue)[k].mem = "none"
                                 /\ Orphaned(queue)[k].cells \subseteq Allocated
<1> DEFINE o == Orphaned(queue)
<1>1. \A k \in DOMAIN queue :
        /\ o[k].op = queue[k].op /\ o[k].cells = queue[k].cells
        /\ o[k].mem = (IF queue[k].mem \in {"local", "caller"} THEN "freed" ELSE queue[k].mem)
  BY Orphans
<1> HIDE DEF o
<1>2. \A k \in DOMAIN queue : /\ o[k].mem \notin {"local", "caller"}
                              /\ o[k].op \in ImageOps <=> o[k].mem = "none"
                              /\ o[k].cells \subseteq Allocated
  BY <1>1 DEF Queued
<1> QED BY <1>2 DEF o

\* A call returns: the device has done all that it was to do by then, unless
\* a failure was ignored.
LEMMA ReturnKeeps ==
  ASSUME IInv, Return, ImageReturn
  PROVE  IInv'
<1>1. /\ ~Idle /\ todo[1].do = "return" /\ todo' = << >> /\ Len(todo) = 1
      /\ Head(todo) = todo[1] /\ DOMAIN todo = 1 .. 1
      /\ call' = call /\ outcome' = "ok" /\ ignored' = ignored /\ refused' = FALSE /\ arrays' = {}
      /\ queue' = Orphaned(queue)
      /\ upload' = IF call \in {"LoadData", "ReplaceData"} /\ ~ignored THEN "ok" ELSE upload
      /\ UNCHANGED <<counts, stale, exported, corrupted>>
      /\ UNCHANGED <<source, rendered, owner, overlapped, image>>
  BY GoesOn DEF IInv, Return, Does, Ends, ImageReturn
<1>2. ~ignored => \A k \in DOMAIN queue :
         queue[k].op = "release" /\ queue[k].mem = "none" /\ call \notin DataCalls
  BY <1>1, Waited DEF IInv
<1>3. /\ queue' \in Seq(Commands) /\ DOMAIN queue' = DOMAIN queue
      /\ \A k \in DOMAIN queue : /\ queue'[k].op = queue[k].op
                                 /\ queue'[k].mem \notin {"local", "caller"}
                                 /\ queue'[k].op \in ImageOps <=> queue'[k].mem = "none"
                                 /\ queue'[k].cells \subseteq Allocated
  BY <1>1, Orphans, OrphanedQueue DEF IInv
<1>4. call \in Listed /\ (call \in Uploads => upload = "partial")
  BY <1>1 DEF IInv, Scheduled
<1>5. Allocated' = Allocated
  BY <1>1, <1>4 DEF Allocated, Uploads
<1>6. Idle' /\ Scheduled' /\ todo' \in Seq(Steps)
  BY <1>1, EmptySeq DEF IInv, Scheduled, Idle
<1>7. Queued' /\ Getting'
  BY <1>1, <1>2, <1>3, <1>5, <1>6 DEF Queued, Getting
<1>8. Uploaded'
  <2>1. CASE call \in Uploads /\ ~ignored
    <3>1. ASSUME NEW c \in stale PROVE FALSE
      <4>1. ~InQueue(c)
        BY <1>2, <2>1 DEF InQueue
      <4>2. ~Coming(todo, 1, Len(todo), c)
        BY <1>1 DEF Coming
      <4>3. ~Throwing
        BY <1>1 DEF Throwing
      <4> QED BY <1>1, <2>1, <3>1, <4>1, <4>2, <4>3 DEF IInv, Uploading
    <3>2. stale = {}
      BY <3>1
    <3> QED BY <1>1, <1>2, <1>3, <2>1, <3>2 DEF Uploaded
  <2>2. CASE ~(call \in Uploads /\ ~ignored)
    BY <1>1, <1>3, <2>2 DEF IInv, Uploaded, Uploads
  <2> QED BY <2>1, <2>2
<1>9. Uploading' /\ Exporting'
  BY <1>6 DEF Uploading, Exporting
<1>10. Copying'
  <2> SUFFICES ASSUME call = "CopyImageToBuffer" PROVE rendered = Tiles /\ image = Tiles
    BY <1>1, <1>6 DEF IInv, Copying
  <2>1. at = Len(CopySteps) /\ CopySteps[at] = todo[1] /\ Len(CopySteps) \in {5, 12}
    <3>1. Len(CopySteps) \in {5, 12}
      BY CopyShapes DEF CopySteps
    <3>2. at = Len(CopySteps)
      BY <1>1, <3>1 DEF at
    <3>3. todo[1] = CopySteps[at - 1 + 1]
      BY <1>1 DEF IInv, Copying
    <3> QED BY <3>1, <3>2, <3>3
  <2>2. ~(\E k \in DOMAIN queue : queue[k].op = "copy")
    <3>1. ~ignored
      BY <1>1 DEF IInv, Scheduled
    <3> QED BY <1>2, <3>1
  <2>3. source = "HOST_MEMORY" => Len(CopySteps) = 5
    BY CopyShapes DEF CopySteps
  <2>4. source # "HOST_MEMORY" => Len(CopySteps) = 12
    BY CopyShapes DEF CopySteps
  <2>5. at > 1 /\ (source = "HOST_MEMORY" => at > 2) /\ (source # "HOST_MEMORY" => at > 7)
    <3>1. at = 5 \/ at = 12
      BY ONLY <2>1, Zenon
    <3>2. (source = "HOST_MEMORY" => at = 5) /\ (source # "HOST_MEMORY" => at = 12)
      BY ONLY <2>1, <2>3, <2>4, Zenon
    <3> HIDE DEF at
    <3> QED BY ONLY <3>1, <3>2
  <2>6. rendered = Tiles /\ Copied
    BY <1>1, <2>5 DEF IInv, Copying
  <2> QED BY <2>2, <2>6 DEF Copied
<1>11. Typed'
  <2>1. copied \in BOOLEAN /\ copied' = (copied \/ call = "CopyImageToBuffer")
    BY DEF IInv, Typed, ImageReturn
  <2>2. copied' \in BOOLEAN
    BY ONLY <2>1, Zenon
  <2> QED BY <1>1, <1>3, <1>5, <1>6, <2>2 DEF IInv, Typed
<1> QED BY <1>6, <1>7, <1>8, <1>9, <1>10, <1>11 DEF IInv

LEMMA ThrowKeeps ==
  ASSUME IInv, Throw, UNCHANGED imageVars
  PROVE  IInv'
<1>1. /\ ~Idle /\ refused /\ todo' = << >> /\ call' = call
      /\ outcome' \in {"swallowed", "throw"} /\ refused' = FALSE /\ arrays' = {}
      /\ UNCHANGED <<exported, corrupted, ignored>>
      /\ UNCHANGED <<source, rendered, owner, overlapped, image, copied>>
  BY DEF Throw, CheckThrows, Does, Ends, imageVars
<1>2. Idle' /\ Scheduled' /\ todo' \in Seq(Steps)
  BY <1>1, EmptySeq DEF IInv, Scheduled, Idle
<1> DEFINE o == Orphaned(queue)
<1>4. /\ o \in Seq(Commands) /\ DOMAIN o = DOMAIN queue
      /\ \A k \in DOMAIN queue :
           /\ o[k].op = queue[k].op /\ o[k].cells = queue[k].cells
           /\ o[k].mem = (IF queue[k].mem \in {"local", "caller"} THEN "freed" ELSE queue[k].mem)
  BY Orphans DEF IInv
<1>5. \A k \in DOMAIN queue : /\ o[k].mem \notin {"local", "caller"}
                              /\ o[k].op \in ImageOps <=> o[k].mem = "none"
                              /\ o[k].cells \subseteq Allocated
  BY OrphanedQueue DEF IInv
<1>6. CASE call = "LoadData"
  <2>1. /\ queue' = Abandoned(o) /\ upload' = "none" /\ stale' = {} /\ counts' = NoCounts
    BY <1>6 DEF Throw, DataSetGone
  <2> HIDE DEF o
  <2>2. /\ queue' \in Seq(Commands) /\ DOMAIN queue' = DOMAIN queue
        /\ \A k \in DOMAIN queue :
             queue'[k].op = o[k].op /\ queue'[k].cells = {} /\ queue'[k].mem = o[k].mem
    BY <1>4, <2>1, Abandonment
  <2>3. Allocated' = {}
    BY <2>1 DEF Allocated
  <2>4. Queued' /\ Getting'
    BY <1>1, <1>2, <1>5, <2>2 DEF Queued, Getting
  <2>5. Uploaded' /\ Uploading' /\ Exporting' /\ Copying'
    BY <1>1, <1>2, <2>1 DEF IInv, Uploaded, Uploading, Exporting, Copying
  <2>6. Typed'
    BY <1>1, <1>2, <2>1, <2>2, <2>3 DEF IInv, Typed, NoCounts, Count
  <2> QED BY <1>2, <2>4, <2>5, <2>6 DEF IInv
<1>7. CASE call # "LoadData"
  <2>1. queue' = o /\ UNCHANGED <<upload, stale, counts>>
    BY <1>7 DEF Throw
  <2> HIDE DEF o
  <2>2. Allocated' = Allocated
    BY <2>1, Allocation
  <2>3. Queued' /\ Getting'
    BY <1>1, <1>2, <1>4, <1>5, <2>1, <2>2 DEF Queued, Getting
  <2>4. Uploaded'
    BY <1>4, <2>1 DEF IInv, Uploaded
  <2>5. Uploading' /\ Exporting' /\ Copying'
    BY <1>1, <1>2 DEF IInv, Uploading, Exporting, Copying
  <2>6. Typed'
    BY <1>1, <1>2, <1>4, <2>1, <2>2 DEF IInv, Typed
  <2> QED BY <1>2, <2>3, <2>4, <2>5, <2>6 DEF IInv
<1> QED BY <1>6, <1>7

LEMMA RemoveDataKeeps ==
  ASSUME IInv, RemoveData, UNCHANGED imageVars
  PROVE  IInv'
<1>1. /\ Idle /\ Idle' /\ todo' = todo /\ refused' = refused
      /\ call' = "RemoveData" /\ outcome' = "ok" /\ ignored' = FALSE
      /\ queue' = Abandoned(queue) /\ upload' = "none" /\ stale' = {} /\ counts' = NoCounts
      /\ UNCHANGED <<arrays, exported, corrupted>>
      /\ UNCHANGED <<source, rendered, owner, overlapped, image, copied>>
  BY DEF RemoveData, Immediate, DataSetGone, Idle, imageVars
<1>2. /\ queue' \in Seq(Commands) /\ DOMAIN queue' = DOMAIN queue
      /\ \A k \in DOMAIN queue :
           queue'[k].op = queue[k].op /\ queue'[k].cells = {} /\ queue'[k].mem = queue[k].mem
  <2>1. queue \in Seq(Commands)
    BY DEF IInv, Typed
  <2> QED BY <1>1, <2>1, Abandonment
<1>3. Allocated' = {} /\ arrays' = {}
  BY <1>1 DEF IInv, Getting, Allocated
<1>4. Queued' /\ Getting'
  BY <1>1, <1>2, <1>3, Leftovers DEF IInv, Queued, Getting, Listed, DataCalls, Uploads
<1>5. Scheduled' /\ Uploaded' /\ Uploading' /\ Exporting' /\ Copying'
  BY <1>1 DEF IInv, Scheduled, Uploaded, Uploading, Exporting, Copying
<1>6. Typed'
  BY <1>1, <1>2, <1>3 DEF IInv, Typed, NoCounts, Count
<1> QED BY <1>4, <1>5, <1>6 DEF IInv

-----------------------------------------------------------------------------
(* The device and OpenGL *)

LEMMA DrawKeeps ==
  ASSUME IInv, Draw, UNCHANGED dataVars
  PROVE  IInv'
<1>1. /\ Idle /\ Idle' /\ todo' = todo /\ refused' = refused /\ queue' = queue
      /\ call' = "Draw" /\ outcome' = "ok" /\ ignored' = FALSE
      /\ rendered' = (IF source = "HOST_MEMORY" THEN Tiles ELSE {})
      /\ image' = {} /\ overlapped' = FALSE
      /\ UNCHANGED <<source, owner, copied>>
      /\ UNCHANGED <<counts, upload, stale, arrays, exported, corrupted>>
  BY DEF Draw, Immediate, Idle, dataVars
<1>2. Allocated' = Allocated
  BY <1>1, Allocation
<1>3. Typed' /\ Scheduled' /\ Uploaded' /\ Uploading' /\ Exporting' /\ Copying'
  BY <1>1, <1>2 DEF IInv, Typed, Scheduled, Uploaded, Uploading, Exporting, Copying
<1>4. Queued' /\ Getting'
  BY <1>1, <1>2, Leftovers DEF IInv, Queued, Getting, Listed, DataCalls, Uploads
<1> QED BY <1>3, <1>4 DEF IInv

LEMMA RenderKeeps ==
  ASSUME IInv, NEW t \in Tiles, Render(t), UNCHANGED dataVars
  PROVE  IInv'
<1>1. /\ t \notin rendered /\ rendered' = rendered \cup {t} /\ overlapped' \in BOOLEAN
      /\ UNCHANGED <<queue, todo, refused, call, outcome, ignored>>
      /\ UNCHANGED <<source, owner, image, copied>>
      /\ UNCHANGED <<counts, upload, stale, arrays, exported, corrupted>>
  BY DEF IInv, Typed, Render, queueVars, dataVars
<1>2. Allocated' = Allocated
  BY <1>1, Allocation
<1>3. Typed' /\ Scheduled' /\ Queued' /\ Getting' /\ Uploaded'
  BY <1>1, <1>2 DEF IInv, Typed, Scheduled, Queued, Getting, Uploaded, Idle, Throwing
<1>4. (\A c : InQueue(c)' <=> InQueue(c)) /\ (Throwing' <=> Throwing)
  BY <1>1 DEF InQueue, Throwing
<1>5. Uploading'
  BY <1>1, <1>2, <1>4 DEF IInv, Uploading, Idle
<1>6. Exporting'
  BY <1>1, <1>2, <1>4 DEF IInv, Exporting, Idle
<1>7. Copying'
  <2>1. rendered # Tiles
    BY <1>1
  <2>2. source # "HOST_MEMORY" /\ ~(call = "CopyImageToBuffer" /\ outcome = "ok")
    BY <2>1 DEF IInv, Copying
  <2>3. CopySteps' = CopySteps /\ at' = at /\ (Copied' <=> Copied) /\ (Idle' <=> Idle)
    BY <1>1 DEF CopySteps, at, Copied, Idle
  <2>4. ~Idle /\ call = "CopyImageToBuffer" => at \in Int /\ ~(at > 1)
    <3>1. Len(todo) \in Int /\ Len(CopySteps) \in Int
      <4>1. todo \in Seq(Steps)
        BY DEF IInv, Typed
      <4> QED BY <4>1, LenProperties, CopyShapes DEF CopySteps
    <3> QED BY <2>1, <3>1 DEF IInv, Copying, at
  <2> QED BY <1>1, <2>2, <2>3, <2>4 DEF IInv, Copying
<1> QED BY <1>3, <1>5, <1>6, <1>7 DEF IInv

\* The device carries out the first command of the queue.
LEMMA ExecuteKeeps ==
  ASSUME IInv, Execute
  PROVE  IInv'
<1> DEFINE cmd == queue[1]
           n == Len(queue)
<1>1. /\ cmd \in Commands /\ queue' = Tail(queue) /\ queue' \in Seq(Commands) /\ queue # << >>
      /\ Head(queue) = cmd /\ n \in Nat \ {0} /\ DOMAIN queue = 1 .. n /\ DOMAIN queue' = 1 .. n - 1
      /\ \A k \in 1 .. n - 1 : queue'[k] = queue[k + 1]
  <2>1. queue \in Seq(Commands) /\ queue # << >> /\ queue' = Tail(queue)
    BY DEF IInv, Typed, Execute
  <2> QED BY <2>1, HeadAndTail
<1>2. /\ UNCHANGED <<todo, refused, call, outcome, ignored>> /\ (Idle' <=> Idle)
      /\ \/ cmd.op \in ImageOps /\ ImageCommand(cmd.op) /\ UNCHANGED dataVars
         \/ cmd.op = "write" /\ WriteCommand(cmd) /\ UNCHANGED imageVars
         \/ cmd.op \in {"read", "read simulated"} /\ ReadCommand(cmd) /\ UNCHANGED imageVars
  BY <1>1 DEF Execute, Idle
<1>3. /\ UNCHANGED <<counts, upload, exported>> /\ UNCHANGED <<source, rendered, overlapped, copied>>
      /\ owner' \in {"GL", "CL"} /\ corrupted' \in BOOLEAN
      /\ cmd.op # "write" => stale' = stale
      /\ cmd.op = "write" =>
           stale' = IF cmd.mem = "freed" THEN stale \cup cmd.cells ELSE stale \ cmd.cells
      /\ cmd.op \notin {"read", "read simulated"} => arrays' = arrays
      /\ cmd.op \in {"read", "read simulated"} =>
           arrays' = IF cmd.mem = "freed" THEN arrays
             ELSE arrays \cup (IF cmd.op = "read simulated" THEN cmd.cells \X {"simulated"}
                               ELSE (cmd.cells \ stale) \X {"real"})
      /\ image' = IF cmd.op = "copy" THEN rendered ELSE image
  <2>1. owner \in {"GL", "CL"} /\ corrupted \in BOOLEAN
    BY DEF IInv, Typed
  <2>2. CASE cmd.op \in ImageOps /\ ImageCommand(cmd.op) /\ UNCHANGED dataVars
    BY <2>1, <2>2 DEF ImageOps, ImageCommand, dataVars
  <2>3. CASE cmd.op = "write" /\ WriteCommand(cmd) /\ UNCHANGED imageVars
    BY <2>1, <2>3 DEF WriteCommand, imageVars
  <2>4. CASE cmd.op \in {"read", "read simulated"} /\ ReadCommand(cmd) /\ UNCHANGED imageVars
    BY <2>1, <2>4 DEF ReadCommand, imageVars
  <2> QED BY <1>2, <2>2, <2>3, <2>4
<1>4. Allocated' = Allocated
  BY <1>3, Allocation
<1> HIDE DEF cmd, n
<1>5. /\ cmd.cells \subseteq Allocated
      /\ cmd.op \in ImageOps <=> cmd.mem = "none"
      /\ cmd.mem \in {"local", "caller"} => ~Idle /\ cmd.mem = MemOf(call) /\ cmd.op \in OpsOf(call)
      /\ cmd.mem = "local" => \A k \in 2 .. n : queue[k].mem # "freed"
      /\ cmd.mem \in {"none", "local", "caller", "freed"}
  <2>1. 1 \in DOMAIN queue /\ \A k \in 2 .. n : k \in DOMAIN queue /\ 1 \in 1 .. k - 1
    BY <1>1
  <2> QED BY <1>1, <2>1 DEF IInv, Queued, cmd, Commands
<1>6. \A k \in DOMAIN queue : k = 1 \/ (k - 1 \in DOMAIN queue' /\ queue'[k - 1] = queue[k])
  BY <1>1
<1>7. \A k \in DOMAIN queue' : k + 1 \in DOMAIN queue /\ queue'[k] = queue[k + 1] /\ k + 1 \in 2 .. n
  BY <1>1
<1>8. ASSUME NEW c, InQueue(c)
      PROVE  InQueue(c)' \/ (cmd.mem = "local" /\ c \in cmd.cells)
  <2>1. PICK k \in DOMAIN queue : queue[k].mem = "local" /\ c \in queue[k].cells
    BY <1>8 DEF InQueue
  <2>2. CASE k = 1
    BY <2>1, <2>2 DEF cmd
  <2>3. CASE k # 1
    <3>1. k - 1 \in DOMAIN queue' /\ queue'[k - 1] = queue[k]
      BY <1>6, <2>3
    <3> QED BY <2>1, <3>1 DEF InQueue
  <2> QED BY <2>2, <2>3
<1>9. Throwing' <=> Throwing
  BY <1>2 DEF Throwing
<1>10. Typed'
  <2>1. stale' \subseteq Allocated
    BY <1>3, <1>5 DEF IInv, Typed
  <2>2. arrays' \subseteq Allocated \X {"real", "simulated"}
    BY <1>3, <1>5 DEF IInv, Typed
  <2>3. image' \subseteq Tiles
    BY <1>3 DEF IInv, Typed
  <2> QED BY <1>1, <1>2, <1>3, <1>4, <2>1, <2>2, <2>3 DEF IInv, Typed
<1>11. Scheduled'
  BY <1>2, <1>3, <1>4 DEF IInv, Scheduled
<1>12. Queued'
  <2>1. ASSUME NEW k \in DOMAIN queue'
        PROVE  /\ queue'[k].cells \subseteq Allocated
               /\ queue'[k].op \in ImageOps <=> queue'[k].mem = "none"
               /\ queue'[k].mem \in {"local", "caller"} =>
                    ~Idle /\ queue'[k].mem = MemOf(call) /\ queue'[k].op \in OpsOf(call)
               /\ \A j \in 1 .. k - 1 : queue'[j].mem = "local" => queue'[k].mem # "freed"
               /\ ~Idle /\ ~ignored /\ (call \in DataCalls \/ queue'[k].op # "release")
                    => FinishedFrom(todo, 1) \/ Throwing
               /\ outcome = "ok" /\ ~ignored /\ call \in Listed
                    => call \notin DataCalls /\ queue'[k].op = "release"
    <3>1. k + 1 \in DOMAIN queue /\ queue'[k] = queue[k + 1]
      BY <1>7
    <3>2. \A j \in 1 .. k - 1 : j + 1 \in 1 .. (k + 1) - 1 /\ queue'[j] = queue[j + 1]
      BY <1>1
    <3> QED BY <3>1, <3>2 DEF IInv, Queued
  <2> QED BY <1>2, <1>4, <1>9, <2>1 DEF Queued
<1>13. Getting'
  <2>1. Idle => arrays' = {}
    BY <1>2, <1>3, <1>5 DEF IInv, Getting, ImageOps
  <2> QED BY <1>2, <1>7, <2>1 DEF IInv, Getting
<1>14. Uploaded'
  <2> SUFFICES ASSUME upload = "ok" PROVE Uploaded'
    BY <1>3 DEF Uploaded
  <2>1. stale = {} /\ \A k \in DOMAIN queue : queue[k].op # "write"
    BY DEF IInv, Uploaded
  <2>2. cmd.op # "write"
    BY <1>1, <2>1 DEF cmd
  <2> QED BY <1>3, <1>7, <2>1, <2>2 DEF Uploaded
<1>15. Uploading'
  <2> SUFFICES ASSUME ~Idle, call \in Uploads PROVE Uploading'
    BY <1>2 DEF Uploading
  <2>1. /\ \A i \in DOMAIN todo : todo[i].do \notin Saves
        /\ stale # Allocated => \A k \in DOMAIN queue : queue[k].mem # "freed"
        /\ \A c \in stale : InQueue(c) \/ Coming(todo, 1, Len(todo), c) \/ Throwing
        /\ stale \subseteq Allocated
    BY DEF IInv, Uploading, Typed
  <2>2. OpsOf(call) = {"write"} /\ MemOf(call) = "local"
    BY CallUses
  <2>3. cmd.mem = "local" => cmd.op = "write"
    BY <1>5, <2>2
  <2>4. cmd.op = "write" => cmd.mem \in {"local", "freed"}
    BY <1>5, <2>2 DEF ImageOps
  <2>5. ASSUME stale' # Allocated, NEW k \in DOMAIN queue'
        PROVE  queue'[k].mem # "freed"
    <3>1. CASE stale # Allocated
      BY <1>7, <2>1, <3>1
    <3>2. CASE stale = Allocated
      <4>1. cmd.mem = "local"
        BY <1>3, <1>5, <2>4, <2>5, <3>2
      <4> QED BY <1>5, <1>7, <4>1
    <3> QED BY <3>1, <3>2
  <2>6. ASSUME NEW c \in stale'
        PROVE  InQueue(c)' \/ Coming(todo, 1, Len(todo), c) \/ Throwing
    <3>1. CASE cmd.mem = "local"
      BY <1>3, <1>8, <2>1, <2>3, <2>6, <3>1
    <3>2. CASE cmd.mem # "local"
      <4>1. c \in stale
        <5>1. CASE cmd.op = "write"
          <6>1. cmd.mem = "freed"
            BY <2>4, <3>2, <5>1
          <6>2. stale = Allocated
            BY <1>1, <2>1, <6>1 DEF cmd
          <6> QED BY <1>3, <1>5, <2>6, <5>1, <6>1, <6>2
        <5>2. CASE cmd.op # "write"
          BY <1>3, <2>6, <5>2
        <5> QED BY <5>1, <5>2
      <4> QED BY <1>8, <2>1, <3>2, <4>1
    <3> QED BY <3>1, <3>2
  <2> QED BY <1>2, <1>4, <1>9, <2>1, <2>5, <2>6 DEF Uploading
<1>16. Exporting'
  <2> SUFFICES ASSUME ~Idle, ~ignored, call = "ExportData", upload = "ok" PROVE Exporting'
    BY <1>2, <1>3 DEF Exporting
  <2>1. stale = {} /\ cmd.op # "write"
    BY <1>1 DEF IInv, Uploaded, cmd
  <2>2. /\ cmd.mem = "local" => cmd.op \in {"read", "read simulated"}
        /\ cmd.op \in {"read", "read simulated"} => cmd.mem \in {"local", "freed"}
    BY <1>5, CallUses DEF ImageOps
  <2>3. arrays \subseteq arrays'
    BY <1>3
  <2>4. cmd.mem = "local" => arrays' = arrays \cup cmd.cells \X {ReadAs(cmd)}
    BY <1>3, <2>1, <2>2 DEF ReadAs
  <2>5. cmd.mem # "local" => arrays' = arrays
    BY <1>3, <2>2
  <2>6. \A c : InQueue(c) => InQueue(c)' \/ \E a \in arrays' : a[1] = c
    <3> SUFFICES ASSUME NEW c \in cmd.cells, cmd.mem = "local" PROVE \E a \in arrays' : a[1] = c
      BY <1>8
    <3>1. <<c, ReadAs(cmd)>> \in arrays' /\ <<c, ReadAs(cmd)>>[1] = c
      BY <2>4
    <3> QED BY <3>1
  <2>7. ASSUME NEW p \in DOMAIN todo, todo[p].do \in Saves
        PROVE  /\ Unsaved(todo, 1, p) =>
                    /\ \A k \in DOMAIN queue' : queue'[k].mem = "local" =>
                         \A c \in queue'[k].cells : ReadAs(queue'[k]) = SourceOf(todo[p].do, c)
                    /\ \A a \in arrays' : a[2] = SourceOf(todo[p].do, a[1])
               /\ \A c \in Allocated :
                    \/ Coming(todo, 1, p, c)
                    \/ Unsaved(todo, 1, p) /\ (InQueue(c)' \/ Throwing \/ \E a \in arrays' : a[1] = c)
    <3>1. /\ Unsaved(todo, 1, p) =>
               /\ \A k \in DOMAIN queue : queue[k].mem = "local" =>
                    \A c \in queue[k].cells : ReadAs(queue[k]) = SourceOf(todo[p].do, c)
               /\ \A a \in arrays : a[2] = SourceOf(todo[p].do, a[1])
          /\ \A c \in Allocated :
               \/ Coming(todo, 1, p, c)
               \/ Unsaved(todo, 1, p) /\ (InQueue(c) \/ Throwing \/ \E a \in arrays : a[1] = c)
      BY <2>7 DEF IInv, Exporting
    <3>2. ASSUME Unsaved(todo, 1, p), NEW k \in DOMAIN queue', queue'[k].mem = "local",
                 NEW c \in queue'[k].cells
          PROVE  ReadAs(queue'[k]) = SourceOf(todo[p].do, c)
      BY <1>7, <3>1, <3>2
    <3>3. ASSUME Unsaved(todo, 1, p), NEW a \in arrays'
          PROVE  a[2] = SourceOf(todo[p].do, a[1])
      <4>1. CASE a \in arrays
        BY <3>1, <3>3, <4>1
      <4>2. CASE cmd.mem = "local" /\ a \in cmd.cells \X {ReadAs(cmd)}
        <5>1. \A c \in cmd.cells : ReadAs(cmd) = SourceOf(todo[p].do, c)
          BY <1>1, <3>1, <3>3, <4>2 DEF cmd
        <5> QED BY <4>2, <5>1
      <4> QED BY <2>4, <2>5, <3>3, <4>1, <4>2
    <3>4. ASSUME NEW c \in Allocated
          PROVE  \/ Coming(todo, 1, p, c)
                 \/ Unsaved(todo, 1, p) /\ (InQueue(c)' \/ Throwing \/ \E a \in arrays' : a[1] = c)
      BY <2>3, <2>6, <3>1
    <3> QED BY <3>2, <3>3, <3>4
  <2> QED BY <1>2, <1>4, <1>9, <2>7 DEF IInv, Exporting
<1>17. Copying'
  <2>1. CopySteps' = CopySteps /\ at' = at
    BY <1>2, <1>3 DEF CopySteps, at
  <2>2. rendered = Tiles /\ Copied => Copied'
    <3>1. CASE cmd.op = "copy"
      BY <1>3, <3>1 DEF Copied
    <3>2. CASE cmd.op # "copy"
      BY <1>3, <1>6, <3>2 DEF Copied, cmd
    <3> QED BY <3>1, <3>2
  <2>3. call = "CopyImageToBuffer" /\ outcome = "ok" => image' = image
    <3>1. "CopyImageToBuffer" \in Listed
      BY DEF Listed
    <3>2. 1 \in DOMAIN queue
      BY <1>1
    <3>4. call = "CopyImageToBuffer" /\ outcome = "ok" => ~ignored
      BY DEF IInv, Scheduled
    <3>3. call = "CopyImageToBuffer" /\ outcome = "ok" => cmd.op = "release"
      BY <3>1, <3>2, <3>4 DEF IInv, Queued, cmd
    <3> QED BY <1>3, <3>3
  <2>4. source = "HOST_MEMORY" => rendered = Tiles
    BY DEF IInv, Copying
  <2>5. ASSUME ~Idle, call = "CopyImageToBuffer"
        PROVE  /\ Len(todo) <= Len(CopySteps)
               /\ \A k \in DOMAIN todo : todo[k] = CopySteps[at - 1 + k]
               /\ at > 1 => rendered = Tiles
               /\ source = "HOST_MEMORY" =>
                    (at = 2 => refused \/ Copied') /\ (at > 2 => Copied')
               /\ source # "HOST_MEMORY" =>
                    (at = 7 => refused \/ Copied') /\ (at > 7 => Copied')
    <3>1. at = 7 \/ at > 7 => at > 1
      <4>1. at \in Int
        <5>1. todo \in Seq(Steps)
          BY DEF IInv, Typed
        <5>2. Len(todo) \in Int /\ Len(CopySteps) \in Int
          BY <5>1, LenProperties, CopyShapes DEF CopySteps
        <5> QED BY <5>2 DEF at
      <4> QED BY <4>1
    <3> QED BY <2>2, <2>4, <2>5, <3>1 DEF IInv, Copying
  <2> QED BY <1>2, <1>3, <2>1, <2>3, <2>4, <2>5 DEF IInv, Copying
<1> QED BY <1>10, <1>11, <1>12, <1>13, <1>14, <1>15, <1>16, <1>17 DEF IInv

-----------------------------------------------------------------------------
(* The theorems *)

LEMMA Initially == Init => IInv
<1> SUFFICES ASSUME Init PROVE IInv
  OBVIOUS
<1>1. /\ queue = << >> /\ todo = << >> /\ refused = FALSE /\ call = "CLibOI" /\ outcome = "ok"
      /\ counts = NoCounts /\ upload = "none" /\ stale = {} /\ arrays = {}
      /\ exported = "nothing" /\ corrupted = FALSE /\ ignored = FALSE /\ copied = FALSE
      /\ source \in Sources /\ owner = "GL" /\ rendered = Tiles /\ overlapped = FALSE /\ image = {}
  BY DEF Init, QueueInit, DataInit, ImageInit
<1>2. Idle /\ Allocated = {}
  BY <1>1 DEF Idle, Allocated
<1>3. Typed
  BY <1>1, <1>2, EmptySeq DEF Typed, NoCounts, Count
<1>4. Scheduled /\ Uploaded /\ Uploading /\ Exporting /\ Copying
  BY <1>1, <1>2 DEF Scheduled, Uploaded, Uploading, Exporting, Copying
<1>5. Queued /\ Getting
  <2>1. DOMAIN queue = {}
    BY <1>1
  <2> QED BY <1>1, <1>2, <2>1 DEF Queued, Getting
<1> QED BY <1>3, <1>4, <1>5 DEF IInv

LEMMA EveryStepKeeps ==
  ASSUME IInv, [Next]_vars
  PROVE  IInv'
<1>1. CASE LoadData /\ UNCHANGED imageVars
  BY <1>1, LoadDataKeeps
<1>2. CASE ReplaceData /\ UNCHANGED imageVars
  BY <1>2, ReplaceDataKeeps
<1>3. CASE ExportData /\ UNCHANGED imageVars
  BY <1>3, ExportDataKeeps
<1>4. CASE GetData /\ UNCHANGED imageVars
  BY <1>4, GetDataKeeps
<1>5. CASE RemoveData /\ UNCHANGED imageVars
  BY <1>5, RemoveDataKeeps
<1>6. CASE Repackage /\ UNCHANGED imageVars
  BY <1>6, RepackageKeeps
<1>7. CASE (Save("save real") \/ Save("save model")) /\ UNCHANGED imageVars
  <2>1. "save real" \in Saves /\ "save model" \in Saves
    BY DEF Saves
  <2> QED BY <1>7, <2>1, SaveKeeps
<1>8. CASE Return /\ ImageReturn
  BY <1>8, ReturnKeeps
<1>9. CASE Throw /\ UNCHANGED imageVars
  BY <1>9, ThrowKeeps
<1>10. CASE Draw /\ UNCHANGED dataVars
  BY <1>10, DrawKeeps
<1>11. CASE CopyImageToBuffer /\ UNCHANGED dataVars
  BY <1>11, CopyImageKeeps
<1>12. CASE GlFinish /\ UNCHANGED dataVars
  BY <1>12, GlFinishKeeps
<1>13. CASE EnqueueGroup /\ UNCHANGED <<dataVars, imageVars>>
  BY <1>13, EnqueueGroupKeeps
<1>14. CASE Finish /\ UNCHANGED <<dataVars, imageVars>>
  BY <1>14, FinishKeeps
<1>15. CASE CheckPasses /\ UNCHANGED <<dataVars, imageVars>>
  BY <1>15, CheckPassesKeeps
<1>19. CASE FinishFails(call = "CopyImageToBuffer") /\ UNCHANGED <<dataVars, imageVars>>
  BY <1>19, FinishFailsKeeps
<1>16. CASE Execute
  BY <1>16, ExecuteKeeps
<1>17. CASE OpenGL
  BY <1>17, RenderKeeps DEF OpenGL
<1>18. CASE UNCHANGED vars
  <2>1. UNCHANGED <<queue, todo, refused, call, outcome, ignored, counts, upload, stale, arrays,
                    exported, corrupted, source, rendered, owner, overlapped, image, copied>>
    BY <1>18 DEF vars, queueVars, dataVars, imageVars
  <2>2. Allocated' = Allocated /\ (Idle' <=> Idle) /\ (Throwing' <=> Throwing)
    BY <2>1, Allocation DEF Idle, Throwing
  <2>3. \A c : InQueue(c)' <=> InQueue(c)
    BY <2>1 DEF InQueue
  <2>4. CopySteps' = CopySteps /\ at' = at /\ (Copied' <=> Copied)
    BY <2>1 DEF CopySteps, at, Copied
  <2>5. Typed' /\ Scheduled' /\ Queued' /\ Getting' /\ Uploaded'
    BY <2>1, <2>2 DEF IInv, Typed, Scheduled, Queued, Getting, Uploaded
  <2>6. Uploading' /\ Exporting' /\ Copying'
    BY <2>1, <2>2, <2>3, <2>4 DEF IInv, Uploading, Exporting, Copying
  <2> QED BY <2>5, <2>6 DEF IInv
<1> QED BY <1>1, <1>2, <1>3, <1>4, <1>5, <1>6, <1>7, <1>8, <1>9, <1>10, <1>11, <1>12, <1>13,
           <1>14, <1>15, <1>16, <1>17, <1>18, <1>19
        DEF Next, Host, DataCall, DataStep, QueueStep

\* The inductive invariant holds throughout, for any data sets, any lengths
\* asked for, any tiles, and any bounds on refused and pending commands.
THEOREM Invariance == Spec => []IInv
<1>1. IInv /\ [Next]_vars => IInv'
  BY EveryStepKeeps
<1> QED BY <1>1, Initially, PTL DEF Spec

\* Every variable keeps its type, and a call runs exactly while its outcome
\* is open (COILibData.cpp 176-652, CRoutine_ImageToBuffer.cpp 65-107).
THEOREM TypeCorrect == Spec => []TypeOK
<1>1. IInv => TypeOK
  <2> SUFFICES ASSUME IInv PROVE TypeOK
    OBVIOUS
  <2>1. IF upload = "none" THEN stale = {} ELSE stale \subseteq AllocateMemory(counts)
    BY DEF IInv, Typed, Allocated
  <2>2. arrays \subseteq AllocateMemory(counts) \X {"real", "simulated"}
    BY DEF IInv, Typed, Allocated
  <2> QED BY <2>1, <2>2 DEF IInv, Typed, Scheduled, TypeOK
<1> QED BY <1>1, Invariance, PTL

\* A call that returned normally leaves nothing in the queue that uses host
\* memory, however the device was delayed and whatever was refused in the
\* calls before (COILibData.cpp 422, 557, 573, 586).
THEOREM NothingLeft == Spec => []NothingPending
<1>1. IInv => NothingPending
  BY DEF IInv, Queued, NothingPending, ToSet, Listed, DataCalls, Uploads
<1> QED BY <1>1, Invariance, PTL

\* A copy that returned normally has the whole of the last frame, for any
\* number of tiles, rendered at any time (CRoutine_ImageToBuffer.cpp 77-102).
THEOREM FrameCopied == Spec => []WholeFrame
<1>1. IInv => WholeFrame
  BY DEF IInv, Copying, WholeFrame
<1> QED BY <1>1, Invariance, PTL

LEMMA CopiesNeverSave ==
  ASSUME IInv, ~Idle, call = "CopyImageToBuffer"
  PROVE  todo[1].do \notin Saves
<1>1. todo[1] = CopySteps[at] /\ at \in DOMAIN CopySteps
  BY CopyPlace
<1>2. NoSaves(CopySteps)
  BY OpenGLCopy, HostCopy DEF CopySteps
<1> QED BY ONLY <1>1, <1>2 DEF NoSaves

\* A file that is saved while the data set is whole has all of it.
LEMMA SavedWhole ==
  ASSUME IInv, upload = "ok", ~ignored, NEW save \in Saves, ~Idle, todo[1].do = save
  PROVE  WholeFile(save)
<1>1. /\ 1 \in DOMAIN todo /\ Head(todo) = todo[1]
  BY GoesOn DEF IInv
<1>2. call = "ExportData"
  <2>1. call \in Listed
    BY DEF IInv, Scheduled
  <2>2. call \notin Uploads /\ call # "GetData"
    BY <1>1 DEF IInv, Uploading, Getting
  <2>3. call # "CopyImageToBuffer"
    BY CopiesNeverSave
  <2> QED BY <2>1, <2>2, <2>3 DEF Listed, DataCalls
<1>3. ~Throwing /\ \A c : ~InQueue(c)
  <2>1. \A k \in DOMAIN queue : queue[k].mem # "local"
    BY Waited DEF IInv
  <2> QED BY <1>1, <2>1 DEF Throwing, InQueue, Saves
<1>4. Unsaved(todo, 1, 1) /\ \A c : ~Coming(todo, 1, 1, c)
  BY DEF Unsaved, Coming
<1>5. /\ \A a \in arrays : a[2] = SourceOf(save, a[1])
      /\ \A c \in Allocated : \E a \in arrays : a[1] = c
  BY <1>1, <1>2, <1>3, <1>4 DEF IInv, Exporting
<1>6. arrays \subseteq Allocated \X {"real", "simulated"} /\ Allocated = AllocateMemory(counts)
  BY DEF IInv, Typed, Allocated
<1>7. ASSUME NEW a \in arrays
      PROVE  a[1] \in Allocated /\ a = <<a[1], SourceOf(save, a[1])>>
  BY <1>5, <1>6
<1>8. arrays = {<<c, SourceOf(save, c)>> : c \in Allocated}
  <2>1. ASSUME NEW c \in Allocated PROVE <<c, SourceOf(save, c)>> \in arrays
    <3>1. PICK a \in arrays : a[1] = c
      BY <1>5
    <3> QED BY <1>7, <3>1
  <2> QED BY <1>7, <2>1
<1> QED BY <1>6, <1>8 DEF WholeFile, SourceOf

-----------------------------------------------------------------------------
(* OpenGL gets its object back *)

Released ==
  /\ \A k \in DOMAIN queue : queue[k].op # "acquire"
  /\ owner = "GL" \/ \E k \in DOMAIN queue : queue[k].op = "release"

\* After a copy, and at the end of one, only the release is missing.
Returning ==
  /\ source = "HOST_MEMORY" => owner = "GL" /\ \A k \in DOMAIN queue : queue[k].op # "acquire"
  /\ copied => Released /\ (Idle \/ call # "CopyImageToBuffer")
  /\ source # "HOST_MEMORY" /\ ~Idle /\ call = "CopyImageToBuffer" =>
       /\ at = 11 => refused \/ Released
       /\ at = 12 => Released

\* A step that neither enqueues nor ends a copy.
LEMMA StillReturning ==
  ASSUME Returning, source' = source, owner' = owner, copied' = copied, Released => Released',
         (\A k \in DOMAIN queue : queue[k].op # "acquire")
           => \A k \in DOMAIN queue' : queue'[k].op # "acquire",
         Idle' \/ call' # "CopyImageToBuffer"
  PROVE  Returning'
BY DEF Returning

\* The group at the end of a copy releases the object: nothing but other
\* releases is in the queue before it.
LEMMA ReleaseEnqueued ==
  ASSUME IInv, Returning, EnqueueGroup, UNCHANGED <<dataVars, imageVars>>
  PROVE  Returning'
<1>1. /\ ~Idle /\ todo[1].do = "enqueue" /\ todo' = Tail(todo)
      /\ call' = call /\ outcome' = outcome /\ ignored' = ignored
      /\ \A k \in DOMAIN queue : k \in DOMAIN queue' /\ queue'[k] = queue[k]
      /\ \A k \in DOMAIN queue' : k \in DOMAIN queue \/ queue'[k] \in Posted(todo[1])
      /\ ~refused' => \A cmd \in Posted(todo[1]) : \E k \in DOMAIN queue' : queue'[k] = cmd
  BY Enqueued DEF IInv
<1>2. UNCHANGED <<source, owner, copied>>
  BY DEF imageVars
<1>3. call \in Listed
  BY <1>1 DEF IInv, Scheduled
<1>4. CASE call \in DataCalls
  <2>1. "acquire" \notin OpsOf(call) /\ call # "CopyImageToBuffer"
    BY <1>4, CallUses DEF DataCalls, Uploads
  <2>2. \A cmd \in Posted(todo[1]) : cmd.op # "acquire"
    <3>1. 1 \in DOMAIN todo /\ Uses(todo, OpsOf(call), MemOf(call), Allocated)
      BY <1>1, GoesOn DEF IInv, Scheduled
    <3> QED BY <2>1, <3>1 DEF Uses
  <2>3. (\A k \in DOMAIN queue : queue[k].op # "acquire")
          => \A k \in DOMAIN queue' : queue'[k].op # "acquire"
    BY <1>1, <2>2
  <2>4. Released => Released'
    BY <1>1, <1>2, <2>3 DEF Released
  <2> QED BY <1>1, <1>2, <2>1, <2>3, <2>4, StillReturning
<1>5. CASE call = "CopyImageToBuffer"
  <2>1. ~copied /\ ~ignored
    BY <1>1, <1>5 DEF Returning, IInv, Scheduled
  <2>2. /\ at \in 1 .. Len(CopySteps) /\ Len(todo) = Len(CopySteps) - at + 1
        /\ todo[1] = CopySteps[at]
    BY <1>1, <1>5, CopyPlace
  <2>3. CASE source = "HOST_MEMORY"
    <3>1. CopySteps = HostSteps /\ Len(CopySteps) = 5
      BY <2>3, CopyShapes DEF CopySteps
    <3> HIDE DEF at
    <3>2. at = 1 \/ at = 2 \/ at = 3 \/ at = 4 \/ at = 5
      BY ONLY <2>2, <3>1
    <3>3. at = 1
      BY <1>1, <2>2, <3>1, <3>2, CopyShapes DEF WaitsOnly
    <3>4. Posted(todo[1]) = {Plain("copy")} /\ Plain("copy").op = "copy"
      BY <2>2, <3>1, <3>3, CopyShapes, CopyStepsTyped DEF EnqueuesOnly, ImageOps
    <3>5. \A k \in DOMAIN queue' : queue'[k].op # "acquire"
      BY <1>1, <2>3, <3>4 DEF Returning
    <3> QED BY <1>2, <2>1, <2>3, <3>5 DEF Returning
  <2>4. CASE source # "HOST_MEMORY"
    <3>1. CopySteps = OpenGLSteps /\ Len(CopySteps) = 12
      BY <2>4, CopyShapes DEF CopySteps
    <3>2. at' = at + 1
      <4>1. CopySteps' = CopySteps /\ Len(todo') = Len(todo) - 1 /\ Len(todo) \in Nat
        BY <1>1, <1>2, GoesOn DEF IInv, CopySteps
      <4>2. at = Len(CopySteps) - Len(todo) + 1 /\ at' = Len(CopySteps) - Len(todo') + 1
        BY <4>1 DEF at
      <4> HIDE DEF at
      <4> QED BY ONLY <3>1, <4>1, <4>2
    <3> HIDE DEF at
    <3>3. /\ at' = 11 => at = 10
          /\ at' = 12 => at = 11
      BY <2>2, <3>1, <3>2
    <3>4. at # 11
      BY <1>1, <2>2, <3>1, CopyShapes DEF WaitsOnly
    <3>5. ASSUME at = 10, ~refused' PROVE Released'
      <4>1. /\ Len(todo) = 3 /\ DOMAIN todo = 1 .. 3
            /\ todo[1] = OpenGLSteps[10] /\ todo[2] = OpenGLSteps[11] /\ todo[3] = OpenGLSteps[12]
        <5>1. Len(todo) = 3 /\ DOMAIN todo = 1 .. Len(todo)
          BY <1>1, <2>2, <3>1, <3>5, GoesOn DEF IInv
        <5>2. \A k \in DOMAIN todo : todo[k] = CopySteps[at - 1 + k]
          BY <1>1, <1>5 DEF IInv, Copying
        <5> QED BY <3>1, <3>5, <5>1, <5>2
      <4>2. /\ todo[1].do = "enqueue" /\ todo[2].do = "check" /\ todo[3].do = "return"
            /\ Posted(todo[1]) = {Plain("release")} /\ Plain("release").op = "release"
        BY <4>1, CopyShapes, CopyStepsTyped DEF EnqueuesOnly, WaitsOnly, ImageOps
      <4>3. ~FinishedFrom(todo, 1) /\ ~Throwing
        <5>1. \A j \in 1 .. 3 : j = 1 \/ j = 2 \/ j = 3
          OBVIOUS
        <5>2. \A j \in DOMAIN todo : todo[j].do \notin Waiters
          BY <4>1, <4>2, <5>1 DEF Waiters
        <5>3. Head(todo) = todo[1]
          BY <1>1, GoesOn DEF IInv
        <5> QED BY <4>2, <5>2, <5>3 DEF FinishedFrom, Throwing
      <4>4. \A k \in DOMAIN queue : queue[k].op = "release"
        BY <1>1, <2>1, <4>3 DEF IInv, Queued
      <4>5. \A k \in DOMAIN queue' : queue'[k].op = "release"
        BY <1>1, <4>2, <4>4
      <4>6. \E k \in DOMAIN queue' : queue'[k].op = "release"
        BY <1>1, <3>5, <4>2
      <4> QED BY <4>5, <4>6 DEF Released
    <3> QED BY <1>2, <2>1, <2>4, <3>3, <3>4, <3>5 DEF Returning
  <2> QED BY <2>3, <2>4
<1> QED BY <1>3, <1>4, <1>5 DEF Listed

\* A step of a call that leaves the queue alone.
LEMMA ReturningOn ==
  ASSUME IInv, Returning, ~Idle, todo' = Tail(todo), call' = call, queue' = queue,
         todo[1].do # "enqueue", todo[1].do = "check" => ~refused,
         source' = source, owner' = owner, copied' = copied
  PROVE  Returning'
<1>1. Released' <=> Released
  BY DEF Released
<1>2. CASE ~(source # "HOST_MEMORY" /\ call = "CopyImageToBuffer")
  BY <1>1, <1>2 DEF Returning
<1>3. CASE source # "HOST_MEMORY" /\ call = "CopyImageToBuffer"
  <2>1. /\ at \in 1 .. 12 /\ Len(todo) = 12 - at + 1 /\ todo[1] = OpenGLSteps[at]
    <3>1. CopySteps = OpenGLSteps /\ Len(CopySteps) = 12
      BY <1>3, CopyShapes DEF CopySteps
    <3> QED BY <1>3, <3>1, CopyPlace
  <2>2. at' = at + 1
    <3>1. CopySteps' = CopySteps /\ Len(CopySteps) = 12 /\ Len(todo') = Len(todo) - 1
          /\ Len(todo) \in Nat
      BY <1>3, CopyShapes, GoesOn DEF IInv, CopySteps
    <3> QED BY <3>1 DEF at
  <2> HIDE DEF at
  <2>3. /\ at' = 11 => at = 10
        /\ at' = 12 => at = 11
    BY <2>1, <2>2
  <2>4. at = 10 => todo[1].do = "enqueue"
    BY <2>1, CopyShapes DEF EnqueuesOnly
  <2>5. at = 11 => todo[1].do = "check"
    BY <2>1, CopyShapes DEF WaitsOnly
  <2> QED BY <1>1, <1>3, <2>3, <2>4, <2>5 DEF Returning
<1> QED BY <1>2, <1>3

LEMMA ReturningExecutes ==
  ASSUME IInv, Returning, Execute
  PROVE  Returning'
<1> DEFINE cmd == queue[1]
           n == Len(queue)
<1>1. /\ cmd \in Commands /\ Head(queue) = cmd /\ n \in Nat \ {0}
      /\ DOMAIN queue = 1 .. n /\ DOMAIN queue' = 1 .. n - 1
      /\ \A k \in 1 .. n - 1 : queue'[k] = queue[k + 1]
  <2>1. queue \in Seq(Commands) /\ queue # << >> /\ queue' = Tail(queue)
    BY DEF IInv, Typed, Execute
  <2> QED BY <2>1, HeadAndTail
<1>2. /\ UNCHANGED <<todo, refused, call, source, copied>>
      /\ owner' = CASE cmd.op = "acquire" -> "CL" [] cmd.op = "release" -> "GL" [] OTHER -> owner
  <2>1. CASE cmd.op \in ImageOps /\ ImageCommand(cmd.op)
    BY <2>1 DEF Execute, ImageCommand, ImageOps
  <2>2. CASE cmd.op \in Transferring /\ UNCHANGED imageVars
    BY <2>2 DEF Execute, imageVars, Transferring
  <2> QED BY <1>1, <2>1, <2>2 DEF Execute, Transferring
<1> HIDE DEF cmd, n
<1>3. \A k \in DOMAIN queue' : k + 1 \in DOMAIN queue /\ queue'[k] = queue[k + 1]
  BY <1>1
<1>4. \A k \in DOMAIN queue : k = 1 \/ (k - 1 \in DOMAIN queue' /\ queue'[k - 1] = queue[k])
  BY <1>1
<1>5. 1 \in DOMAIN queue /\ queue[1] = cmd
  BY <1>1 DEF cmd
<1>6. ASSUME \A k \in DOMAIN queue : queue[k].op # "acquire"
      PROVE  /\ \A k \in DOMAIN queue' : queue'[k].op # "acquire"
             /\ owner' = owner \/ owner' = "GL"
  BY <1>2, <1>3, <1>5, <1>6
<1>7. ASSUME Released PROVE Released'
  <2>1. CASE cmd.op = "release"
    BY <1>2, <1>6, <1>7, <2>1 DEF Released
  <2>2. CASE cmd.op # "release"
    <3>1. owner' = owner
      BY <1>2, <1>5, <1>7, <2>2 DEF Released
    <3>2. (\E k \in DOMAIN queue : queue[k].op = "release")
            => \E k \in DOMAIN queue' : queue'[k].op = "release"
      BY <1>4, <1>5, <2>2
    <3> QED BY <1>6, <1>7, <3>1, <3>2 DEF Released
  <2> QED BY <2>1, <2>2
<1>8. at' = at /\ (Idle' <=> Idle)
  BY <1>2 DEF at, CopySteps, Idle
<1> QED BY <1>2, <1>6, <1>7, <1>8 DEF Returning

LEMMA ReturningReturns ==
  ASSUME IInv, Returning, Return, ImageReturn
  PROVE  Returning'
<1>1. /\ ~Idle /\ Len(todo) = 1 /\ todo' = << >> /\ queue' = Orphaned(queue)
      /\ copied' = (copied \/ call = "CopyImageToBuffer") /\ UNCHANGED <<source, owner>>
  BY GoesOn DEF IInv, Return, Does, Ends, ImageReturn
<1>2. DOMAIN queue' = DOMAIN queue /\ \A k \in DOMAIN queue : queue'[k].op = queue[k].op
  BY <1>1, Orphans DEF IInv
<1>3. (Released' <=> Released) /\ Idle'
  BY <1>1, <1>2 DEF Released, Idle
<1>4. ASSUME call = "CopyImageToBuffer" PROVE Released
  <2>1. CASE source = "HOST_MEMORY"
    BY <2>1 DEF Returning, Released
  <2>2. CASE source # "HOST_MEMORY"
    <3>1. CopySteps = OpenGLSteps /\ Len(CopySteps) = 12
      BY <2>2, CopyShapes DEF CopySteps
    <3>2. at = 12
      BY <1>1, <3>1 DEF at
    <3> QED BY <1>1, <1>4, <2>2, <3>2 DEF Returning
  <2> QED BY <2>1, <2>2
<1> QED BY <1>1, <1>2, <1>3, <1>4 DEF Returning

LEMMA ReturningSteps ==
  ASSUME IInv, Returning, [Next]_vars
  PROVE  Returning'
<1>1. CASE (LoadData \/ ReplaceData \/ ExportData \/ GetData) /\ UNCHANGED imageVars
  <2>1. /\ queue' = queue /\ call' \in {"LoadData", "ReplaceData", "ExportData", "GetData"}
        /\ UNCHANGED <<source, owner, copied>>
    BY <1>1 DEF LoadData, ReplaceData, ExportData, GetData, Upload, Calls, Immediate, imageVars
  <2> QED BY <2>1, StillReturning DEF Released
<1>2. CASE Draw
  <2>1. /\ queue' = queue /\ call' = "Draw" /\ UNCHANGED <<source, owner, copied>>
    BY <1>2 DEF Draw, Immediate
  <2> QED BY <2>1, StillReturning DEF Released
<1>3. CASE RemoveData /\ UNCHANGED imageVars
  <2>1. /\ queue' = Abandoned(queue) /\ call' = "RemoveData" /\ UNCHANGED <<source, owner, copied>>
    BY <1>3 DEF RemoveData, Immediate, imageVars
  <2>2. DOMAIN queue' = DOMAIN queue /\ \A k \in DOMAIN queue : queue'[k].op = queue[k].op
    BY <2>1, Abandonment DEF IInv, Typed
  <2> QED BY <2>1, <2>2, StillReturning DEF Released
<1>4. CASE Throw /\ UNCHANGED imageVars
  <2>1. /\ queue' \in {Orphaned(queue), Abandoned(Orphaned(queue))} /\ Idle'
        /\ UNCHANGED <<source, owner, copied>>
    BY <1>4 DEF Throw, Ends, Idle, imageVars
  <2>2. DOMAIN queue' = DOMAIN queue /\ \A k \in DOMAIN queue : queue'[k].op = queue[k].op
    <3>1. /\ Orphaned(queue) \in Seq(Commands) /\ DOMAIN Orphaned(queue) = DOMAIN queue
          /\ \A k \in DOMAIN queue : Orphaned(queue)[k].op = queue[k].op
      BY Orphans DEF IInv
    <3>2. ASSUME NEW o \in Seq(Commands)
          PROVE  DOMAIN Abandoned(o) = DOMAIN o /\ \A k \in DOMAIN o : Abandoned(o)[k].op = o[k].op
      BY Abandonment
    <3> QED BY <2>1, <3>1, <3>2
  <2> QED BY <2>1, <2>2, StillReturning DEF Released
<1>5. CASE Return /\ ImageReturn
  BY <1>5, ReturningReturns
<1>6. CASE CopyImageToBuffer
  <2>1. /\ queue' = queue /\ todo' = CopySteps /\ copied' = FALSE /\ UNCHANGED <<source, owner>>
    BY <1>6, CopyCall DEF CopyImageToBuffer, Calls
  <2>2. Len(CopySteps) \in Nat /\ CopySteps' = CopySteps
    BY <2>1, CopyShapes DEF CopySteps
  <2>3. at' = 1
    BY <2>1, <2>2 DEF at
  <2> QED BY <2>1, <2>3 DEF Returning
<1>7. CASE /\ UNCHANGED imageVars
          /\ \/ Repackage \/ Save("save real") \/ Save("save model") \/ Finish \/ CheckPasses
             \/ FinishFails(call = "CopyImageToBuffer") \/ GlFinish
  <2>0. UNCHANGED <<source, owner, copied>>
    BY <1>7 DEF imageVars
  <2>1. /\ ~Idle /\ todo' = Tail(todo) /\ call' = call /\ queue' = queue
        /\ Head(todo).do # "enqueue" /\ (Head(todo).do = "check" => ~refused)
    BY <1>7 DEF Repackage, Save, Finish, CheckPasses, FinishFails, GlFinish, Does, Proceeds
  <2>2. Head(todo) = todo[1]
    BY <2>1, GoesOn DEF IInv
  <2> QED BY <2>0, <2>1, <2>2, ReturningOn
<1>8. CASE EnqueueGroup /\ UNCHANGED <<dataVars, imageVars>>
  BY <1>8, ReleaseEnqueued
<1>9. CASE Execute
  BY <1>9, ReturningExecutes
<1>10. CASE OpenGL \/ UNCHANGED vars
  <2>1. UNCHANGED <<queue, todo, refused, call, source, owner, copied>>
    BY <1>10 DEF OpenGL, Render, vars, queueVars, imageVars
  <2>2. (Released' <=> Released) /\ at' = at /\ (Idle' <=> Idle)
    BY <2>1 DEF Released, at, CopySteps, Idle
  <2> QED BY <2>1, <2>2 DEF Returning
<1> QED BY <1>1, <1>2, <1>3, <1>4, <1>5, <1>6, <1>7, <1>8, <1>9, <1>10
        DEF Next, Host, DataCall, DataStep, QueueStep, GlFinish

\* After a copy that returned normally only the release is missing before
\* OpenGL has its object again, and a call of the data set that returned
\* normally, having waited, has made up for it: whatever earlier copies left
\* undone, and for any number of tiles (CRoutine_ImageToBuffer.cpp 77-103,
\* COILibData.cpp 363, 557, 571, 585).
THEOREM ObjectComesBack == Spec => []ObjectReturned
<1>1. Init => Returning
  <2> SUFFICES ASSUME Init PROVE Returning
    OBVIOUS
  <2>1. queue = << >> /\ owner = "GL" /\ copied = FALSE /\ todo = << >>
    BY DEF Init, QueueInit, ImageInit
  <2> QED BY <2>1 DEF Returning, Idle
<1>2. IInv /\ Returning /\ [Next]_vars => Returning'
  BY ReturningSteps
<1>3. IInv /\ Returning => ObjectReturned
  <2> SUFFICES ASSUME IInv, Returning, copied, owner # "GL" PROVE ObjectReturned
    BY DEF ObjectReturned
  <2>1. PICK k \in DOMAIN queue : queue[k].op = "release"
    BY DEF Returning, Released
  <2>2. \E cmd \in ToSet(queue) : cmd.op = "release"
    BY <2>1 DEF ToSet
  <2>3. ~(outcome = "ok" /\ ~ignored /\ call \in {"LoadData", "ReplaceData", "ExportData", "GetData"})
    BY <2>1 DEF IInv, Queued, Listed, DataCalls, Uploads
  <2> QED BY <2>2, <2>3 DEF ObjectReturned
<1> QED BY <1>1, <1>2, <1>3, Invariance, PTL DEF Spec

-----------------------------------------------------------------------------
(* The transfers keep the promise of Contents *)

\* What the promise sees of the data set: it is never spoiled.
Shown == CASE upload = "none" -> "none"
           [] upload = "partial" -> "changing"
           [] upload = "ok" -> IF stale = {} THEN "whole" ELSE "spoiled"
Meant == [none |-> "none", partial |-> "changing", ok |-> "whole"]

LEMMA NeverSpoiled ==
  ASSUME IInv
  PROVE  upload \in {"none", "partial", "ok"} /\ Shown = Meant[upload]
<1>1. upload \in {"none", "partial", "ok"} /\ (upload = "ok" => stale = {})
  BY DEF IInv, Typed, Uploaded
<1> QED BY <1>1 DEF Shown, Meant

LEMMA NeverSpoiledNext ==
  ASSUME IInv'
  PROVE  upload' \in {"none", "partial", "ok"} /\ Shown' = Meant[upload']
<1>1. upload' \in {"none", "partial", "ok"} /\ (upload' = "ok" => stale' = {})
  BY DEF IInv, Typed, Uploaded
<1> QED BY <1>1 DEF Shown, Meant

LEMMA ContentsInit == Init => DataOnDevice!Init
BY DEF Init, DataInit, DataOnDevice!Init

LEMMA ContentsNext ==
  ASSUME IInv, IInv', [Next]_vars
  PROVE  [DataOnDevice!Next]_<<Shown, exported>>
<1>1. /\ Shown = Meant[upload] /\ Shown' = Meant[upload']
      /\ upload \in {"none", "partial", "ok"}
  BY NeverSpoiled, NeverSpoiledNext
<1>2. /\ Meant["none"] = "none" /\ Meant["partial"] = "changing" /\ Meant["ok"] = "whole"
  BY DEF Meant
<1>3. /\ DataOnDevice!Change <=>
           Shown' = "changing" /\ exported' = (IF exported = "current" THEN "other" ELSE exported)
      /\ DataOnDevice!Complete <=>
           Shown = "changing" /\ Shown' = "whole" /\ exported' = exported
      /\ DataOnDevice!Lose <=> Shown' = "none" /\ exported' = exported
      /\ DataOnDevice!Export <=>
           /\ \/ Shown = "whole" /\ exported' = "current"
              \/ Shown = "changing" /\ exported' \in {"current", "other"}
              \/ Shown # "none" /\ exported' = "unknown"
           /\ Shown' = Shown
  BY DEF DataOnDevice!Change, DataOnDevice!Complete, DataOnDevice!Lose, DataOnDevice!Export, Shown
<1>4. CASE upload' = upload /\ exported' = exported
  BY <1>1, <1>4
<1>5. ASSUME NEW op, NEW script, NEW d, Upload(op, script, d)
      PROVE  DataOnDevice!Next
  <2>1. upload' = "partial" /\ exported' = (IF exported = "current" THEN "other" ELSE exported)
    BY <1>5 DEF Upload
  <2> QED BY <1>1, <1>2, <1>3, <2>1 DEF DataOnDevice!Next
<1>6. CASE RemoveData
  BY <1>1, <1>2, <1>3, <1>6 DEF RemoveData, DataSetGone, DataOnDevice!Next
<1>7. CASE Throw
  <2>1. CASE call = "LoadData"
    BY <1>1, <1>2, <1>3, <1>7, <2>1 DEF Throw, DataSetGone, DataOnDevice!Next
  <2>2. CASE call # "LoadData"
    BY <1>4, <1>7, <2>2 DEF Throw
  <2> QED BY <2>1, <2>2
<1>8. CASE Return
  <2>1. CASE call \in Uploads /\ ~ignored
    <3>1. upload = "partial" /\ upload' = "ok" /\ exported' = exported
      BY <1>8, <2>1 DEF Return, Does, IInv, Scheduled, Uploads
    <3> QED BY <1>1, <1>2, <1>3, <3>1 DEF DataOnDevice!Next
  <2>2. CASE ~(call \in Uploads /\ ~ignored)
    BY <1>4, <1>8, <2>2 DEF Return, Uploads
  <2> QED BY <2>1, <2>2
<1>9. ASSUME NEW save \in Saves, Save(save)
      PROVE  DataOnDevice!Next
  <2>1. /\ ~Idle /\ todo[1].do = save /\ upload' = upload
        /\ exported' = IF ignored THEN "unknown"
                       ELSE IF WholeFile(save) THEN "current" ELSE "other"
    BY <1>9, GoesOn DEF IInv, Save, Does
  <2>2. upload # "none"
    <3>1. call # "CopyImageToBuffer"
      BY <2>1, CopiesNeverSave
    <3> QED BY <2>1, <3>1 DEF IInv, Scheduled, Listed
  <2>3. upload = "ok" /\ ~ignored => exported' = "current"
    BY <2>1, SavedWhole
  <2>4. IF ignored THEN exported' = "unknown" ELSE exported' \in {"current", "other"}
    BY <2>1
  <2> QED BY <1>1, <1>2, <1>3, <2>1, <2>2, <2>3, <2>4 DEF DataOnDevice!Next
<1>10. CASE LoadData \/ ReplaceData
  <2>1. CASE UNCHANGED dataVars
    BY <1>4, <2>1 DEF dataVars
  <2> QED BY <1>5, <1>10, <2>1 DEF LoadData, ReplaceData
<1>11. CASE \/ ExportData
            \/ GetData
            \/ Draw /\ UNCHANGED dataVars
            \/ CopyImageToBuffer /\ UNCHANGED dataVars
            \/ GlFinish /\ UNCHANGED dataVars
            \/ UNCHANGED <<dataVars, imageVars>>
            \/ OpenGL
  BY <1>4, <1>11 DEF ExportData, GetData, OpenGL, dataVars
<1>12. CASE Repackage
  BY <1>4, <1>12 DEF Repackage
<1>13. CASE Execute
  BY <1>4, <1>13 DEF Execute, WriteCommand, ReadCommand, dataVars
<1>14. CASE UNCHANGED vars
  BY <1>4, <1>14 DEF vars, dataVars
<1>15. CASE Save("save real") \/ Save("save model")
  BY <1>9, <1>15 DEF Saves
<1>16. \/ LoadData \/ ReplaceData \/ ExportData \/ GetData \/ RemoveData
       \/ Repackage \/ Save("save real") \/ Save("save model") \/ Return \/ Throw
       \/ (Draw /\ UNCHANGED dataVars) \/ (CopyImageToBuffer /\ UNCHANGED dataVars)
       \/ (GlFinish /\ UNCHANGED dataVars) \/ UNCHANGED <<dataVars, imageVars>>
       \/ Execute \/ OpenGL \/ UNCHANGED vars
  BY DEF Next, Host, DataCall, DataStep, QueueStep
<1> QED
  BY ONLY <1>6, <1>7, <1>8, <1>10, <1>11, <1>12, <1>13, <1>14, <1>15, <1>16, Zenon

\* Data that LoadData or ReplaceData brought to the device are there whole and
\* stay, and what is exported is what is there: for any data sets, whatever
\* was refused, thrown or left in the queue before (COILibData.cpp 176-652).
THEOREM PromiseKept == Spec => ContentsKept
<1>1. IInv /\ IInv' /\ [Next]_vars => [DataOnDevice!Next]_<<Shown, exported>>
  BY ContentsNext
<1>2. Init => DataOnDevice!Init
  BY ContentsInit
<1> QED BY <1>1, <1>2, Invariance, PTL DEF Spec, ContentsKept, DataOnDevice!Spec, Shown

=============================================================================
