------------------------------ MODULE DataList ------------------------------
(***************************************************************************)
(* COILibDataList, the list of data sets, under several threads.  Every    *)
(* method holds mDataMutex, so it is one critical section; but the calls   *)
(* of CLibOI are made of two: they ask for the size and then for a data    *)
(* set, or load one and then ask for its index, and another thread may     *)
(* change the list in between.  A data set lives as long as shared         *)
(* pointers to it do.                                                      *)
(*                                                                         *)
(* Data sets are numbered in the order in which they are constructed.      *)
(***************************************************************************)
EXTENDS Integers, FiniteSets, Sequences, SequencesExt

CONSTANTS
  Threads,
  MaxUInt,       \* the largest unsigned int
  MaxLoads       \* bound: data sets constructed

NoThread == "none"

ASSUME ListAssumption == MaxUInt \in Nat /\ MaxLoads \in Nat /\ MaxLoads <= MaxUInt
ASSUME ThreadsAssumption == IsFiniteSet(Threads) /\ NoThread \notin Threads

NoSet == 0
Ops == {"LoadData", "RemoveData", "ReplaceData", "GetNT3", "ImageTo"}

VARIABLES
  mDataList, mDataMutex,
  loads,             \* data sets constructed so far
  uses,              \* shared pointers to each of them
  allocated,         \* the data sets that have their device buffers
  abandoned,         \* those whose constructor threw
  pc, call,          \* where each thread is, in which call
  data,              \* the data set it constructs or has a pointer to
  disturbed,         \* whether the list changed since its first critical section
  result,            \* how its last call ended
  dead               \* undefined behaviour was met

memory == <<loads, uses, allocated, abandoned>>
vars == <<mDataList, mDataMutex, memory, pc, call, data, disturbed, result, dead>>

Goes(t, where) == pc' = [pc EXCEPT ![t] = where]

Returns(t, out, index) ==
  Goes(t, "idle") /\ result' = [result EXCEPT ![t] = [out |-> out, index |-> index]]

\* The guard releases the mutex on every path.  Mutant: not if there is an
\* exception, as with explicit calls of lock and unlock.
HeldAfterThrow(t, out) == IF out = "throw" THEN t ELSE NoThread
MutexAfter(t, out) == NoThread
Unlock(t, out) == mDataMutex' = MutexAfter(t, out)

\* The list changes under all calls that have left their first section.
Disturbs(t) ==
  disturbed' = [u \in Threads |-> disturbed[u] \/ (u # t /\ pc[u] \in {"wait2", "in2"})]

\* What at() returns counts as a pointer.  Mutant: it does not.
RawPointer == 0
PointerCopy == 1

\* Mutant: the buffers stay.
DropAtLast(d) == uses' = [uses EXCEPT ![d] = @ - 1] /\ UNCHANGED allocated

\* A pointer to data set d is destroyed, and with the last one the data set.
Drop(d) ==
  /\ uses' = [uses EXCEPT ![d] = @ - 1]
  /\ allocated' = IF uses[d] = 1 THEN allocated \ {d} ELSE allocated
-----------------------------------------------------------------------------
Init ==
  /\ mDataList = << >> /\ mDataMutex = NoThread
  /\ loads = 0 /\ uses = [d \in 1 .. MaxLoads |-> 0]
  /\ allocated = {} /\ abandoned = {}
  /\ pc = [t \in Threads |-> "idle"]
  /\ call = [t \in Threads |-> [op |-> "GetNT3", i |-> 0]]
  /\ data = [t \in Threads |-> NoSet]
  /\ disturbed = [t \in Threads |-> FALSE]
  /\ result = [t \in Threads |-> [out |-> "ok", index |-> 0]]
  /\ dead = FALSE

\* Room for another data set once all loads under way are done.
MayLoad ==
  loads + Cardinality({t \in Threads : pc[t] \in {"wait1", "in1"} /\ call[t].op = "LoadData"})
    < MaxLoads

Start(t) ==
  /\ pc[t] = "idle"
  /\ \E op \in Ops, i \in 0 .. MaxLoads - 1 :
       /\ op = "LoadData" => MayLoad /\ i = 0
       /\ call' = [call EXCEPT ![t] = [op |-> op, i |-> i]]
  /\ Goes(t, "wait1")
  /\ disturbed' = [disturbed EXCEPT ![t] = FALSE]
  /\ UNCHANGED <<mDataList, mDataMutex, memory, data, result, dead>>

Lock(t) ==
  /\ mDataMutex = NoThread /\ mDataMutex' = t
  /\ \/ pc[t] = "wait1" /\ Goes(t, "in1")
     \/ pc[t] = "wait2" /\ Goes(t, "in2")
  /\ UNCHANGED <<mDataList, memory, call, data, disturbed, result, dead>>
-----------------------------------------------------------------------------
(* LoadData: construct the data set and append it; then ask for the size *)

\* The constructor has allocated the device buffers.
Construct(t) ==
  /\ pc[t] = "in1" /\ call[t].op = "LoadData"
  /\ loads' = loads + 1 /\ allocated' = allocated \cup {loads + 1}
  /\ data' = [data EXCEPT ![t] = loads + 1]
  /\ Goes(t, "build")
  /\ UNCHANGED <<mDataList, mDataMutex, uses, abandoned, call, disturbed, result, dead>>

\* Reading the file or uploading throws.  The destructor of an object that was
\* not constructed does not run.
ConstructorThrows(t) ==
  /\ \/ pc[t] = "in1" /\ call[t].op = "LoadData" /\ UNCHANGED <<abandoned, data>>
     \/ /\ pc[t] = "build"
        /\ abandoned' = abandoned \cup {data[t]}
        /\ data' = [data EXCEPT ![t] = NoSet]
  /\ Unlock(t, "throw") /\ Returns(t, "throw", 0)
  /\ UNCHANGED <<mDataList, loads, uses, allocated, call, disturbed, dead>>

PushBack(t) ==
  /\ pc[t] = "build"
  /\ mDataList' = Append(mDataList, data[t])
  /\ uses' = [uses EXCEPT ![data[t]] = 1]
  /\ Disturbs(t)
  /\ Unlock(t, "ok") /\ Goes(t, "wait2")
  /\ UNCHANGED <<loads, allocated, abandoned, call, data, result, dead>>

LoadIndex(t) ==
  /\ pc[t] = "in2" /\ call[t].op = "LoadData"
  /\ Unlock(t, "ok") /\ Returns(t, "ok", Len(mDataList) - 1)
  /\ data' = [data EXCEPT ![t] = NoSet]
  /\ UNCHANGED <<mDataList, memory, call, disturbed, dead>>
-----------------------------------------------------------------------------
(* The other calls begin with the size.  GetNT3 compares it with the index; *)
(* the ImageTo... calls compare the index with size - 1, unsigned; and who  *)
(* removes or replaces a data set has asked for GetNDataSets.               *)

\* Mutant: one index too many.
UpToSize(i, size) == i <= size
Exists(i, size) == i < size
NotRefused(op, i, size) ==
  IF op = "ImageTo" THEN i <= (size - 1) % (MaxUInt + 1) ELSE Exists(i, size)

Size(t) ==
  /\ pc[t] = "in1" /\ call[t].op # "LoadData"
  /\ Unlock(t, "ok")
  /\ IF NotRefused(call[t].op, call[t].i, Len(mDataList))
       THEN Goes(t, "wait2") /\ UNCHANGED result
       ELSE Returns(t, "refused", 0)
  /\ UNCHANGED <<mDataList, memory, call, data, disturbed, dead>>

InList(t) == call[t].i < Len(mDataList)
Named(t) == mDataList[call[t].i + 1]

At(t) ==
  /\ pc[t] = "in2" /\ call[t].op \in {"GetNT3", "ImageTo"}
  /\ IF InList(t)
       THEN /\ data' = [data EXCEPT ![t] = Named(t)]
            /\ uses' = [uses EXCEPT ![Named(t)] = @ + PointerCopy]
            /\ Unlock(t, "ok") /\ Goes(t, "use") /\ UNCHANGED result
       ELSE Unlock(t, "throw") /\ Returns(t, "throw", 0) /\ UNCHANGED <<data, uses>>
  /\ UNCHANGED <<mDataList, loads, allocated, abandoned, call, disturbed, dead>>

\* The caller is done with the data set, without the mutex.
Use(t) ==
  /\ pc[t] = "use"
  /\ Drop(data[t])
  /\ data' = [data EXCEPT ![t] = NoSet]
  /\ Returns(t, "ok", 0)
  /\ UNCHANGED <<mDataList, mDataMutex, loads, abandoned, call, disturbed, dead>>

\* Beyond the end, erase and operator[] are undefined; catch does not help.
RemoveData(t) ==
  /\ pc[t] = "in2" /\ call[t].op = "RemoveData"
  /\ IF InList(t)
       THEN /\ mDataList' = RemoveAt(mDataList, call[t].i + 1) /\ Drop(Named(t))
            /\ Disturbs(t)
            /\ Unlock(t, "ok") /\ Returns(t, "ok", 0) /\ UNCHANGED dead
       ELSE /\ dead' = TRUE /\ Returns(t, "undefined", 0)
            /\ UNCHANGED <<mDataList, mDataMutex, uses, allocated, disturbed>>
  /\ UNCHANGED <<loads, abandoned, call, data>>

\* The new data may be refused by an exception.
ReplaceData(t) ==
  /\ pc[t] = "in2" /\ call[t].op = "ReplaceData"
  /\ IF InList(t)
       THEN \E out \in {"ok", "throw"} :
              Unlock(t, out) /\ Returns(t, out, 0) /\ UNCHANGED dead
       ELSE dead' = TRUE /\ Returns(t, "undefined", 0) /\ UNCHANGED mDataMutex
  /\ UNCHANGED <<mDataList, memory, call, data, disturbed>>
-----------------------------------------------------------------------------
\* The steps of t that wait for nobody.
Runs(t) ==
  \/ Construct(t) \/ ConstructorThrows(t) \/ PushBack(t) \/ LoadIndex(t)
  \/ Size(t) \/ At(t) \/ Use(t) \/ RemoveData(t) \/ ReplaceData(t)

Next == ~dead /\ \E t \in Threads : Start(t) \/ Lock(t) \/ Runs(t)

\* The operating system runs every thread that does not wait.  Nothing is said
\* of who gets a contested mutex.
Spec == Init /\ [][Next]_vars /\ \A t \in Threads : WF_vars(~dead /\ Runs(t))
-----------------------------------------------------------------------------
TypeOK ==
  /\ mDataList \in Seq(1 .. MaxLoads)
  /\ mDataMutex \in Threads \cup {NoThread}
  /\ loads \in 0 .. MaxLoads /\ uses \in [1 .. MaxLoads -> Nat]
  /\ allocated \subseteq 1 .. loads /\ abandoned \subseteq 1 .. loads
  /\ pc \in [Threads -> {"idle", "wait1", "in1", "build", "wait2", "in2", "use"}]
  /\ call \in [Threads -> [op : Ops, i : 0 .. MaxLoads]]
  /\ data \in [Threads -> 0 .. MaxLoads]
  /\ disturbed \in [Threads -> BOOLEAN]
  /\ result \in [Threads -> [out : {"ok", "refused", "throw", "undefined"}, index : Int]]
  /\ dead \in BOOLEAN

\* A data set keeps its device buffers as long as it is in the list, built or
\* used by a thread, even if another thread removes it meanwhile, and no
\* longer; only the buffers of a data set whose constructor threw stay behind
\* (COILibDataList.h:49, COILibDataList.cpp:51-57, 220-233; liboi.cpp:386-388).
InUse(t) == pc[t] \in {"build", "use"}
MemoryMatchesUse ==
  allocated = ToSet(mDataList) \cup {data[t] : t \in {u \in Threads : InUse(u)}} \cup abandoned

\* A call during whose two critical sections no other thread changed the list
\* means what it means in a sequential program: an index that was checked
\* names a data set, and LoadData returns the index of what it loaded
\* (liboi.cpp:338-352, 366-474, 636-656).  An ImageTo... call on an empty
\* list is apart: its check lets every index pass.
SequentialUnlessDisturbed ==
  [][\A t \in Threads :
       pc[t] = "in2" /\ pc'[t] # "in2" /\ ~disturbed[t]
         => /\ InList(t) \/ call[t].op = "LoadData"
               \/ (call[t].op = "ImageTo" /\ mDataList = << >>)
            /\ call[t].op = "LoadData" => mDataList[result'[t].index + 1] = data[t]]_vars

\* Whatever throws in a critical section, the mutex is released, for as long
\* as the process lives (the lock_guards of COILibDataList.cpp).
MutexReleased == (mDataMutex # NoThread) ~> (mDataMutex = NoThread \/ dead)
=============================================================================
