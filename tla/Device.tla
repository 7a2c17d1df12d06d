------------------------------- MODULE Device -------------------------------
(***************************************************************************)
(* COpenCL: finding a device, creating a context and a queue on it, and    *)
(* who owns them (COpenCL.cpp).  Several CLibOI objects may share one      *)
(* COpenCL, have one each, or be given the handles of their client         *)
(* (liboi.cpp:57-98); their routines build programs (CRoutine.cpp).        *)
(* OpenCL counts the references to a context or a queue and frees it with  *)
(* the last.                                                               *)
(***************************************************************************)
EXTENDS Integers, FiniteSetsExt, Sequences

CONSTANTS
  Worlds,        \* the machines: platforms, each a sequence of device types
  Types,         \* the device types clients ask for
  Objects,       \* the CLibOI objects
  MaxCreated,    \* bound: COpenCL objects created
  MaxBuilds      \* bound: programs built

Flags == {"CPU", "GPU", "DEFAULT"}
ASSUME WorldAssumption == \A w \in Worlds : w \in Seq(Seq(SUBSET Flags))
ASSUME AskedAssumption == Types \subseteq SUBSET Flags
ASSUME CreatedAssumption == MaxCreated \in Nat /\ MaxBuilds \in Nat
ASSUME ObjectAssumption == Objects \cap {"client", "nobody"} = {}

CLs == 1 .. MaxCreated
NONE == 0                        \* no COpenCL; as an owner of handles, the client
NoDevice == <<0, 0>>             \* a device: the indices of its platform and of itself
Handles == {"context", "queue"} \X (0 .. MaxCreated)

VARIABLES
  world,
  created,       \* COpenCL objects so far
  cl,            \* for each: the type asked for, its device, whose handles it has
  shares,        \* who has a shared pointer to it: CLibOI objects, "client"
  refs,          \* OpenCL's references to each context and queue
  clientUses,    \* whether the client still has its own reference to its handles
  mOCL,          \* the COpenCL of each CLibOI object
  programs,      \* the programs in OpenCL, who will release each, in whose context
  lost,          \* constructors that threw with a context, and maybe a queue
  last           \* outcome of the last constructor

vars == <<world, created, cl, shares, refs, clientUses, mOCL, programs, lost, last>>

Alive(x) == mOCL[x] # NONE
-----------------------------------------------------------------------------
(* FindDevice *)

Devices == UNION {{<<p, d>> : d \in DOMAIN world[p]} : p \in DOMAIN world}

\* The type is compared as a whole: a GPU that is also the default device
\* has another type than a GPU.
Matches(type) == {m \in Devices : world[m[1]][m[2]] = type}

\* The loop over the devices of platform p ends at the first match.  Mutant: it
\* goes on.
LastMatch(p, type) ==
  IF \E m \in Matches(type) : m[1] = p
    THEN Max({m[2] : m \in {n \in Matches(type) : n[1] = p}}) ELSE 0
FirstMatch(p, type) ==
  IF \E m \in Matches(type) : m[1] = p
    THEN Min({m[2] : m \in {n \in Matches(type) : n[1] = p}}) ELSE 0

\* The loop over the platforms does not end: a later match replaces the result.
FindDevice(type) ==
  LET found[p \in 0 .. Len(world)] ==
        IF p = 0 THEN NoDevice
        ELSE IF FirstMatch(p, type) = 0 THEN found[p - 1] ELSE <<p, FirstMatch(p, type)>>
  IN found[Len(world)]

\* A platform without devices is an error for clGetDeviceIDs, which ends the
\* search whatever the other platforms have.
SearchThrows == \E p \in DOMAIN world : world[p] = << >>
-----------------------------------------------------------------------------
(* COpenCL *)

Create(type, device, owner, holder) ==
  /\ created' = created + 1
  /\ cl' = [cl EXCEPT ![created + 1] = [type |-> type, device |-> device, owner |-> owner]]
  /\ shares' = [shares EXCEPT ![created + 1] = {holder}]

CreationFails == created' = created + 1 /\ UNCHANGED <<cl, shares>>

\* The constructor may find no device, or OpenCL refuses the context or the
\* queue, or the version of the device, read when both exist, has no blank and
\* substr throws.  Then ~COpenCL does not run, and what exists stays.
COpenCL(type, holder) ==
  LET o == created + 1 IN
  /\ created < MaxCreated
  /\ \/ /\ ~SearchThrows /\ FindDevice(type) # NoDevice
        /\ Create(type, FindDevice(type), o, holder)
        /\ refs' = [refs EXCEPT ![<<"context", o>>] = 1, ![<<"queue", o>>] = 1]
        /\ last' = "ok" /\ UNCHANGED lost
     \/ /\ CreationFails /\ last' = "throw" /\ UNCHANGED <<refs, lost>>
     \/ /\ ~SearchThrows /\ FindDevice(type) # NoDevice
        /\ CreationFails /\ last' = "throw"
        /\ \E queue \in {0, 1} :
             refs' = [refs EXCEPT ![<<"context", o>>] = 1, ![<<"queue", o>>] = queue]
        /\ lost' = lost \cup {o}

\* ~COpenCL runs with the last shared pointer.  Mutant: with each.
LastShareAny(o, holder) == holder \in shares[o]
LastShare(o, holder) == shares[o] = {holder}

\* Mutant: the context is forgotten.
DropQueue(o, holder) ==
  /\ shares' = [shares EXCEPT ![o] = @ \ {holder}]
  /\ refs' = IF LastShare(o, holder)
       THEN [refs EXCEPT ![<<"queue", cl[o].owner>>] = @ - 1] ELSE refs

Drop(o, holder) ==
  /\ shares' = [shares EXCEPT ![o] = @ \ {holder}]
  /\ refs' = IF LastShare(o, holder)
       THEN [refs EXCEPT ![<<"queue", cl[o].owner>>] = @ - 1,
                         ![<<"context", cl[o].owner>>] = @ - 1]
       ELSE refs
-----------------------------------------------------------------------------
(* The client, and CLibOI's constructors and destructor *)

Init ==
  /\ world \in Worlds
  /\ created = 0
  /\ cl = [o \in CLs |-> [type |-> {}, device |-> NoDevice, owner |-> NONE]]
  /\ shares = [o \in CLs |-> {}]
  /\ refs = [h \in Handles |-> IF h[2] = NONE THEN 1 ELSE 0]
  /\ clientUses = TRUE
  /\ mOCL = [x \in Objects |-> NONE] /\ programs = {}
  /\ lost = {} /\ last = "ok"

\* CLibOI(cl_device_type): a COpenCL of its own.
NewByType(x) ==
  /\ ~Alive(x)
  /\ \E type \in Types : COpenCL(type, x)
  /\ mOCL' = IF last' = "ok" THEN [mOCL EXCEPT ![x] = created'] ELSE mOCL
  /\ UNCHANGED <<world, clientUses, programs>>

\* The client creates a COpenCL, and shares it: CLibOI(COpenCLPtr).
ClientCreates ==
  /\ \E type \in Types : COpenCL(type, "client")
  /\ UNCHANGED <<world, clientUses, mOCL, programs>>

NewShared(x) ==
  /\ ~Alive(x)
  /\ \E o \in CLs :
       /\ "client" \in shares[o]
       /\ shares' = [shares EXCEPT ![o] = @ \cup {x}]
       /\ mOCL' = [mOCL EXCEPT ![x] = o]
  /\ last' = "ok"
  /\ UNCHANGED <<world, created, cl, refs, clientUses, programs, lost>>

ClientDrops ==
  /\ \E o \in CLs : "client" \in shares[o] /\ Drop(o, "client")
  /\ UNCHANGED <<world, created, cl, clientUses, mOCL, programs, lost, last>>

\* CLibOI(device, context, queue) retains nothing, but ~COpenCL releases: the
\* client retains both for each object it makes from them.  It takes that back
\* when the constructor throws, which reads the version of the device too.
NewFromHandles(x) ==
  /\ ~Alive(x) /\ clientUses
  /\ created < MaxCreated
  /\ \/ /\ Create({}, NoDevice, NONE, x)
        /\ refs' = [refs EXCEPT ![<<"context", NONE>>] = @ + 1, ![<<"queue", NONE>>] = @ + 1]
        /\ mOCL' = [mOCL EXCEPT ![x] = created + 1]
        /\ last' = "ok"
     \/ CreationFails /\ last' = "throw" /\ UNCHANGED <<refs, mOCL>>
  /\ UNCHANGED <<world, clientUses, programs, lost>>

ClientReleases ==
  /\ clientUses /\ clientUses' = FALSE
  /\ refs' = [refs EXCEPT ![<<"context", NONE>>] = @ - 1, ![<<"queue", NONE>>] = @ - 1]
  /\ UNCHANGED <<world, created, cl, shares, mOCL, programs, lost, last>>

\* A routine keeps its program once it is compiled, with or without a kernel.
\* A program that does not compile is kept by nobody.
Nobody == "nobody"
Program == [id : 1 .. MaxBuilds, holder : Objects \cup {Nobody}, context : 0 .. MaxCreated]
BuildKernel(x) ==
  /\ Alive(x)
  /\ \E p \in Program :
       /\ p.holder \in {x, Nobody} /\ p.context = cl[mOCL[x]].owner
       /\ \A q \in programs : q.id < p.id
       /\ programs' = programs \cup {p}
  /\ UNCHANGED <<world, created, cl, shares, refs, clientUses, mOCL, lost, last>>

\* ~CLibOI deletes the routines, then its members go.
Destroy(x) ==
  /\ Alive(x)
  /\ programs' = {p \in programs : p.holder # x}
  /\ Drop(mOCL[x], x)
  /\ mOCL' = [mOCL EXCEPT ![x] = NONE]
  /\ UNCHANGED <<world, created, cl, clientUses, lost, last>>

Next ==
  \/ ClientCreates \/ ClientDrops \/ ClientReleases
  \/ \E x \in Objects :
       NewByType(x) \/ NewShared(x) \/ NewFromHandles(x) \/ BuildKernel(x) \/ Destroy(x)

Spec == Init /\ [][Next]_vars
-----------------------------------------------------------------------------
TypeOK ==
  /\ world \in Worlds /\ created \in 0 .. MaxCreated
  /\ cl \in [CLs -> [type : SUBSET Flags, device : Devices \cup {NoDevice}, owner : 0 .. MaxCreated]]
  /\ shares \in [CLs -> SUBSET (Objects \cup {"client"})]
  /\ refs \in [Handles -> Nat] /\ clientUses \in BOOLEAN
  /\ mOCL \in [Objects -> 0 .. created]
  /\ programs \subseteq Program
  /\ lost \subseteq CLs
  /\ last \in {"ok", "throw"}

\* Whoever lives has a living context and queue, in whatever order the objects
\* that share a COpenCL, or the handles of a client, are made and destroyed
\* (COpenCL.cpp:55-66, liboi.cpp:57-98).  The client may release its own
\* handles, and drop the pointer it shared, at any time.
HandlesLive ==
  \A x \in Objects : Alive(x) =>
    \A kind \in {"context", "queue"} : refs[<<kind, cl[mOCL[x]].owner>>] > 0

\* When the last user is gone OpenCL can free everything, except the contexts
\* and queues of constructors that threw after they had them, and the contexts
\* in which a program did not compile (COpenCL.cpp:43-66, 131-145, 333-337;
\* CRoutine.cpp:97-130; OpenCL deletes a context after the programs in it).
Freed(o) ==
  /\ refs[<<"context", o>>] = 0 /\ refs[<<"queue", o>>] = 0
  /\ \A p \in programs : p.context # o
NothingHeld ==
  (\A o \in CLs : shares[o] = {}) /\ ~clientUses
    => \A o \in 0 .. MaxCreated :
         Freed(o) \/ o \in lost \/ \E p \in programs : p.holder = Nobody /\ p.context = o

\* "Searches through the available platforms and devices and returns the first
\* instance of the specified type" (COpenCL.cpp:93-94) is so where only one
\* platform has devices of that type: none of them comes before the one found.
\* Where several have some, the comment is wrong: the break of line 114 leaves
\* the loop over the devices only, and the last of these platforms wins.
OnePlatform(type) == \A m, n \in Matches(type) : m[1] = n[1]
FirstInstance ==
  \A o \in CLs : cl[o].owner # NONE /\ OnePlatform(cl[o].type) =>
    LET found == cl[o].device IN
    /\ found \in Matches(cl[o].type)
    /\ \A m \in Matches(cl[o].type) : found[1] < m[1] \/ (found[1] = m[1] /\ found[2] <= m[2])
=============================================================================
