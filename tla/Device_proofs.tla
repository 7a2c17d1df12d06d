--------------------------- MODULE Device_proofs ---------------------------
(***************************************************************************)
(* Proofs about Device: whoever lives has a living context and queue, what *)
(* nobody uses can be freed, and where one platform alone has devices of   *)
(* the type asked for the search finds the first, for any number of CLibOI *)
(* objects and COpenCLs, on any machine.                                   *)
(***************************************************************************)
EXTENDS Device, FiniteSetTheorems, TLAPS

HandleKinds == {"context", "queue"}

Domains ==
  /\ created \in 0 .. MaxCreated /\ DOMAIN cl = CLs
  /\ shares \in [CLs -> SUBSET (Objects \cup {"client"})]
  /\ refs \in [Handles -> Nat] /\ clientUses \in BOOLEAN
  /\ lost \subseteq 1 .. created

\* A COpenCL that does not exist yet is nobody's.
Unborn == \A o \in CLs : o > created => shares[o] = {}

\* A COpenCL has handles of its own, or the client's.
Owners == \A o \in CLs : cl[o].owner \in {o, NONE}

\* Its own are referenced once as long as it is shared.  What a constructor that
\* threw has left behind is nobody's.
OwnRefs ==
  \A o \in CLs :
    IF o \in lost
      THEN shares[o] = {}
      ELSE \A kind \in HandleKinds :
             refs[<<kind, o>>] = IF shares[o] # {} /\ cl[o].owner = o THEN 1 ELSE 0

\* The client's are referenced by it and by each COpenCL made from them.
Borrowers == {o \in CLs : shares[o] # {} /\ cl[o].owner = NONE}
ClientRefs ==
  \A kind \in HandleKinds :
    refs[<<kind, NONE>>] = (IF clientUses THEN 1 ELSE 0) + Cardinality(Borrowers)

Counting == Domains /\ Unborn /\ Owners /\ OwnRefs /\ ClientRefs

\* A CLibOI object shares just the COpenCL it has a pointer to.
Sharing ==
  /\ mOCL \in [Objects -> 0 .. MaxCreated]
  /\ \A x \in Objects, o \in CLs : x \in shares[o] <=> mOCL[x] = o

\* A program that somebody will release was built in the context of who will.
Kept ==
  \A p \in programs :
    p.holder # Nobody => /\ p.holder \in Objects /\ Alive(p.holder)
                         /\ p.context = cl[mOCL[p.holder]].owner

DeviceInv == Counting /\ Sharing /\ Kept
-----------------------------------------------------------------------------
LEMMA FiniteBorrowers == IsFiniteSet(Borrowers) /\ Cardinality(Borrowers) \in Nat
<1>1. IsFiniteSet(CLs)
  BY CreatedAssumption, FS_Interval DEF CLs
<1> QED
  BY <1>1, FS_Subset, FS_CardinalityType DEF Borrowers

\* Who has a COpenCL has live handles.
LEMMA SharedIsLive ==
  ASSUME Counting, NEW o \in CLs, shares[o] # {}, NEW kind \in HandleKinds
  PROVE  refs[<<kind, cl[o].owner>>] > 0
<1>1. CASE cl[o].owner = o
  <2>1. o \notin lost
    BY DEF Counting, OwnRefs
  <2>2. refs[<<kind, o>>] = 1
    BY <1>1, <2>1 DEF Counting, OwnRefs
  <2> QED
    BY <1>1, <2>2
<1>2. CASE cl[o].owner = NONE
  <2>1. o \in Borrowers
    BY <1>2 DEF Borrowers
  <2>2. Cardinality(Borrowers) # 0
    BY <2>1, FiniteBorrowers, FS_EmptySet
  <2>3. refs[<<kind, NONE>>] = (IF clientUses THEN 1 ELSE 0) + Cardinality(Borrowers)
    BY DEF Counting, ClientRefs
  <2> QED
    BY <1>2, <2>2, <2>3, FiniteBorrowers
<1> QED
  BY <1>1, <1>2 DEF Counting, Owners

\* Dropping a share keeps the counts right.
LEMMA DropCounts ==
  ASSUME Counting, NEW o \in CLs, NEW holder \in shares[o], Drop(o, holder),
         UNCHANGED <<created, cl, clientUses, lost>>
  PROVE  Counting'
<1> DEFINE rest == shares[o] \ {holder}
<1>0. /\ shares' = [shares EXCEPT ![o] = rest]
      /\ rest \in SUBSET (Objects \cup {"client"}) /\ shares[o] # {}
  BY DEF Drop, Counting, Domains
<1>1. /\ shares' \in [CLs -> SUBSET (Objects \cup {"client"})]
      /\ \A e \in CLs : shares'[e] = IF e = o THEN rest ELSE shares[e]
  BY <1>0 DEF Counting, Domains
<1>2. LastShare(o, holder) <=> rest = {}
  BY DEF LastShare
<1>3. o \notin lost /\ Unborn' /\ Owners'
  BY <1>0, <1>1 DEF Counting, OwnRefs, Unborn, Owners
<1>4. CASE rest # {}
  <2>1. refs' = refs
    BY <1>2, <1>4 DEF Drop
  <2>2. Borrowers' = Borrowers
    BY <1>0, <1>1, <1>4 DEF Borrowers
  <2>3. Domains' /\ OwnRefs' /\ ClientRefs'
    BY <1>0, <1>1, <1>3, <1>4, <2>1, <2>2 DEF Counting, Domains, OwnRefs, ClientRefs
  <2> QED
    BY <1>3, <2>3 DEF Counting
<1>5. CASE rest = {}
  <2>1. PICK w \in {o, NONE} : w = cl[o].owner
    BY DEF Counting, Owners
  <2>2. w \in 0 .. MaxCreated /\ \A kind \in HandleKinds : <<kind, w>> \in Handles
    BY <2>1, CreatedAssumption DEF CLs, NONE, Handles, HandleKinds
  <2>3. \A kind \in HandleKinds : refs[<<kind, w>>] \in Nat /\ refs[<<kind, w>>] > 0
    BY <1>0, <2>1, <2>2, SharedIsLive DEF Counting, Domains
  <2>4. PICK m \in Nat, n \in Nat :
          /\ m = refs[<<"queue", w>>] - 1 /\ n = refs[<<"context", w>>] - 1
          /\ refs' = [refs EXCEPT ![<<"queue", w>>] = m, ![<<"context", w>>] = n]
    <3>1. refs[<<"queue", w>>] - 1 \in Nat /\ refs[<<"context", w>>] - 1 \in Nat
      BY <2>3 DEF HandleKinds
    <3>2. refs' = [refs EXCEPT ![<<"queue", w>>] = refs[<<"queue", w>>] - 1,
                               ![<<"context", w>>] = refs[<<"context", w>>] - 1]
      BY <1>2, <1>5, <2>1 DEF Drop
    <3> QED
      BY <3>1, <3>2
  <2>5. refs' \in [Handles -> Nat]
    BY <2>4 DEF Counting, Domains
  <2>6. \A kind \in HandleKinds, v \in 0 .. MaxCreated :
          refs'[<<kind, v>>] = IF v = w THEN refs[<<kind, v>>] - 1 ELSE refs[<<kind, v>>]
    BY <2>2, <2>4 DEF Counting, Domains, HandleKinds, Handles
  <2>7. Domains'
    BY <1>1, <2>5 DEF Counting, Domains
  <2>8. OwnRefs'
    <3>1. \A e \in CLs : e \in 0 .. MaxCreated /\ e # NONE
      BY CreatedAssumption DEF CLs, NONE
    <3>2. "queue" \in HandleKinds
      BY DEF HandleKinds
    <3> SUFFICES ASSUME NEW e \in CLs
                 PROVE  IF e \in lost
                          THEN shares'[e] = {}
                          ELSE \A kind \in HandleKinds :
                                 refs'[<<kind, e>>]
                                   = IF shares'[e] # {} /\ cl[e].owner = e THEN 1 ELSE 0
      BY DEF OwnRefs
    <3>3. CASE e = o
      <4>1. \A kind \in HandleKinds :
              refs[<<kind, o>>] = IF cl[o].owner = o THEN 1 ELSE 0
        BY <1>0, <1>3 DEF Counting, OwnRefs
      <4>2. \A kind \in HandleKinds : refs'[<<kind, o>>] = 0
        BY <2>1, <2>6, <3>1, <4>1
      <4> QED
        BY <1>1, <1>3, <1>5, <3>3, <4>2
    <3>4. CASE e # o
      <4>1. shares'[e] = shares[e]
        BY <1>1, <3>4
      <4>2. \A kind \in HandleKinds : refs'[<<kind, e>>] = refs[<<kind, e>>]
        BY <2>1, <2>6, <3>1, <3>4
      <4> QED
        BY <3>2, <4>1, <4>2 DEF Counting, OwnRefs
    <3> QED
      BY <3>3, <3>4
  <2>9. ClientRefs'
    <3>1. NONE \in 0 .. MaxCreated /\ NONE # o
      BY CreatedAssumption DEF CLs, NONE
    <3>2. CASE w = NONE
      <4>1. Borrowers' = Borrowers \ {o} /\ o \in Borrowers
        BY <1>0, <1>1, <1>5, <2>1, <3>2 DEF Borrowers
      <4>2. Cardinality(Borrowers \ {o}) = Cardinality(Borrowers) - 1
        BY <4>1, FiniteBorrowers, FS_RemoveElement
      <4>3. Cardinality(Borrowers') = Cardinality(Borrowers) - 1
        BY <4>1, <4>2
      <4> QED
        BY <2>6, <3>1, <3>2, <4>3, FiniteBorrowers DEF Counting, ClientRefs
    <3>3. CASE w # NONE
      <4>1. Borrowers' = Borrowers
        BY <1>1, <1>5, <2>1, <3>3 DEF Borrowers
      <4> QED
        BY <2>6, <3>1, <3>3, <4>1 DEF Counting, ClientRefs
    <3> QED
      BY <3>2, <3>3
  <2> QED
    BY <1>3, <2>7, <2>8, <2>9 DEF Counting
<1> QED
  BY <1>4, <1>5

\* The next COpenCL is not shared, and nobody borrows for it.
LEMMA NextIsFresh ==
  ASSUME Counting, created < MaxCreated
  PROVE  /\ created + 1 \in CLs /\ created + 1 \notin lost
         /\ shares[created + 1] = {} /\ created + 1 \notin Borrowers
BY CreatedAssumption DEF Counting, Domains, Unborn, CLs, Borrowers

\* A constructor that finds a device, or throws, keeps the counts right.
LEMMA COpenCLCounts ==
  ASSUME Counting, NEW holder \in Objects \cup {"client"}, NEW type, COpenCL(type, holder),
         UNCHANGED clientUses
  PROVE  Counting'
<1>0. created < MaxCreated
  BY DEF COpenCL
<1>1. PICK o \in CLs : /\ o = created + 1 /\ o \notin lost /\ shares[o] = {}
                      /\ o \notin Borrowers /\ o # NONE /\ o \in 0 .. MaxCreated
  BY <1>0, NextIsFresh, CreatedAssumption DEF CLs, NONE
<1>2. <<"context", o>> \in Handles /\ <<"queue", o>> \in Handles
  BY <1>1 DEF Handles
<1>3. created' = o /\ o \in 0 .. MaxCreated
  BY <1>1 DEF COpenCL, Create, CreationFails
<1>4. \A e \in CLs : e > o => e > created
  BY <1>1 DEF Counting, Domains
<1>5. CASE /\ Create(type, FindDevice(type), o, holder)
           /\ refs' = [refs EXCEPT ![<<"context", o>>] = 1, ![<<"queue", o>>] = 1]
           /\ UNCHANGED lost
  <2>1. /\ DOMAIN cl' = CLs /\ cl'[o].owner = o
        /\ \A e \in CLs : e # o => cl'[e] = cl[e]
    BY <1>1, <1>5 DEF Create, Counting, Domains
  <2>2. /\ shares' \in [CLs -> SUBSET (Objects \cup {"client"})]
        /\ \A e \in CLs : shares'[e] = IF e = o THEN {holder} ELSE shares[e]
    BY <1>1, <1>5 DEF Create, Counting, Domains
  <2>3. /\ refs' \in [Handles -> Nat]
        /\ \A kind \in HandleKinds, e \in 0 .. MaxCreated :
             refs'[<<kind, e>>] = IF e = o THEN 1 ELSE refs[<<kind, e>>]
    BY <1>2, <1>5 DEF Counting, Domains, HandleKinds, Handles
  <2>4. Domains'
    BY <1>1, <1>3, <1>5, <2>1, <2>2, <2>3 DEF Counting, Domains
  <2>5. Unborn' /\ Owners'
    BY <1>3, <1>4, <2>1, <2>2 DEF Counting, Unborn, Owners
  <2>6. OwnRefs'
    <3>1. "queue" \in HandleKinds /\ \A e \in CLs : e \in 0 .. MaxCreated
      BY DEF HandleKinds, CLs
    <3>2. \A e \in CLs : e # o => shares'[e] = shares[e]
                                  /\ \A kind \in HandleKinds : refs'[<<kind, e>>] = refs[<<kind, e>>]
      BY <2>2, <2>3, <3>1
    <3>3. shares'[o] # {} /\ \A kind \in HandleKinds : refs'[<<kind, o>>] = 1
      BY <1>1, <2>2, <2>3
    <3> SUFFICES ASSUME NEW e \in CLs
                 PROVE  IF e \in lost'
                          THEN shares'[e] = {}
                          ELSE \A kind \in HandleKinds :
                                 refs'[<<kind, e>>]
                                   = IF shares'[e] # {} /\ cl'[e].owner = e THEN 1 ELSE 0
      BY DEF OwnRefs
    <3>4. CASE e = o
      BY <1>1, <1>5, <2>1, <3>3, <3>4
    <3>5. CASE e # o
      <4>1. shares'[e] = shares[e] /\ cl'[e] = cl[e] /\ lost' = lost
        BY <1>5, <2>1, <3>2, <3>5
      <4> QED
        BY <3>1, <3>2, <3>5, <4>1 DEF Counting, OwnRefs
    <3> QED
      BY <3>4, <3>5
  <2>7. ClientRefs'
    <3>1. Borrowers' = Borrowers
      BY <1>1, <2>1, <2>2 DEF Borrowers
    <3>2. NONE \in 0 .. MaxCreated
      BY CreatedAssumption DEF NONE
    <3> QED
      BY <1>1, <2>3, <3>1, <3>2 DEF Counting, ClientRefs
  <2> QED
    BY <2>4, <2>5, <2>6, <2>7 DEF Counting
<1>6. CASE CreationFails /\ UNCHANGED <<refs, lost>>
  <2>1. UNCHANGED <<cl, shares, refs, lost>> /\ Borrowers' = Borrowers
    BY <1>6 DEF CreationFails, Borrowers
  <2>2. Domains'
    BY <1>1, <1>3, <2>1 DEF Counting, Domains
  <2>3. Unborn'
    BY <1>3, <1>4, <2>1 DEF Counting, Unborn
  <2>4. Owners' /\ OwnRefs' /\ ClientRefs'
    BY <2>1 DEF Counting, Owners, OwnRefs, ClientRefs
  <2> QED
    BY <2>2, <2>3, <2>4 DEF Counting
<1>7. CASE /\ CreationFails
           /\ \E queue \in {0, 1} :
                refs' = [refs EXCEPT ![<<"context", o>>] = 1, ![<<"queue", o>>] = queue]
           /\ lost' = lost \cup {o}
  <2>1. UNCHANGED <<cl, shares>> /\ Borrowers' = Borrowers
    BY <1>7 DEF CreationFails, Borrowers
  <2>2. /\ refs' \in [Handles -> Nat]
        /\ \A kind \in HandleKinds, e \in 0 .. MaxCreated :
             e # o => refs'[<<kind, e>>] = refs[<<kind, e>>]
    BY <1>2, <1>7 DEF Counting, Domains, Handles, HandleKinds
  <2>3. Domains'
    <3>1. lost' \subseteq 1 .. created'
      BY <1>1, <1>3, <1>7 DEF Counting, Domains
    <3> QED
      BY <1>3, <2>1, <2>2, <3>1 DEF Counting, Domains
  <2>4. Unborn' /\ Owners'
    BY <1>3, <1>4, <2>1 DEF Counting, Unborn, Owners
  <2>5. OwnRefs'
    <3>1. \A e \in CLs : e \in 0 .. MaxCreated
      BY DEF CLs
    <3>2. \A e \in CLs : e # o =>
            \A kind \in HandleKinds : refs'[<<kind, e>>] = refs[<<kind, e>>]
      BY <2>2, <3>1
    <3> QED
      BY <1>1, <1>7, <2>1, <3>2 DEF Counting, OwnRefs
  <2>6. ClientRefs'
    <3>1. NONE \in 0 .. MaxCreated /\ NONE # o
      BY <1>1, CreatedAssumption DEF NONE
    <3>2. \A kind \in HandleKinds : refs'[<<kind, NONE>>] = refs[<<kind, NONE>>]
      BY <2>2, <3>1 DEF HandleKinds
    <3> QED
      BY <2>1, <3>2 DEF Counting, ClientRefs
  <2> QED
    BY <2>3, <2>4, <2>5, <2>6 DEF Counting
<1> QED
  BY <1>1, <1>5, <1>6, <1>7 DEF COpenCL

\* A CLibOI made from the client's handles, which the client retains for it.
LEMMA BorrowCounts ==
  ASSUME Counting, NEW x \in Objects, NewFromHandles(x), last' = "ok"
  PROVE  Counting'
<1>1. PICK o \in CLs : /\ o = created + 1 /\ o \notin lost /\ shares[o] = {}
                      /\ o \notin Borrowers /\ o # NONE /\ o \in 0 .. MaxCreated
  BY NextIsFresh, CreatedAssumption DEF NewFromHandles, CLs, NONE
<1>2. /\ created' = o /\ UNCHANGED <<clientUses, lost>>
      /\ shares' = [shares EXCEPT ![o] = {x}]
      /\ cl' = [cl EXCEPT ![o] = [type |-> {}, device |-> NoDevice, owner |-> NONE]]
  BY <1>1 DEF NewFromHandles, Create
<1>3. /\ DOMAIN cl' = CLs /\ cl'[o].owner = NONE
      /\ \A e \in CLs : e # o => cl'[e] = cl[e]
  BY <1>2 DEF Counting, Domains
<1>4. /\ shares' \in [CLs -> SUBSET (Objects \cup {"client"})]
      /\ \A e \in CLs : shares'[e] = IF e = o THEN {x} ELSE shares[e]
  BY <1>2 DEF Counting, Domains
<1>5. NONE \in 0 .. MaxCreated /\ \A kind \in HandleKinds : <<kind, NONE>> \in Handles
  BY CreatedAssumption DEF NONE, Handles, HandleKinds
<1>6. PICK m \in Nat, n \in Nat :
        /\ m = refs[<<"context", NONE>>] + 1 /\ n = refs[<<"queue", NONE>>] + 1
        /\ refs' = [refs EXCEPT ![<<"context", NONE>>] = m, ![<<"queue", NONE>>] = n]
  <2>1. refs[<<"context", NONE>>] \in Nat /\ refs[<<"queue", NONE>>] \in Nat
    BY <1>5 DEF Counting, Domains, HandleKinds
  <2>2. refs[<<"context", NONE>>] + 1 \in Nat /\ refs[<<"queue", NONE>>] + 1 \in Nat
    BY <2>1
  <2>3. refs' = [refs EXCEPT ![<<"context", NONE>>] = refs[<<"context", NONE>>] + 1,
                             ![<<"queue", NONE>>] = refs[<<"queue", NONE>>] + 1]
    BY DEF NewFromHandles
  <2> QED
    BY <2>2, <2>3
<1>7. /\ refs' \in [Handles -> Nat]
      /\ \A kind \in HandleKinds : refs'[<<kind, NONE>>] = refs[<<kind, NONE>>] + 1
      /\ \A kind \in HandleKinds, e \in CLs : refs'[<<kind, e>>] = refs[<<kind, e>>]
  <2>1. \A e \in CLs : e # NONE /\ e \in 0 .. MaxCreated
    BY CreatedAssumption DEF CLs, NONE
  <2> QED
    BY <1>5, <1>6, <2>1 DEF Counting, Domains, HandleKinds, Handles
<1>8. Domains'
  BY <1>1, <1>2, <1>3, <1>4, <1>7 DEF Counting, Domains
<1>9. Unborn' /\ Owners'
  <2>1. \A e \in CLs : e > o => e > created /\ e # o
    BY <1>1, CreatedAssumption DEF Counting, Domains, CLs
  <2>2. Unborn'
    BY <1>2, <1>4, <2>1 DEF Counting, Unborn
  <2>3. Owners'
    BY <1>3 DEF Counting, Owners
  <2> QED
    BY <2>2, <2>3
<1>10. OwnRefs'
  <2> SUFFICES ASSUME NEW e \in CLs
               PROVE  IF e \in lost'
                        THEN shares'[e] = {}
                        ELSE \A kind \in HandleKinds :
                               refs'[<<kind, e>>]
                                 = IF shares'[e] # {} /\ cl'[e].owner = e THEN 1 ELSE 0
    BY DEF OwnRefs
  <2>1. "queue" \in HandleKinds
    BY DEF HandleKinds
  <2>2. CASE e = o
    <3>1. \A kind \in HandleKinds : refs[<<kind, o>>] = 0
      BY <1>1 DEF Counting, OwnRefs
    <3> QED
      BY <1>1, <1>2, <1>3, <1>7, <2>2, <3>1
  <2>3. CASE e # o
    <3>1. shares'[e] = shares[e] /\ cl'[e] = cl[e] /\ lost' = lost
      BY <1>2, <1>3, <1>4, <2>3
    <3> QED
      BY <1>7, <2>1, <3>1 DEF Counting, OwnRefs
  <2> QED
    BY <2>2, <2>3
<1>11. ClientRefs'
  <2>1. Borrowers' = Borrowers \cup {o}
    BY <1>1, <1>3, <1>4 DEF Borrowers
  <2>2. Cardinality(Borrowers \cup {o}) = Cardinality(Borrowers) + 1
    BY <1>1, FiniteBorrowers, FS_AddElement
  <2>3. Cardinality(Borrowers') = Cardinality(Borrowers) + 1
    BY <2>1, <2>2
  <2> QED
    BY <1>2, <1>7, <2>3, FiniteBorrowers DEF Counting, ClientRefs
<1> QED
  BY <1>8, <1>9, <1>10, <1>11 DEF Counting

\* A constructor that throws before it has anything.
LEMMA FailureCounts ==
  ASSUME Counting, created < MaxCreated, CreationFails, UNCHANGED <<refs, clientUses, lost>>
  PROVE  Counting'
<1>1. UNCHANGED <<cl, shares>> /\ created' = created + 1 /\ Borrowers' = Borrowers
  BY DEF CreationFails, Borrowers
<1>2. created' \in 0 .. MaxCreated /\ lost \subseteq 1 .. created'
  BY <1>1, CreatedAssumption DEF Counting, Domains
<1>3. Domains'
  BY <1>1, <1>2 DEF Counting, Domains
<1>4. Unborn'
  <2>1. \A e \in CLs : e > created' => e > created
    BY <1>1 DEF Counting, Domains, CLs
  <2> QED
    BY <1>1, <2>1 DEF Counting, Unborn
<1>5. Owners' /\ OwnRefs' /\ ClientRefs'
  BY <1>1 DEF Counting, Owners, OwnRefs, ClientRefs
<1> QED
  BY <1>3, <1>4, <1>5 DEF Counting

\* The client's own reference.
LEMMA ReleaseCounts ==
  ASSUME Counting, ClientReleases
  PROVE  Counting'
<1>1. UNCHANGED <<created, cl, shares, lost>> /\ clientUses = TRUE /\ clientUses' = FALSE
  BY DEF ClientReleases, Counting, Domains
<1>2. NONE \in 0 .. MaxCreated /\ \A kind \in HandleKinds : <<kind, NONE>> \in Handles
  BY CreatedAssumption DEF NONE, Handles, HandleKinds
<1>3. \A kind \in HandleKinds : refs[<<kind, NONE>>] = 1 + Cardinality(Borrowers)
  BY <1>1 DEF Counting, ClientRefs
<1>4. PICK n \in Nat : n = Cardinality(Borrowers)
  BY FiniteBorrowers
<1>5. refs' = [refs EXCEPT ![<<"context", NONE>>] = n, ![<<"queue", NONE>>] = n]
  <2>1. refs[<<"context", NONE>>] - 1 = n /\ refs[<<"queue", NONE>>] - 1 = n
    BY <1>3, <1>4 DEF HandleKinds
  <2>2. refs' = [refs EXCEPT ![<<"context", NONE>>] = refs[<<"context", NONE>>] - 1,
                             ![<<"queue", NONE>>] = refs[<<"queue", NONE>>] - 1]
    BY DEF ClientReleases
  <2> QED
    BY <2>1, <2>2
<1>6. /\ refs' \in [Handles -> Nat]
      /\ \A kind \in HandleKinds : refs'[<<kind, NONE>>] = n
      /\ \A kind \in HandleKinds, e \in CLs : refs'[<<kind, e>>] = refs[<<kind, e>>]
  <2>1. \A e \in CLs : e # NONE /\ e \in 0 .. MaxCreated
    BY CreatedAssumption DEF CLs, NONE
  <2> QED
    BY <1>2, <1>5, <2>1 DEF Counting, Domains, HandleKinds, Handles
<1>7. Borrowers' = Borrowers
  BY <1>1 DEF Borrowers
<1>8. Domains' /\ Unborn' /\ Owners'
  BY <1>1, <1>6 DEF Counting, Domains, Unborn, Owners
<1>9. OwnRefs'
  BY <1>1, <1>6 DEF Counting, OwnRefs, HandleKinds
<1>10. ClientRefs'
  BY <1>1, <1>4, <1>6, <1>7 DEF ClientRefs
<1> QED
  BY <1>8, <1>9, <1>10 DEF Counting

\* One more share of a COpenCL that the client shares.
LEMMA ShareCounts ==
  ASSUME Counting, NEW o \in CLs, NEW x \in Objects, shares[o] # {},
         shares' = [shares EXCEPT ![o] = @ \cup {x}],
         UNCHANGED <<created, cl, refs, clientUses, lost>>
  PROVE  Counting'
<1>1. /\ shares' \in [CLs -> SUBSET (Objects \cup {"client"})]
      /\ \A e \in CLs : shares'[e] # {} <=> shares[e] # {}
  BY DEF Counting, Domains
<1>2. Borrowers' = Borrowers
  BY <1>1 DEF Borrowers
<1>3. Domains' /\ Unborn' /\ Owners' /\ ClientRefs'
  BY <1>1, <1>2 DEF Counting, Domains, Unborn, Owners, ClientRefs
<1>4. OwnRefs'
  BY <1>1 DEF Counting, OwnRefs
<1> QED
  BY <1>3, <1>4 DEF Counting
-----------------------------------------------------------------------------
(* The steps *)

\* Programs stay with whom and where they were if pointers and handles do.
LEMMA SamePrograms ==
  ASSUME Kept, UNCHANGED programs,
         \A x \in Objects : Alive(x) => /\ mOCL'[x] = mOCL[x]
                                       /\ cl'[mOCL[x]].owner = cl[mOCL[x]].owner
  PROVE  Kept'
BY DEF Kept, Alive

\* A living object has a COpenCL, and shares it.
LEMMA AliveIsShared ==
  ASSUME DeviceInv, NEW x \in Objects, Alive(x)
  PROVE  mOCL[x] \in CLs /\ x \in shares[mOCL[x]]
<1>1. mOCL[x] \in CLs
  BY DEF DeviceInv, Sharing, Alive, CLs, NONE
<1>2. x \in shares[mOCL[x]]
  BY <1>1 DEF DeviceInv, Sharing
<1> QED
  BY <1>1, <1>2

\* New COpenCLs, by whomever and with whatever outcome.
LEMMA CreatedStep ==
  ASSUME DeviceInv, NEW holder \in Objects \cup {"client"}, Counting',
         created < MaxCreated, created' = created + 1, UNCHANGED programs,
         \/ UNCHANGED <<cl, shares, mOCL>>
         \/ /\ \E r : cl' = [cl EXCEPT ![created + 1] = r]
            /\ shares' = [shares EXCEPT ![created + 1] = {holder}]
            /\ \/ holder = "client" /\ UNCHANGED mOCL
               \/ /\ holder \in Objects /\ ~Alive(holder)
                  /\ mOCL' = [mOCL EXCEPT ![holder] = created + 1]
  PROVE  DeviceInv'
<1> USE DEF DeviceInv
<1>1. CASE UNCHANGED <<cl, shares, mOCL>>
  BY <1>1, SamePrograms DEF Sharing
<1>2. CASE /\ \E r : cl' = [cl EXCEPT ![created + 1] = r]
           /\ shares' = [shares EXCEPT ![created + 1] = {holder}]
           /\ \/ holder = "client" /\ UNCHANGED mOCL
              \/ /\ holder \in Objects /\ ~Alive(holder)
                 /\ mOCL' = [mOCL EXCEPT ![holder] = created + 1]
  <2>1. PICK o \in CLs : o = created + 1 /\ shares[o] = {} /\ o # NONE /\ o \in 0 .. MaxCreated
    BY NextIsFresh, CreatedAssumption DEF CLs, NONE
  <2>2. \A e \in CLs : /\ shares'[e] = IF e = o THEN {holder} ELSE shares[e]
                       /\ e # o => cl'[e] = cl[e]
    BY <1>2, <2>1 DEF Counting, Domains
  <2>3. \A x \in Objects : mOCL[x] # o
    BY <2>1 DEF Sharing
  <2>4. \A x \in Objects : Alive(x) => mOCL[x] \in CLs /\ mOCL'[x] = mOCL[x]
    BY <1>2, AliveIsShared DEF Alive, Sharing
  <2>5. Kept'
    BY <2>2, <2>3, <2>4, SamePrograms
  <2>6. Sharing'
    <3>1. CASE holder = "client" /\ UNCHANGED mOCL
      <4>1. \A x \in Objects : x # holder
        BY <3>1, ObjectAssumption
      <4> QED
        BY <2>1, <2>2, <2>3, <3>1, <4>1 DEF Sharing
    <3>2. CASE /\ holder \in Objects /\ ~Alive(holder)
               /\ mOCL' = [mOCL EXCEPT ![holder] = created + 1]
      <4>1. mOCL' \in [Objects -> 0 .. MaxCreated]
        BY <2>1, <3>2 DEF Sharing
      <4>2. \A e \in CLs : holder \notin shares[e]
        <5>1. \A e \in CLs : e # NONE
          BY DEF CLs, NONE
        <5> QED
          BY <3>2, <5>1 DEF Sharing, Alive
      <4>3. ASSUME NEW x \in Objects, NEW e \in CLs
            PROVE  x \in shares'[e] <=> mOCL'[x] = e
        <5>1. x \in shares[e] <=> mOCL[x] = e
          BY DEF Sharing
        <5>2. mOCL'[x] = IF x = holder THEN o ELSE mOCL[x]
          BY <2>1, <3>2 DEF Sharing
        <5> QED
          BY <2>1, <2>2, <2>3, <4>2, <5>1, <5>2
      <4> QED
        BY <4>1, <4>3 DEF Sharing
    <3> QED
      BY <1>2, <3>1, <3>2
  <2> QED
    BY <2>5, <2>6
<1> QED
  BY <1>1, <1>2

LEMMA NewByTypeStep ==
  ASSUME DeviceInv, NEW x \in Objects, NewByType(x)
  PROVE  DeviceInv'
<1>1. PICK type \in Types : COpenCL(type, x)
  BY DEF NewByType
<1>2. Counting'
  BY <1>1, COpenCLCounts DEF NewByType, DeviceInv
<1>3. created < MaxCreated /\ created' = created + 1
  BY <1>1 DEF COpenCL, Create, CreationFails
<1>4. CASE last' = "ok"
  <2>1. /\ cl' = [cl EXCEPT ![created + 1] =
                    [type |-> type, device |-> FindDevice(type), owner |-> created + 1]]
        /\ shares' = [shares EXCEPT ![created + 1] = {x}]
    BY <1>1, <1>4 DEF COpenCL, Create
  <2>2. ~Alive(x) /\ mOCL' = [mOCL EXCEPT ![x] = created + 1] /\ UNCHANGED programs
    BY <1>3, <1>4 DEF NewByType
  <2> QED
    BY <1>2, <1>3, <2>1, <2>2, CreatedStep
<1>5. CASE last' # "ok"
  <2>1. UNCHANGED <<cl, shares, mOCL, programs>>
    BY <1>1, <1>5 DEF COpenCL, CreationFails, NewByType
  <2> QED
    BY <1>2, <1>3, <2>1, CreatedStep
<1> QED
  BY <1>4, <1>5

LEMMA ClientCreatesStep ==
  ASSUME DeviceInv, ClientCreates
  PROVE  DeviceInv'
<1>1. PICK type \in Types : COpenCL(type, "client")
  BY DEF ClientCreates
<1>2. Counting'
  BY <1>1, COpenCLCounts DEF ClientCreates, DeviceInv
<1>3. created < MaxCreated /\ created' = created + 1 /\ UNCHANGED <<mOCL, programs>>
  BY <1>1 DEF COpenCL, Create, CreationFails, ClientCreates
<1>4. \/ UNCHANGED <<cl, shares>>
      \/ /\ cl' = [cl EXCEPT ![created + 1] =
                     [type |-> type, device |-> FindDevice(type), owner |-> created + 1]]
         /\ shares' = [shares EXCEPT ![created + 1] = {"client"}]
  BY <1>1 DEF COpenCL, CreationFails, Create
<1> QED
  BY <1>2, <1>3, <1>4, CreatedStep

LEMMA NewFromHandlesStep ==
  ASSUME DeviceInv, NEW x \in Objects, NewFromHandles(x)
  PROVE  DeviceInv'
<1>1. /\ created < MaxCreated /\ created' = created + 1
      /\ UNCHANGED <<clientUses, programs, lost>> /\ ~Alive(x)
  BY DEF NewFromHandles, Create, CreationFails
<1>2. CASE last' = "ok"
  <2>1. Counting'
    BY <1>2, BorrowCounts DEF DeviceInv
  <2>2. /\ cl' = [cl EXCEPT ![created + 1] = [type |-> {}, device |-> NoDevice, owner |-> NONE]]
        /\ shares' = [shares EXCEPT ![created + 1] = {x}]
        /\ mOCL' = [mOCL EXCEPT ![x] = created + 1]
    BY <1>2 DEF NewFromHandles, Create
  <2> QED
    BY <1>1, <2>1, <2>2, CreatedStep
<1>3. CASE last' # "ok"
  <2>1. CreationFails /\ UNCHANGED <<refs, mOCL>>
    BY <1>3 DEF NewFromHandles
  <2>2. Counting'
    BY <1>1, <2>1, FailureCounts DEF DeviceInv
  <2> QED
    BY <1>1, <2>1, <2>2, CreatedStep DEF CreationFails
<1> QED
  BY <1>2, <1>3

LEMMA NewSharedStep ==
  ASSUME DeviceInv, NEW x \in Objects, NewShared(x)
  PROVE  DeviceInv'
<1> USE DEF DeviceInv
<1>1. PICK o \in CLs : /\ "client" \in shares[o]
                      /\ shares' = [shares EXCEPT ![o] = @ \cup {x}]
                      /\ mOCL' = [mOCL EXCEPT ![x] = o]
  BY DEF NewShared
<1>2. ~Alive(x) /\ UNCHANGED <<created, cl, refs, clientUses, programs, lost>>
  BY DEF NewShared
<1>3. Counting'
  <2>1. shares[o] # {}
    BY <1>1
  <2> QED
    BY <1>1, <1>2, <2>1, ShareCounts
<1>4. Kept'
  <2>1. \A y \in Objects : Alive(y) => mOCL'[y] = mOCL[y]
    BY <1>1, <1>2 DEF Sharing
  <2> QED
    BY <1>2, <2>1, SamePrograms
<1>5. Sharing'
  <2>1. mOCL' \in [Objects -> 0 .. MaxCreated]
    BY <1>1, CreatedAssumption DEF Sharing, CLs
  <2>2. \A e \in CLs : x \notin shares[e]
    <3>1. \A e \in CLs : e # NONE
      BY DEF CLs, NONE
    <3> QED
      BY <1>2, <3>1 DEF Sharing, Alive
  <2>3. \A e \in CLs : shares'[e] = IF e = o THEN shares[e] \cup {x} ELSE shares[e]
    BY <1>1 DEF Counting, Domains
  <2>4. \A y \in Objects : mOCL'[y] = IF y = x THEN o ELSE mOCL[y]
    BY <1>1 DEF Sharing
  <2>5. ASSUME NEW y \in Objects, NEW e \in CLs
        PROVE  y \in shares'[e] <=> mOCL'[y] = e
    <3>1. y \in shares[e] <=> mOCL[y] = e
      BY DEF Sharing
    <3>2. CASE y = x
      BY <2>2, <2>3, <2>4, <3>2
    <3>3. CASE y # x
      BY <2>3, <2>4, <3>1, <3>3
    <3> QED
      BY <3>2, <3>3
  <2> QED
    BY <2>1, <2>5 DEF Sharing
<1> QED
  BY <1>3, <1>4, <1>5

LEMMA ClientDropsStep ==
  ASSUME DeviceInv, ClientDrops
  PROVE  DeviceInv'
<1> USE DEF DeviceInv
<1>1. PICK o \in CLs : "client" \in shares[o] /\ Drop(o, "client")
  BY DEF ClientDrops
<1>2. UNCHANGED <<created, cl, clientUses, mOCL, programs, lost>>
  BY DEF ClientDrops
<1>3. Counting'
  BY <1>1, <1>2, DropCounts
<1>4. Kept'
  BY <1>2, SamePrograms
<1>5. Sharing'
  <2>1. \A x \in Objects : x # "client"
    BY ObjectAssumption
  <2>2. \A e \in CLs : shares'[e] = IF e = o THEN shares[e] \ {"client"} ELSE shares[e]
    BY <1>1 DEF Drop, Counting, Domains
  <2>3. \A x \in Objects, e \in CLs : x \in shares'[e] <=> x \in shares[e]
    BY <2>1, <2>2
  <2> QED
    BY <1>2, <2>3 DEF Sharing
<1> QED
  BY <1>3, <1>4, <1>5

LEMMA ClientReleasesStep ==
  ASSUME DeviceInv, ClientReleases
  PROVE  DeviceInv'
<1> USE DEF DeviceInv
<1>1. UNCHANGED <<cl, shares, mOCL, programs>>
  BY DEF ClientReleases
<1> QED
  BY <1>1, ReleaseCounts, SamePrograms DEF Sharing

LEMMA BuildKernelStep ==
  ASSUME DeviceInv, NEW x \in Objects, BuildKernel(x)
  PROVE  DeviceInv'
<1> USE DEF DeviceInv
<1>1. UNCHANGED <<created, cl, shares, refs, clientUses, mOCL, lost>>
  BY DEF BuildKernel
<1>2. Counting' /\ Sharing'
  <2>1. Borrowers' = Borrowers
    BY <1>1 DEF Borrowers
  <2>2. ClientRefs'
    BY <1>1, <2>1 DEF Counting, ClientRefs
  <2> QED
    BY <1>1, <2>2 DEF Counting, Domains, Unborn, Owners, OwnRefs, Sharing
<1>3. Kept'
  <2>1. PICK p \in Program : /\ p.holder \in {x, Nobody} /\ p.context = cl[mOCL[x]].owner
                            /\ programs' = programs \cup {p}
    BY DEF BuildKernel
  <2> QED
    BY <1>1, <2>1 DEF Kept, BuildKernel, Alive
<1> QED
  BY <1>2, <1>3

LEMMA DestroyStep ==
  ASSUME DeviceInv, NEW x \in Objects, Destroy(x)
  PROVE  DeviceInv'
<1> USE DEF DeviceInv
<1>1. PICK o \in CLs : o = mOCL[x] /\ x \in shares[o] /\ o # NONE
  BY AliveIsShared DEF Destroy, Alive
<1>2. /\ Drop(o, x) /\ programs' = {p \in programs : p.holder # x}
      /\ mOCL' = [mOCL EXCEPT ![x] = NONE]
      /\ UNCHANGED <<created, cl, clientUses, lost>>
  BY <1>1 DEF Destroy
<1>3. Counting'
  BY <1>1, <1>2, DropCounts
<1>4. \A y \in Objects : mOCL'[y] = IF y = x THEN NONE ELSE mOCL[y]
  BY <1>2 DEF Sharing
<1>5. Kept'
  BY <1>2, <1>4 DEF Kept, Alive
<1>6. Sharing'
  <2>1. mOCL' \in [Objects -> 0 .. MaxCreated]
    BY <1>2, CreatedAssumption DEF Sharing, NONE
  <2>2. \A e \in CLs : e # NONE
    BY DEF CLs, NONE
  <2>3. \A e \in CLs : shares'[e] = IF e = o THEN shares[e] \ {x} ELSE shares[e]
    BY <1>2 DEF Drop, Counting, Domains
  <2>4. ASSUME NEW y \in Objects, NEW e \in CLs
        PROVE  y \in shares'[e] <=> mOCL'[y] = e
    <3>1. y \in shares[e] <=> mOCL[y] = e
      BY DEF Sharing
    <3>2. CASE y = x
      BY <1>1, <1>4, <2>2, <2>3, <3>1, <3>2
    <3>3. CASE y # x
      BY <1>4, <2>3, <3>1, <3>3
    <3> QED
      BY <3>2, <3>3
  <2> QED
    BY <2>1, <2>4 DEF Sharing
<1> QED
  BY <1>3, <1>5, <1>6
-----------------------------------------------------------------------------
(* The theorems *)

\* The counts of references match who shares what, at every step.
THEOREM DeviceInvariant == Spec => []DeviceInv
<1>1. Init => DeviceInv
  <2> SUFFICES ASSUME Init PROVE DeviceInv
    OBVIOUS
  <2>1. \A o \in CLs : shares[o] = {} /\ cl[o].owner = NONE /\ o # NONE /\ o \notin lost
    BY DEF Init, CLs, NONE
  <2>2. /\ refs \in [Handles -> Nat]
        /\ \A kind \in HandleKinds, v \in 0 .. MaxCreated :
             refs[<<kind, v>>] = IF v = NONE THEN 1 ELSE 0
    BY DEF Init, Handles, HandleKinds
  <2>3. Domains
    BY <2>2, CreatedAssumption DEF Init, Domains
  <2>4. Unborn /\ Owners
    BY <2>1 DEF Unborn, Owners
  <2>5. OwnRefs
    BY <2>1, <2>2 DEF OwnRefs, CLs
  <2>6. ClientRefs
    <3>1. Borrowers = {}
      BY <2>1 DEF Borrowers
    <3>2. Cardinality(Borrowers) = 0
      BY <3>1, FS_EmptySet
    <3>3. NONE \in 0 .. MaxCreated /\ clientUses = TRUE
      BY CreatedAssumption DEF Init, NONE
    <3> QED
      BY <2>2, <3>2, <3>3 DEF ClientRefs
  <2>7. Sharing /\ Kept
    BY <2>1, CreatedAssumption DEF Init, Sharing, Kept, NONE
  <2> QED
    BY <2>3, <2>4, <2>5, <2>6, <2>7 DEF DeviceInv, Counting
<1>2. DeviceInv /\ [Next]_vars => DeviceInv'
  <2> SUFFICES ASSUME DeviceInv, [Next]_vars PROVE DeviceInv'
    OBVIOUS
  <2>1. CASE UNCHANGED vars
    <3>1. Borrowers' = Borrowers
      BY <2>1 DEF vars, Borrowers
    <3>2. ClientRefs'
      BY <2>1, <3>1 DEF vars, DeviceInv, Counting, ClientRefs
    <3> QED
      BY <2>1, <3>2 DEF vars, DeviceInv, Counting, Domains, Unborn, Owners, OwnRefs, Sharing,
        Kept, Alive
  <2>2. CASE ClientCreates \/ ClientDrops \/ ClientReleases
    BY <2>2, ClientCreatesStep, ClientDropsStep, ClientReleasesStep
  <2>3. ASSUME NEW x \in Objects,
               NewByType(x) \/ NewShared(x) \/ NewFromHandles(x) \/ BuildKernel(x) \/ Destroy(x)
        PROVE  DeviceInv'
    BY <2>3, NewByTypeStep, NewSharedStep, NewFromHandlesStep, BuildKernelStep, DestroyStep
  <2> QED
    BY <2>1, <2>2, <2>3 DEF Next
<1> QED
  BY <1>1, <1>2, PTL DEF Spec

\* Nobody's context or queue is freed under him (COpenCL.cpp:55-66).
THEOREM HandlesAlwaysLive == Spec => []HandlesLive
<1>1. DeviceInv => HandlesLive
  <2> SUFFICES ASSUME DeviceInv, NEW x \in Objects, Alive(x), NEW kind \in {"context", "queue"}
               PROVE  refs[<<kind, cl[mOCL[x]].owner>>] > 0
    BY DEF HandlesLive
  <2>1. mOCL[x] \in CLs /\ shares[mOCL[x]] # {}
    BY AliveIsShared
  <2> QED
    BY <2>1, SharedIsLive DEF DeviceInv, HandleKinds
<1> QED
  BY <1>1, DeviceInvariant, PTL

\* Once nobody shares a COpenCL and the client has released its handles, all
\* is free but what a constructor or a program that failed left behind
\* (COpenCL.cpp:61-66, 333-337; CRoutine.cpp:97-130).
THEOREM NothingIsHeld == Spec => []NothingHeld
<1>1. DeviceInv => NothingHeld
  <2> SUFFICES ASSUME DeviceInv, \A o \in CLs : shares[o] = {}, ~clientUses,
                      NEW o \in 0 .. MaxCreated
               PROVE  Freed(o) \/ o \in lost
                        \/ \E p \in programs : p.holder = Nobody /\ p.context = o
    BY DEF NothingHeld
  <2>1. \A x \in Objects : ~Alive(x)
    BY AliveIsShared
  <2>2. \A p \in programs : p.holder = Nobody
    BY <2>1 DEF DeviceInv, Kept
  <2>3. CASE o = NONE
    <3>1. Borrowers = {}
      BY DEF Borrowers
    <3>2. Cardinality(Borrowers) = 0
      BY <3>1, FS_EmptySet
    <3>3. refs[<<"context", o>>] = 0 /\ refs[<<"queue", o>>] = 0
      BY <2>3, <3>2 DEF DeviceInv, Counting, ClientRefs, HandleKinds
    <3> QED
      BY <2>2, <3>3 DEF Freed
  <2>4. CASE o # NONE /\ o \notin lost
    <3>1. o \in CLs
      BY <2>4 DEF CLs, NONE
    <3>2. refs[<<"context", o>>] = 0 /\ refs[<<"queue", o>>] = 0
      BY <2>4, <3>1 DEF DeviceInv, Counting, OwnRefs, HandleKinds
    <3> QED
      BY <2>2, <3>2 DEF Freed
  <2> QED
    BY <2>3, <2>4
<1> QED
  BY <1>1, DeviceInvariant, PTL
-----------------------------------------------------------------------------
(* The search for a device *)

\* A set of natural numbers has a least one: induction as the absence of a
\* first counterexample.
LEMMA Least ==
  ASSUME NEW T, T \subseteq Nat, T # {}
  PROVE  \E m \in T : \A n \in T : m <= n
<1>1. PICK m \in T : \A n \in T : ~ (<<n, m>> \in OpToRel(<, Nat))
  BY NatLessThanWellFounded, WFMin
<1>2. \A n \in T : ~ (n < m)
  BY <1>1 DEF OpToRel
<1> QED
  BY <1>2

\* The result after the first p platforms.
Found(type, f, n) ==
  /\ f = [p \in 0 .. n |-> f[p]] /\ f[0] = NoDevice
  /\ \A p \in 1 .. n : f[p] = IF FirstMatch(p, type) = 0 THEN f[p - 1] ELSE <<p, FirstMatch(p, type)>>

LEMMA SearchExists ==
  ASSUME NEW type, NEW n \in Nat
  PROVE  \E f : Found(type, f, n)
<1> DEFINE Bad == {m \in Nat : ~ \E f : Found(type, f, m)}
<1> SUFFICES ASSUME Bad # {} PROVE FALSE
  OBVIOUS
<1>1. PICK m \in Bad : \A k \in Bad : m <= k
  <2>1. Bad \subseteq Nat
    OBVIOUS
  <2> HIDE DEF Bad
  <2> QED
    BY <2>1, Least
<1>2. m \in Nat /\ ~ \E f : Found(type, f, m)
  BY <1>1
<1>3. CASE m = 0
  <2>1. Found(type, [p \in 0 .. 0 |-> NoDevice], 0)
    BY DEF Found
  <2> QED
    BY <1>2, <1>3, <2>1
<1>4. CASE m # 0
  <2>1. m - 1 \in Nat /\ m - 1 \notin Bad
    BY <1>1, <1>2, <1>4
  <2>2. PICK f : Found(type, f, m - 1)
    BY <2>1
  <2> DEFINE v == IF FirstMatch(m, type) = 0 THEN f[m - 1] ELSE <<m, FirstMatch(m, type)>>
             g == [p \in 0 .. m |-> IF p = m THEN v ELSE f[p]]
  <2>3. DOMAIN g = 0 .. m /\ g[0] = NoDevice /\ g[m] = v /\ g[m-1] = f[m-1]
    BY <1>2, <1>4, <2>2 DEF Found
  <2>4. ASSUME NEW p \in 1 .. m
        PROVE  g[p] = IF FirstMatch(p, type) = 0 THEN g[p - 1] ELSE <<p, FirstMatch(p, type)>>
    <3>1. CASE p = m
      BY <2>3, <3>1
    <3>2. CASE p # m
      <4>1. p \in 1 .. m - 1 /\ p \in 0 .. m /\ p - 1 \in 0 .. m /\ p - 1 # m
        BY <1>2, <3>2
      <4>2. g[p] = f[p] /\ g[p - 1] = f[p - 1]
        BY <3>2, <4>1
      <4>3. f[p] = IF FirstMatch(p, type) = 0 THEN f[p - 1] ELSE <<p, FirstMatch(p, type)>>
        BY <2>2, <4>1 DEF Found
      <4> QED
        BY <4>2, <4>3
    <3> QED
      BY <3>1, <3>2
  <2>5. Found(type, g, m)
    BY <2>3, <2>4 DEF Found
  <2> QED
    BY <1>2, <2>5
<1> QED
  BY <1>3, <1>4

LEMMA SearchFinds ==
  ASSUME NEW type, Len(world) \in Nat
  PROVE  \E f : Found(type, f, Len(world)) /\ FindDevice(type) = f[Len(world)]
<1> DEFINE n == Len(world)
           Step(f) == [p \in 0 .. n |->
                         IF p = 0 THEN NoDevice
                         ELSE IF FirstMatch(p, type) = 0 THEN f[p - 1] ELSE <<p, FirstMatch(p, type)>>]
           found == CHOOSE f : f = Step(f)
<1>1. FindDevice(type) = found[n]
  BY DEF FindDevice
<1>2. PICK f : Found(type, f, n)
  BY SearchExists
<1>3. f = Step(f)
  <2>1. f = [p \in 0 .. n |-> f[p]]
    BY <1>2 DEF Found
  <2>2. \A p \in 0 .. n :
          f[p] = IF p = 0 THEN NoDevice
                 ELSE IF FirstMatch(p, type) = 0 THEN f[p - 1] ELSE <<p, FirstMatch(p, type)>>
    <3>1. \A p \in 0 .. n : p = 0 \/ (p \in 1 .. n /\ p # 0)
      OBVIOUS
    <3>2. f[0] = NoDevice
      BY <1>2 DEF Found
    <3>3. \A p \in 1 .. n :
            f[p] = IF FirstMatch(p, type) = 0 THEN f[p - 1] ELSE <<p, FirstMatch(p, type)>>
      BY <1>2 DEF Found
    <3> QED
      BY ONLY <3>1, <3>2, <3>3
  <2> HIDE DEF n
  <2> QED
    BY <2>1, <2>2
<1>4. found = Step(found)
  BY <1>3
<1> HIDE DEF found
<1>5. PICK g : g = found
  OBVIOUS
<1>6. Found(type, g, n)
  BY <1>4, <1>5 DEF Found
<1> QED
  BY <1>1, <1>5, <1>6
-----------------------------------------------------------------------------
\* A platform's first match, if it has one.
OfType(p, type) == {d \in DOMAIN world[p] : world[p][d] = type}

LEMMA WorldShape ==
  ASSUME world \in Worlds
  PROVE  /\ Len(world) \in Nat /\ DOMAIN world = 1 .. Len(world)
         /\ \A p \in DOMAIN world : /\ Len(world[p]) \in Nat
                                   /\ DOMAIN world[p] = 1 .. Len(world[p])
                                   /\ \A d \in DOMAIN world[p] : world[p][d] \in SUBSET Flags
<1>1. world \in Seq(Seq(SUBSET Flags))
  BY WorldAssumption
<1>2. Len(world) \in Nat /\ DOMAIN world = 1 .. Len(world)
  BY <1>1
<1>3. ASSUME NEW p \in DOMAIN world PROVE world[p] \in Seq(SUBSET Flags)
  BY <1>1, <1>3
<1> QED
  BY <1>2, <1>3

LEMMA MatchesAre ==
  ASSUME NEW type, NEW p, NEW d
  PROVE  <<p, d>> \in Matches(type) <=> p \in DOMAIN world /\ d \in OfType(p, type)
BY DEF Matches, Devices, OfType

LEMMA MatchesArePairs ==
  ASSUME NEW type, NEW m \in Matches(type)
  PROVE  m = <<m[1], m[2]>>
BY DEF Matches, Devices

LEMMA FirstMatchIs ==
  ASSUME world \in Worlds, NEW type, NEW p \in DOMAIN world
  PROVE  IF OfType(p, type) = {} THEN FirstMatch(p, type) = 0
         ELSE /\ FirstMatch(p, type) \in OfType(p, type)
              /\ FirstMatch(p, type) # 0
              /\ \A d \in OfType(p, type) : FirstMatch(p, type) <= d
<1>1. (\E m \in Matches(type) : m[1] = p) <=> OfType(p, type) # {}
  <2>1. ASSUME NEW m \in Matches(type), m[1] = p PROVE OfType(p, type) # {}
    BY <2>1, MatchesArePairs, MatchesAre
  <2>2. ASSUME NEW d \in OfType(p, type) PROVE <<p, d>> \in Matches(type)
    BY MatchesAre
  <2> QED
    BY <2>1, <2>2
<1>2. {m[2] : m \in {n \in Matches(type) : n[1] = p}} = OfType(p, type)
  <2>1. ASSUME NEW m \in Matches(type), m[1] = p PROVE m[2] \in OfType(p, type)
    BY <2>1, MatchesArePairs, MatchesAre
  <2>2. ASSUME NEW d \in OfType(p, type) PROVE <<p, d>> \in {n \in Matches(type) : n[1] = p}
    BY MatchesAre
  <2>3. ASSUME NEW d \in OfType(p, type)
        PROVE  d \in {m[2] : m \in {n \in Matches(type) : n[1] = p}}
    <3>1. PICK m \in {n \in Matches(type) : n[1] = p} : m = <<p, d>>
      BY <2>2, <2>3
    <3>2. m[2] = d
      BY <3>1
    <3> QED
      BY <3>2
  <2> QED
    BY <2>1, <2>3
<1>3. CASE OfType(p, type) = {}
  BY <1>1, <1>3 DEF FirstMatch
<1>4. CASE OfType(p, type) # {}
  <2>1. FirstMatch(p, type) = Min(OfType(p, type))
    BY <1>1, <1>2, <1>4 DEF FirstMatch
  <2>2. OfType(p, type) \subseteq Nat \ {0}
    BY WorldShape DEF OfType
  <2>3. PICK m \in OfType(p, type) : \A d \in OfType(p, type) : m <= d
    BY <1>4, <2>2, Least
  <2>4. /\ Min(OfType(p, type)) \in OfType(p, type)
        /\ \A d \in OfType(p, type) : Min(OfType(p, type)) <= d
    BY <2>3 DEF Min
  <2> QED
    BY <1>4, <2>1, <2>2, <2>4
<1> QED
  BY <1>3, <1>4

\* What the search has found among the first n platforms.
BestOf(type, n, found) ==
  IF found = NoDevice
    THEN \A m \in Matches(type) : m[1] > n
    ELSE /\ found \in Matches(type)
         /\ \A m \in Matches(type) : m[1] <= n =>
              m[1] <= found[1] /\ (m[1] = found[1] => m[2] >= found[2])

LEMMA MatchRange ==
  ASSUME world \in Worlds, NEW type, NEW m \in Matches(type)
  PROVE  /\ m[1] \in 1 .. Len(world) /\ m[2] \in OfType(m[1], type) /\ m[2] \in Nat \ {0}
<1>1. m[1] \in DOMAIN world /\ m[2] \in OfType(m[1], type)
  BY MatchesArePairs, MatchesAre
<1> QED
  BY <1>1, WorldShape DEF OfType

LEMMA SearchStep ==
  ASSUME world \in Worlds, NEW type, NEW f, Found(type, f, Len(world)),
         NEW n \in 1 .. Len(world), BestOf(type, n - 1, f[n - 1])
  PROVE  BestOf(type, n, f[n])
<1>0. Len(world) \in Nat /\ n \in DOMAIN world
  BY WorldShape
<1>1. f[n] = IF FirstMatch(n, type) = 0 THEN f[n - 1] ELSE <<n, FirstMatch(n, type)>>
  BY DEF Found
<1>2. \A m \in Matches(type) :
        m[1] \in 1 .. Len(world) /\ m[2] \in OfType(m[1], type) /\ m[2] \in Nat
  BY MatchRange
<1>3. CASE FirstMatch(n, type) = 0
  <2>1. \A m \in Matches(type) : m[1] # n
    BY <1>0, <1>2, <1>3, FirstMatchIs
  <2>2. f[n] = f[n - 1]
    BY <1>1, <1>3
  <2>3. \A m \in Matches(type) : (m[1] <= n <=> m[1] <= n - 1) /\ (m[1] > n <=> m[1] > n - 1)
    BY <1>0, <1>2, <2>1
  <2> QED
    BY <2>2, <2>3 DEF BestOf
<1>4. CASE FirstMatch(n, type) # 0
  <2>1. PICK d : d = FirstMatch(n, type)
    OBVIOUS
  <2>2. d \in OfType(n, type) /\ d # 0 /\ \A e \in OfType(n, type) : d <= e
    BY <1>0, <1>4, <2>1, FirstMatchIs
  <2>3. f[n] = <<n, d>> /\ <<n, d>> \in Matches(type) /\ <<n, d>> # NoDevice
    BY <1>0, <1>1, <1>4, <2>1, <2>2, MatchesAre DEF NoDevice
  <2>4. \A e \in OfType(n, type) : e \in Nat
    BY <1>0, WorldShape DEF OfType
  <2>5. ASSUME NEW m \in Matches(type), m[1] <= n
        PROVE  m[1] <= n /\ (m[1] = n => m[2] >= d)
    BY <1>2, <2>2, <2>4, <2>5
  <2> QED
    BY <2>3, <2>5 DEF BestOf
<1> QED
  BY <1>3, <1>4

LEMMA SearchIsBest ==
  ASSUME world \in Worlds, NEW type
  PROVE  BestOf(type, Len(world), FindDevice(type))
<1>1. Len(world) \in Nat
  BY WorldShape
<1>2. PICK f : Found(type, f, Len(world)) /\ FindDevice(type) = f[Len(world)]
  BY <1>1, SearchFinds
<1> DEFINE Bad == {n \in 0 .. Len(world) : ~ BestOf(type, n, f[n])}
<1>3. Bad = {}
  <2> SUFFICES ASSUME Bad # {} PROVE FALSE
    OBVIOUS
  <2>1. PICK n \in Bad : \A k \in Bad : n <= k
    <3>1. Bad \subseteq Nat
      BY <1>1
    <3> HIDE DEF Bad
    <3> QED
      BY <3>1, Least
  <2>2. n \in 0 .. Len(world) /\ ~ BestOf(type, n, f[n])
    BY <2>1
  <2>3. CASE n = 0
    <3>1. f[0] = NoDevice
      BY <1>2 DEF Found
    <3>2. \A m \in Matches(type) : m[1] > 0
      BY <1>1, MatchRange
    <3> QED
      BY <2>2, <2>3, <3>1, <3>2 DEF BestOf
  <2>4. CASE n # 0
    <3>1. n \in 1 .. Len(world) /\ n - 1 \in 0 .. Len(world) /\ n - 1 \notin Bad
      BY <1>1, <2>1, <2>2, <2>4
    <3>2. BestOf(type, n - 1, f[n - 1])
      BY <3>1
    <3> QED
      BY <1>2, <2>2, <3>1, <3>2, SearchStep
  <2> QED
    BY <2>3, <2>4
<1> QED
  BY <1>1, <1>2, <1>3
-----------------------------------------------------------------------------
\* A COpenCL with handles of its own has the device its search found.
Sought ==
  \A o \in CLs : cl[o].owner # NONE =>
    cl[o].device # NoDevice /\ cl[o].device = FindDevice(cl[o].type)

COpenCLs == [type : SUBSET Flags, device : Devices \cup {NoDevice}, owner : 0 .. MaxCreated]

LEMMA FoundIsDevice ==
  ASSUME world \in Worlds, NEW type
  PROVE  FindDevice(type) \in Devices \cup {NoDevice}
BY SearchIsBest DEF BestOf, Matches

\* The search depends on the machine only, which does not change.
LEMMA SameSearch ==
  ASSUME UNCHANGED world
  PROVE  Devices' = Devices /\ \A type : FindDevice(type)' = FindDevice(type)
<1>1. Devices' = Devices
  BY DEF Devices
<1>2. ASSUME NEW type PROVE Matches(type)' = Matches(type)
  BY <1>1 DEF Matches
<1>3. ASSUME NEW type, NEW p PROVE FirstMatch(p, type)' = FirstMatch(p, type)
  BY <1>2 DEF FirstMatch
<1>4. ASSUME NEW type PROVE FindDevice(type)' = FindDevice(type)
  BY <1>3 DEF FindDevice
<1> QED
  BY <1>1, <1>4

\* A step that makes no COpenCL.
LEMMA SameCLs ==
  ASSUME TypeOK, Sought, UNCHANGED <<world, cl>>
  PROVE  Sought' /\ cl' \in [CLs -> COpenCLs']
BY SameSearch DEF Sought, TypeOK, COpenCLs

\* A step that makes one, from the device its search found or from handles.
LEMMA NewCL ==
  ASSUME TypeOK, Sought, UNCHANGED world, created < MaxCreated,
         NEW type \in SUBSET Flags, NEW owner \in 0 .. MaxCreated, NEW device, NEW holder,
         \/ owner = NONE /\ device = NoDevice
         \/ device # NoDevice /\ device = FindDevice(type),
         Create(type, device, owner, holder)
  PROVE  Sought' /\ cl' \in [CLs -> COpenCLs'] /\ created' \in 1 .. MaxCreated /\ created' = created + 1
<1>1. created + 1 \in 1 .. MaxCreated
  BY CreatedAssumption DEF TypeOK
<1>2. device \in Devices \cup {NoDevice}
  BY FoundIsDevice DEF TypeOK
<1>3. PICK c \in COpenCLs : c = [type |-> type, device |-> device, owner |-> owner]
  BY <1>2 DEF COpenCLs
<1>4. cl' = [cl EXCEPT ![created + 1] = c] /\ cl \in [CLs -> COpenCLs]
  BY <1>3 DEF Create, TypeOK, COpenCLs
<1>5. COpenCLs' = COpenCLs
  BY SameSearch DEF COpenCLs
<1>6. cl' \in [CLs -> COpenCLs] /\ \A o \in CLs : cl'[o] = IF o = created + 1 THEN c ELSE cl[o]
  BY <1>1, <1>4 DEF CLs
<1>7. Sought'
  <2> SUFFICES ASSUME NEW o \in CLs, cl'[o].owner # NONE
               PROVE  cl'[o].device # NoDevice /\ cl'[o].device = FindDevice(cl'[o].type)
    BY SameSearch DEF Sought
  <2>1. CASE o = created + 1
    BY <1>3, <1>6, <2>1
  <2>2. CASE o # created + 1
    BY <1>6, <2>2 DEF Sought
  <2> QED
    BY <2>1, <2>2
<1> QED
  BY <1>1, <1>5, <1>6, <1>7 DEF Create

LEMMA COpenCLSearch ==
  ASSUME TypeOK, Sought, UNCHANGED world, NEW type \in Types, NEW holder, COpenCL(type, holder)
  PROVE  /\ Sought' /\ cl' \in [CLs -> COpenCLs'] /\ created' \in 1 .. MaxCreated
         /\ created' = created + 1 /\ last' \in {"ok", "throw"} /\ lost' \subseteq CLs
<1>0. created + 1 \in 1 .. MaxCreated /\ type \in SUBSET Flags /\ created + 1 \in CLs
  BY CreatedAssumption, AskedAssumption DEF TypeOK, COpenCL, CLs
<1>1. CASE Create(type, FindDevice(type), created + 1, holder) /\ FindDevice(type) # NoDevice
  <2>1. Sought' /\ cl' \in [CLs -> COpenCLs'] /\ created' \in 1 .. MaxCreated /\ created' = created + 1
    BY <1>0, <1>1, NewCL DEF COpenCL
  <2> QED
    BY <1>0, <2>1 DEF COpenCL, TypeOK
<1>2. CASE CreationFails
  <2>1. Sought' /\ cl' \in [CLs -> COpenCLs']
    BY <1>2, SameCLs DEF CreationFails
  <2> QED
    BY <1>0, <1>2, <2>1 DEF COpenCL, CreationFails, TypeOK
<1> QED
  BY <1>1, <1>2 DEF COpenCL

LEMMA TypedInit == Init => TypeOK /\ Sought
<1> SUFFICES ASSUME Init PROVE TypeOK /\ Sought
  OBVIOUS
<1>1. [type |-> {}, device |-> NoDevice, owner |-> NONE] \in COpenCLs
  BY CreatedAssumption DEF COpenCLs, NONE
<1>2. cl \in [CLs -> COpenCLs]
  BY <1>1 DEF Init
<1>3. created \in 0 .. MaxCreated /\ mOCL \in [Objects -> 0 .. created]
  BY CreatedAssumption DEF Init, NONE
<1>4. TypeOK
  BY <1>2, <1>3 DEF Init, TypeOK, COpenCLs
<1>5. Sought
  BY DEF Init, Sought
<1> QED
  BY <1>4, <1>5

LEMMA TypedNext ==
  ASSUME TypeOK, Sought, DeviceInv, DeviceInv', [Next]_vars
  PROVE  TypeOK' /\ Sought'
<1> DEFINE Rest == /\ created' \in 0 .. MaxCreated /\ mOCL' \in [Objects -> 0 .. created']
                   /\ programs' \subseteq Program /\ lost' \subseteq CLs
                   /\ last' \in {"ok", "throw"}
                   /\ Sought' /\ cl' \in [CLs -> COpenCLs']
<1>0. UNCHANGED world
  BY DEF Next, vars, ClientCreates, ClientDrops, ClientReleases, NewByType, NewShared,
         NewFromHandles, BuildKernel, Destroy
<1>1. /\ shares' \in [CLs -> SUBSET (Objects \cup {"client"})]
      /\ refs' \in [Handles -> Nat] /\ clientUses' \in BOOLEAN
  BY DEF DeviceInv, Counting, Domains
<1>2. SUFFICES Rest
  BY <1>0, <1>1 DEF TypeOK, COpenCLs
<1>3. CASE UNCHANGED vars
  BY <1>3, SameCLs DEF vars, TypeOK
<1>4. CASE ClientCreates
  <2>1. PICK type \in Types : COpenCL(type, "client")
    BY <1>4 DEF ClientCreates
  <2>2. /\ Sought' /\ cl' \in [CLs -> COpenCLs'] /\ created' \in 1 .. MaxCreated
        /\ created' = created + 1 /\ last' \in {"ok", "throw"} /\ lost' \subseteq CLs
    BY <1>0, <2>1, COpenCLSearch
  <2> QED
    BY <1>4, <2>2, CreatedAssumption DEF ClientCreates, TypeOK
<1>5. CASE ClientDrops
  BY <1>5, SameCLs DEF ClientDrops, TypeOK
<1>6. CASE ClientReleases
  BY <1>6, SameCLs DEF ClientReleases, TypeOK
<1>7. ASSUME NEW x \in Objects, NewByType(x) PROVE Rest
  <2>1. PICK type \in Types : COpenCL(type, x)
    BY <1>7 DEF NewByType
  <2>2. /\ Sought' /\ cl' \in [CLs -> COpenCLs'] /\ created' \in 1 .. MaxCreated
        /\ created' = created + 1 /\ last' \in {"ok", "throw"} /\ lost' \subseteq CLs
    BY <1>0, <2>1, COpenCLSearch
  <2>3. \A y \in Objects : mOCL[y] \in 0 .. created'
    BY <2>2, CreatedAssumption DEF TypeOK
  <2>4. mOCL' \in [Objects -> 0 .. created']
    BY <1>7, <2>2, <2>3 DEF NewByType, TypeOK
  <2> QED
    BY <1>7, <2>2, <2>4, CreatedAssumption DEF NewByType, TypeOK
<1>8. ASSUME NEW x \in Objects, NewShared(x) PROVE Rest
  <2>1. PICK o \in CLs : "client" \in shares[o] /\ mOCL' = [mOCL EXCEPT ![x] = o]
    BY <1>8 DEF NewShared
  <2>2. o \in 0 .. created
    BY <2>1, CreatedAssumption DEF DeviceInv, Counting, Unborn, CLs, TypeOK
  <2>3. Sought' /\ cl' \in [CLs -> COpenCLs']
    BY <1>8, SameCLs DEF NewShared
  <2> QED
    BY <1>8, <2>1, <2>2, <2>3 DEF NewShared, TypeOK
<1>9. ASSUME NEW x \in Objects, NewFromHandles(x) PROVE Rest
  <2>1. NONE \in 0 .. MaxCreated /\ created + 1 \in 1 .. MaxCreated
    BY <1>9, CreatedAssumption DEF NONE, NewFromHandles, TypeOK
  <2>2. /\ Sought' /\ cl' \in [CLs -> COpenCLs'] /\ created' \in 1 .. MaxCreated
        /\ created' = created + 1 /\ last' \in {"ok", "throw"}
    <3>1. CASE Create({}, NoDevice, NONE, x)
      BY <1>0, <1>9, <2>1, <3>1, NewCL DEF NewFromHandles
    <3>2. CASE CreationFails
      BY <1>0, <1>9, <2>1, <3>2, SameCLs DEF NewFromHandles, CreationFails
    <3> QED
      BY <1>9, <3>1, <3>2 DEF NewFromHandles
  <2>3. \A y \in Objects : mOCL[y] \in 0 .. created'
    BY <2>2, CreatedAssumption DEF TypeOK
  <2>4. mOCL' \in [Objects -> 0 .. created']
    BY <1>9, <2>2, <2>3 DEF NewFromHandles, TypeOK
  <2> QED
    BY <1>9, <2>2, <2>4, CreatedAssumption DEF NewFromHandles, TypeOK
<1>10. ASSUME NEW x \in Objects, BuildKernel(x) PROVE Rest
  BY <1>10, SameCLs DEF BuildKernel, TypeOK
<1>11. ASSUME NEW x \in Objects, Destroy(x) PROVE Rest
  <2>1. NONE \in 0 .. created
    BY CreatedAssumption DEF NONE, TypeOK
  <2> QED
    BY <1>11, <2>1, SameCLs DEF Destroy, TypeOK
<1> QED
  BY <1>3, <1>4, <1>5, <1>6, <1>7, <1>8, <1>9, <1>10, <1>11 DEF Next

\* Types hold, and whoever looked for a device has what FindDevice finds in the
\* world (COpenCL.cpp:93-121).
THEOREM TypedInvariant == Spec => [](TypeOK /\ Sought)
<1>1. (TypeOK /\ Sought) /\ DeviceInv /\ DeviceInv' /\ [Next]_vars => (TypeOK /\ Sought)'
  BY TypedNext
<1> QED
  BY <1>1, TypedInit, DeviceInvariant, PTL DEF Spec

\* Every variable keeps its type: no reference count goes below zero, no object
\* has a COpenCL that was not made (COpenCL.cpp, liboi.cpp:57-98).
THEOREM TypeCorrect == Spec => []TypeOK
BY TypedInvariant, PTL

\* Where a single platform has devices of the type asked for, the comment on
\* the search is right: it returns the first of them (COpenCL.cpp:93-121).
THEOREM FirstOfThePlatform == Spec => []FirstInstance
<1>1. TypeOK /\ Sought => FirstInstance
  <2> SUFFICES ASSUME TypeOK, Sought, NEW o \in CLs, cl[o].owner # NONE,
                      OnePlatform(cl[o].type)
               PROVE  LET found == cl[o].device
                      IN /\ found \in Matches(cl[o].type)
                         /\ \A m \in Matches(cl[o].type) :
                              found[1] < m[1] \/ (found[1] = m[1] /\ found[2] <= m[2])
    BY DEF FirstInstance
  <2>1. world \in Worlds
    BY DEF TypeOK
  <2>2. BestOf(cl[o].type, Len(world), cl[o].device) /\ cl[o].device # NoDevice
    BY <2>1, SearchIsBest DEF Sought
  <2>3. cl[o].device \in Matches(cl[o].type)
    BY <2>2 DEF BestOf
  <2>4. ASSUME NEW m \in Matches(cl[o].type)
        PROVE  cl[o].device[1] = m[1] /\ cl[o].device[2] <= m[2]
    <3>1. m[1] <= Len(world) /\ m[1] = cl[o].device[1]
      BY <2>1, <2>3, MatchRange, WorldShape DEF OnePlatform
    <3>2. m[2] >= cl[o].device[2] /\ m[2] \in Nat /\ cl[o].device[2] \in Nat
      BY <2>1, <2>2, <2>3, <3>1, MatchRange DEF BestOf
    <3> QED
      BY <3>1, <3>2
  <2> QED
    BY <2>3, <2>4
<1> QED
  BY <1>1, TypedInvariant, PTL
=============================================================================
