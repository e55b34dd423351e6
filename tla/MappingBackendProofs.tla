------------------------- MODULE MappingBackendProofs -------------------------
(***************************************************************************)
(* What the operations on the in-memory store preserve, and what writing   *)
(* and loading etcd does: start builds a well-typed store, and an exact    *)
(* one as long as what is in etcd is known to the memory.                  *)
(***************************************************************************)
EXTENDS MappingBackend, TLAPS

\* A complete mapping has proper objects on both sides (NameMapping.Virtual,
\* NameMapping.Host).
LEMMA PairObjects ==
    ASSUME NEW m \in Pairs
    PROVE  /\ Virtual(m) \in VirtualObjects
           /\ Host(m) \in HostObjects
           /\ m.v \in VNames /\ m.v # None
           /\ m.p \in HNames /\ m.p # None
           /\ m.kind \in Kinds
           /\ m = [kind |-> m.kind, v |-> m.v, p |-> m.p]
BY PairsAreComplete, NoneIsNoName DEF Virtual, Host, VirtualObjects, HostObjects

\* A complete mapping is determined by its two objects (NameMapping.Equals).
LEMMA PairEquality ==
    ASSUME NEW m \in Pairs, NEW n \in Pairs, Virtual(m) = Virtual(n), m.p = n.p
    PROVE  m = n
BY PairObjects, Zenon DEF Virtual

\* The name that decides a lookup entry is one of those added
\* (addMappingToNameMap).
LEMMA FirstByMember ==
    ASSUME NEW N, NEW m, NEW hit, N \cap hit # {}
    PROVE  FirstBy(N, m, hit) \in N \cap hit
BY DEF FirstBy

-----------------------------------------------------------------------------
(* Type correctness. A lookup map only ever answers with the other side of a *)
(* complete mapping.                                                         *)

HostMapOK(h) ==
    /\ h \in [HostObjects -> VirtualLookup]
    /\ \A o \in HostObjects : h[o].object # None =>
          [kind |-> o[1], v |-> h[o].object, p |-> o[2]] \in Pairs

VirtualMapOK(w) ==
    /\ w \in [VirtualObjects -> HostLookup]
    /\ \A o \in VirtualObjects : w[o].object # None =>
          [kind |-> o[1], v |-> o[2], p |-> w[o].object] \in Pairs

StoreOK(st) ==
    /\ st \in Store
    /\ HostMapOK(st.hostToVirtual)
    /\ VirtualMapOK(st.virtualToHost)

\* Adding names keeps the lookup maps well typed (addNameToMaps).
LEMMA AddNamesType ==
    ASSUME NEW m \in Pairs, NEW N \in SUBSET Pairs,
           NEW h, HostMapOK(h), NEW w, VirtualMapOK(w)
    PROVE  /\ HostMapOK(AddHostNames(h, m, N))
           /\ VirtualMapOK(AddVirtualNames(w, m, N))
<1>1. ASSUME NEW o \in HostObjects
      PROVE  LET l == AddHostNames(h, m, N)[o] IN
             /\ l \in VirtualLookup
             /\ l.object # None => [kind |-> o[1], v |-> l.object, p |-> o[2]] \in Pairs
  <2> DEFINE hit == {n \in N : Host(n) = o}
  <2>1. CASE hit = {}
    BY <2>1 DEF AddHostNames, HostMapOK
  <2>2. CASE hit # {}
    <3> DEFINE f == FirstBy(N, m, hit)
    <3>1. f \in Pairs /\ Host(f) = o
      BY <2>2, FirstByMember
    <3> HIDE DEF f
    <3>2. f.v \in VNames /\ f = [kind |-> o[1], v |-> f.v, p |-> o[2]]
      BY <3>1, PairObjects DEF Host
    <3>3. /\ h[o] \in VirtualLookup
          /\ h[o].object # None => [kind |-> o[1], v |-> h[o].object, p |-> o[2]] \in Pairs
      BY DEF HostMapOK
    <3>4. AddHostNames(h, m, N)[o] =
            [object |-> IF h[o].owners = {} THEN f.v ELSE h[o].object,
             owners |-> h[o].owners \cup {m}]
      BY <2>2 DEF AddHostNames, f
    <3> QED BY <3>1, <3>2, <3>3, <3>4 DEF VirtualLookup
  <2> QED BY <2>1, <2>2
<1>2. ASSUME NEW o \in VirtualObjects
      PROVE  LET l == AddVirtualNames(w, m, N)[o] IN
             /\ l \in HostLookup
             /\ l.object # None => [kind |-> o[1], v |-> o[2], p |-> l.object] \in Pairs
  <2> DEFINE hit == {n \in N : Virtual(n) = o}
  <2>1. CASE hit = {}
    BY <2>1 DEF AddVirtualNames, VirtualMapOK
  <2>2. CASE hit # {}
    <3> DEFINE f == FirstBy(N, m, hit)
    <3>1. f \in Pairs /\ Virtual(f) = o
      BY <2>2, FirstByMember
    <3> HIDE DEF f
    <3>2. f.p \in HNames /\ f = [kind |-> o[1], v |-> o[2], p |-> f.p]
      BY <3>1, PairObjects DEF Virtual
    <3>3. /\ w[o] \in HostLookup
          /\ w[o].object # None => [kind |-> o[1], v |-> o[2], p |-> w[o].object] \in Pairs
      BY DEF VirtualMapOK
    <3>4. AddVirtualNames(w, m, N)[o] =
            [object |-> IF w[o].owners = {} THEN f.p ELSE w[o].object,
             owners |-> w[o].owners \cup {m}]
      BY <2>2 DEF AddVirtualNames, f
    <3> QED BY <3>1, <3>2, <3>3, <3>4 DEF HostLookup
  <2> QED BY <2>1, <2>2
<1>3. HostMapOK(AddHostNames(h, m, N))
  BY <1>1, Zenon DEF AddHostNames, HostMapOK
<1>4. VirtualMapOK(AddVirtualNames(w, m, N))
  BY <1>2, Zenon DEF AddVirtualNames, VirtualMapOK
<1> QED BY <1>3, <1>4

\* Removing names keeps the lookup maps well typed (removeNameFromMaps).
LEMMA RemoveNamesType ==
    ASSUME NEW m \in Pairs, NEW N,
           NEW h, HostMapOK(h), NEW w, VirtualMapOK(w)
    PROVE  /\ HostMapOK(RemoveHostNames(h, m, N))
           /\ VirtualMapOK(RemoveVirtualNames(w, m, N))
<1>1. ASSUME NEW l \in VirtualLookup
      PROVE  Without(l, m) \in VirtualLookup /\ Without(l, m).object \in {l.object, None}
  BY DEF Without, NoLookup, VirtualLookup
<1>2. ASSUME NEW l \in HostLookup
      PROVE  Without(l, m) \in HostLookup /\ Without(l, m).object \in {l.object, None}
  BY DEF Without, NoLookup, HostLookup
<1>3. HostMapOK(RemoveHostNames(h, m, N))
  BY <1>1 DEF RemoveHostNames, HostMapOK
<1>4. VirtualMapOK(RemoveVirtualNames(w, m, N))
  BY <1>2 DEF RemoveVirtualNames, VirtualMapOK
<1> QED BY <1>3, <1>4

\* addMapping keeps the store well typed.
LEMMA AddMappingType ==
    ASSUME NEW st, StoreOK(st), NEW m \in Pairs, NEW refs \in SUBSET Pairs, NEW dirty \in BOOLEAN
    PROVE  StoreOK(AddMapping(st, m, refs, dirty))
<1>1. /\ HostMapOK(AddHostNames(st.hostToVirtual, m, {m} \cup refs))
      /\ VirtualMapOK(AddVirtualNames(st.virtualToHost, m, {m} \cup refs))
  BY AddNamesType DEF StoreOK
<1> QED BY <1>1, Zenon DEF AddMapping, Store, StoreOK, HostMapOK, VirtualMapOK

\* removeMapping keeps the store well typed.
LEMMA RemoveMappingType ==
    ASSUME NEW st, StoreOK(st), NEW m \in Pairs
    PROVE  StoreOK(RemoveMapping(st, m))
<1>1. /\ HostMapOK(RemoveHostNames(st.hostToVirtual, m, Names(st, m)))
      /\ VirtualMapOK(RemoveVirtualNames(st.virtualToHost, m, Names(st, m)))
  BY RemoveNamesType DEF StoreOK
<1> QED BY <1>1 DEF RemoveMapping, Store, StoreOK, HostMapOK, VirtualMapOK

\* A mapping found for an owner is in the store (findMapping).
LEMMA FoundIsPair ==
    ASSUME NEW st, StoreOK(st), NEW b, Found(st, b)
    PROVE  Completed(st, b) \in st.mappings /\ Completed(st, b) \in Pairs
BY DEF Found, Store, StoreOK

\* createMapping creates the owner itself, or the recorded name.
LEMMA CreatableIsPair ==
    ASSUME NEW n \in Pairs, NEW b, b.v # None /\ b.p # None => b \in Pairs
    PROVE  Creatable(n, b) \subseteq Pairs
BY DEF Creatable

\* SaveMapping's change to the memory keeps the store well typed.
LEMMA ClearedType ==
    ASSUME NEW st, StoreOK(st), NEW m \in Pairs
    PROVE  StoreOK([st EXCEPT !.changed[m] = FALSE])
BY Zenon DEF StoreOK, Store

\* AddReference keeps the store well typed.
LEMMA AddReferenceType ==
    ASSUME NEW st, StoreOK(st), NEW n \in Pairs, NEW b, b.v # None /\ b.p # None => b \in Pairs
    PROVE  StoreOK(AddReferenceTo(st, n, b))
<1> DEFINE m == Completed(st, b)
<1>1. StoreOK(CreateMapping(st, n, b))
  BY CreatableIsPair, AddMappingType, Zenon DEF CreateMapping
<1>2. CASE ~(Found(st, b) /\ n \notin Names(st, m))
  BY <1>1, <1>2 DEF AddReferenceTo
<1>3. CASE Found(st, b) /\ n \notin Names(st, m)
  <2>1. m \in Pairs
    BY <1>3, FoundIsPair
  <2>2. /\ HostMapOK(AddHostNames(st.hostToVirtual, m, {n}))
        /\ VirtualMapOK(AddVirtualNames(st.virtualToHost, m, {n}))
    BY <2>1, AddNamesType DEF StoreOK
  <2> QED BY <1>3, <2>1, <2>2, ZenonT(60) DEF AddReferenceTo, Store, StoreOK, HostMapOK, VirtualMapOK
<1> QED BY <1>2, <1>3

\* DeleteReference keeps the store well typed.
LEMMA DeleteReferenceType ==
    ASSUME NEW st, StoreOK(st), NEW n \in Pairs, NEW b
    PROVE  StoreOK(DeleteReferenceFrom(st, n, b))
<1> DEFINE m == Completed(st, b)
<1>1. CASE ~Found(st, b) \/ n \notin st.references[m]
  BY <1>1 DEF DeleteReferenceFrom
<1>2. CASE Found(st, b) /\ n \in st.references[m]
  <2>1. m \in Pairs
    BY <1>2, FoundIsPair
  <2>2. /\ HostMapOK(RemoveHostNames(st.hostToVirtual, m, {n}))
        /\ VirtualMapOK(RemoveVirtualNames(st.virtualToHost, m, {n}))
    BY <2>1, RemoveNamesType DEF StoreOK
  <2> QED BY <1>2, <2>1, <2>2, Zenon DEF DeleteReferenceFrom, Store, StoreOK, HostMapOK, VirtualMapOK
<1> QED BY <1>1, <1>2

-----------------------------------------------------------------------------
(* What adding and removing names does to one entry of a lookup map. *)

HostAdded(h2, h, m, N) ==
    \A o \in HostObjects :
        /\ (\A n \in N : Host(n) # o) => h2[o] = h[o]
        /\ (\E n \in N : Host(n) = o) => h2[o].owners = h[o].owners \cup {m}
        /\ h[o].owners # {} => h2[o].object = h[o].object
        /\ h[o].owners = {} /\ (\E n \in N : Host(n) = o) =>
             \E n \in N : Host(n) = o /\ h2[o].object = n.v

VirtualAdded(w2, w, m, N) ==
    \A o \in VirtualObjects :
        /\ (\A n \in N : Virtual(n) # o) => w2[o] = w[o]
        /\ (\E n \in N : Virtual(n) = o) => w2[o].owners = w[o].owners \cup {m}
        /\ w[o].owners # {} => w2[o].object = w[o].object
        /\ w[o].owners = {} /\ (\E n \in N : Virtual(n) = o) =>
             \E n \in N : Virtual(n) = o /\ w2[o].object = n.p

HostRemoved(h2, h, m, N) ==
    \A o \in HostObjects :
        /\ (\A n \in N : Host(n) # o) => h2[o] = h[o]
        /\ (\E n \in N : Host(n) = o) => h2[o].owners = h[o].owners \ {m}
        /\ (\E n \in N : Host(n) = o) =>
             h2[o].object = IF h[o].owners \subseteq {m} THEN None ELSE h[o].object

VirtualRemoved(w2, w, m, N) ==
    \A o \in VirtualObjects :
        /\ (\A n \in N : Virtual(n) # o) => w2[o] = w[o]
        /\ (\E n \in N : Virtual(n) = o) => w2[o].owners = w[o].owners \ {m}
        /\ (\E n \in N : Virtual(n) = o) =>
             w2[o].object = IF w[o].owners \subseteq {m} THEN None ELSE w[o].object

\* One entry of the host lookup map after addMappingToNameMap: an existing
\* answer is kept, a new one is the other side of an added name.
LEMMA AddedHostEntry ==
    ASSUME NEW m \in Pairs, NEW N \in SUBSET Pairs, NEW h,
           NEW h2, h2 = AddHostNames(h, m, N)
    PROVE  HostAdded(h2, h, m, N)
<1> SUFFICES ASSUME NEW o \in HostObjects
             PROVE  HostAdded(h2, h, m, N)!(o)
  BY DEF HostAdded
<1> DEFINE hit == {n \in N : Host(n) = o}
<1>1. CASE hit = {}
  BY <1>1 DEF AddHostNames
<1>2. CASE hit # {}
  <2> DEFINE f == FirstBy(N, m, hit)
  <2>1. f \in N /\ Host(f) = o
    BY <1>2, FirstByMember
  <2> HIDE DEF f
  <2>2. AddHostNames(h, m, N)[o] =
          [object |-> IF h[o].owners = {} THEN f.v ELSE h[o].object,
           owners |-> h[o].owners \cup {m}]
    BY <1>2 DEF AddHostNames, f
  <2> QED BY <1>2, <2>1, <2>2
<1> QED BY <1>1, <1>2

\* The same for the virtual lookup map.
LEMMA AddedVirtualEntry ==
    ASSUME NEW m \in Pairs, NEW N \in SUBSET Pairs, NEW w,
           NEW w2, w2 = AddVirtualNames(w, m, N)
    PROVE  VirtualAdded(w2, w, m, N)
<1> SUFFICES ASSUME NEW o \in VirtualObjects
             PROVE  VirtualAdded(w2, w, m, N)!(o)
  BY DEF VirtualAdded
<1> DEFINE hit == {n \in N : Virtual(n) = o}
<1>1. CASE hit = {}
  BY <1>1 DEF AddVirtualNames
<1>2. CASE hit # {}
  <2> DEFINE f == FirstBy(N, m, hit)
  <2>1. f \in N /\ Virtual(f) = o
    BY <1>2, FirstByMember
  <2> HIDE DEF f
  <2>2. AddVirtualNames(w, m, N)[o] =
          [object |-> IF w[o].owners = {} THEN f.p ELSE w[o].object,
           owners |-> w[o].owners \cup {m}]
    BY <1>2 DEF AddVirtualNames, f
  <2> QED BY <1>2, <2>1, <2>2
<1> QED BY <1>1, <1>2

\* One entry of the host lookup map after removeMappingFromNameMap.
LEMMA RemovedHostEntry ==
    ASSUME NEW m \in Pairs, NEW N, NEW h, HostMapOK(h),
           NEW h2, h2 = RemoveHostNames(h, m, N)
    PROVE  HostRemoved(h2, h, m, N)
<1> SUFFICES ASSUME NEW o \in HostObjects
             PROVE  HostRemoved(h2, h, m, N)!(o)
  BY DEF HostRemoved
<1>1. h[o] \in VirtualLookup
  BY DEF HostMapOK
<1> QED BY <1>1 DEF RemoveHostNames, Without, NoLookup, VirtualLookup

\* The same for the virtual lookup map.
LEMMA RemovedVirtualEntry ==
    ASSUME NEW m \in Pairs, NEW N, NEW w, VirtualMapOK(w),
           NEW w2, w2 = RemoveVirtualNames(w, m, N)
    PROVE  VirtualRemoved(w2, w, m, N)
<1> SUFFICES ASSUME NEW o \in VirtualObjects
             PROVE  VirtualRemoved(w2, w, m, N)!(o)
  BY DEF VirtualRemoved
<1>1. w[o] \in HostLookup
  BY DEF VirtualMapOK
<1> QED BY <1>1 DEF RemoveVirtualNames, Without, NoLookup, HostLookup

-----------------------------------------------------------------------------
(* Exactness. The lookup maps mirror the mappings, entries nobody uses are  *)
(* gone, and no mapping refers to itself.                                   *)

Exact(st) ==
    /\ OwnersExact(st)
    /\ AnswersExact(st)
    /\ \A o \in HostObjects : st.hostToVirtual[o].owners = {} => st.hostToVirtual[o].object = None
    /\ \A o \in VirtualObjects : st.virtualToHost[o].owners = {} => st.virtualToHost[o].object = None
    /\ \A m \in st.mappings : m \notin st.references[m]

\* In an exact store two names of mappings never conflict: the lookup maps
\* give one answer per object.
LEMMA ExactOneToOne ==
    ASSUME NEW st, StoreOK(st), Exact(st),
           NEW m1 \in st.mappings, NEW m2 \in st.mappings,
           NEW n1 \in Names(st, m1), NEW n2 \in Names(st, m2)
    PROVE  ~Conflicting(n1, n2)
<1>1. n1 \in Pairs /\ n2 \in Pairs
  BY DEF Names, StoreOK, Store
<1>2. /\ HostToVirtualName(st, Host(n1)) = n1.v /\ VirtualToHostName(st, Virtual(n1)) = n1.p
      /\ HostToVirtualName(st, Host(n2)) = n2.v /\ VirtualToHostName(st, Virtual(n2)) = n2.p
  BY DEF Exact, AnswersExact
<1> QED BY <1>1, <1>2, PairObjects DEF Conflicting, Virtual, Host

\* A name that conflicts with no name of a mapping passes checkNameConflict.
LEMMA AgreeingIsNoConflict ==
    ASSUME NEW st, StoreOK(st), Exact(st), NEW n \in Pairs,
           \A m \in st.mappings : \A k \in Names(st, m) : ~Conflicting(n, k)
    PROVE  ~NameConflict(st, n)
<1>1. Host(n) \in HostObjects /\ Virtual(n) \in VirtualObjects
  BY PairObjects
<1>2. ASSUME st.hostToVirtual[Host(n)].owners # {} PROVE st.hostToVirtual[Host(n)].object = n.v
  <2>1. PICK m \in st.mappings : \E k \in Names(st, m) : Host(k) = Host(n)
    BY <1>1, <1>2 DEF Exact, OwnersExact
  <2>2. PICK k \in Names(st, m) : Host(k) = Host(n)
    BY <2>1
  <2>3. k = n
    BY <2>2 DEF Conflicting
  <2> QED BY <2>2, <2>3 DEF Exact, AnswersExact, HostToVirtualName
<1>3. ASSUME st.virtualToHost[Virtual(n)].owners # {} PROVE st.virtualToHost[Virtual(n)].object = n.p
  <2>1. PICK m \in st.mappings : \E k \in Names(st, m) : Virtual(k) = Virtual(n)
    BY <1>1, <1>3 DEF Exact, OwnersExact
  <2>2. PICK k \in Names(st, m) : Virtual(k) = Virtual(n)
    BY <2>1
  <2>3. k = n
    BY <2>2 DEF Conflicting
  <2> QED BY <2>2, <2>3 DEF Exact, AnswersExact, VirtualToHostName
<1> QED BY <1>2, <1>3 DEF NameConflict

\* st2 is st with the names N given to mapping m, which may be new
\* (addMapping) or known (AddReference).
NamesGiven(st, st2, m, N) ==
    /\ st2.mappings = st.mappings \cup {m}
    /\ st2.references \in [Pairs -> SUBSET Pairs]
    /\ \A k \in Pairs \ {m} : st2.references[k] = st.references[k]
    /\ m \notin st.mappings => N = Names(st2, m)
    /\ m \in st.mappings => Names(st2, m) = Names(st, m) \cup N
    /\ m \notin st2.references[m]
    /\ st2.hostToVirtual = AddHostNames(st.hostToVirtual, m, N)
    /\ st2.virtualToHost = AddVirtualNames(st.virtualToHost, m, N)

NoneConflicts(st, N) ==
    /\ \A n \in N : ~NameConflict(st, n)
    /\ \A n, k \in N : ~Conflicting(n, k)

\* Names that conflict with nothing keep the lookup maps exact.
LEMMA AddNamesExact ==
    ASSUME NEW st, StoreOK(st), Exact(st), NEW m \in Pairs, NEW N \in SUBSET Pairs,
           NEW st2, NamesGiven(st, st2, m, N), NoneConflicts(st, N)
    PROVE  Exact(st2)
<1> USE DEF NamesGiven, NoneConflicts
<1> DEFINE h == st.hostToVirtual
           w == st.virtualToHost
           h2 == st2.hostToVirtual
           w2 == st2.virtualToHost
<1>0. st.mappings \subseteq Pairs /\ st.references \in [Pairs -> SUBSET Pairs]
  BY DEF StoreOK, Store
<1>h. HostAdded(h2, h, m, N)
  BY AddedHostEntry
<1>w. VirtualAdded(w2, w, m, N)
  BY AddedVirtualEntry
<1>1. \A k \in st.mappings \ {m} : Names(st2, k) = Names(st, k)
  BY <1>0 DEF Names
<1>2. ASSUME NEW o \in HostObjects
      PROVE  h2[o].owners = {k \in st2.mappings : \E n \in Names(st2, k) : Host(n) = o}
  <2>1. h[o].owners = {k \in st.mappings : \E n \in Names(st, k) : Host(n) = o}
    BY DEF Exact, OwnersExact
  <2>2. CASE \E n \in N : Host(n) = o
    <3>1. h2[o].owners = h[o].owners \cup {m}
      BY <2>2, <1>h DEF HostAdded
    <3> QED BY <1>1, <2>1, <2>2, <3>1
  <2>3. CASE \A n \in N : Host(n) # o
    <3>1. h2[o].owners = h[o].owners
      BY <2>3, <1>h DEF HostAdded
    <3> QED BY <1>1, <2>1, <2>3, <3>1
  <2> QED BY <2>2, <2>3
<1>3. ASSUME NEW o \in VirtualObjects
      PROVE  w2[o].owners = {k \in st2.mappings : \E n \in Names(st2, k) : Virtual(n) = o}
  <2>1. w[o].owners = {k \in st.mappings : \E n \in Names(st, k) : Virtual(n) = o}
    BY DEF Exact, OwnersExact
  <2>2. CASE \E n \in N : Virtual(n) = o
    <3>1. w2[o].owners = w[o].owners \cup {m}
      BY <2>2, <1>w DEF VirtualAdded
    <3> QED BY <1>1, <2>1, <2>2, <3>1
  <2>3. CASE \A n \in N : Virtual(n) # o
    <3>1. w2[o].owners = w[o].owners
      BY <2>3, <1>w DEF VirtualAdded
    <3> QED BY <1>1, <2>1, <2>3, <3>1
  <2> QED BY <2>2, <2>3
<1>4. ASSUME NEW k \in st.mappings, NEW n \in Names(st, k)
      PROVE  h2[Host(n)].object = n.v /\ w2[Virtual(n)].object = n.p
  <2>1. n \in Pairs
    BY <1>0 DEF Names
  <2>2. Host(n) \in HostObjects /\ Virtual(n) \in VirtualObjects
    BY <2>1, PairObjects
  <2>3. h[Host(n)].owners # {} /\ w[Virtual(n)].owners # {}
    BY <2>2 DEF Exact, OwnersExact
  <2>4. h[Host(n)].object = n.v /\ w[Virtual(n)].object = n.p
    BY DEF Exact, AnswersExact, HostToVirtualName, VirtualToHostName
  <2> QED BY <2>2, <2>3, <2>4, <1>h, <1>w DEF HostAdded, VirtualAdded
<1>5. ASSUME NEW n \in N
      PROVE  h2[Host(n)].object = n.v /\ w2[Virtual(n)].object = n.p
  <2>1. Host(n) \in HostObjects /\ Virtual(n) \in VirtualObjects
    BY PairObjects
  <2>2. h2[Host(n)].object = n.v
    <3>1. CASE h[Host(n)].owners # {}
      <4>1. h[Host(n)].object = n.v
        BY <3>1 DEF NameConflict
      <4> QED BY <2>1, <3>1, <4>1, <1>h DEF HostAdded
    <3>2. CASE h[Host(n)].owners = {}
      <4>1. PICK k \in N : Host(k) = Host(n) /\ h2[Host(n)].object = k.v
        BY <2>1, <3>2, <1>h DEF HostAdded
      <4>2. k = n
        BY <4>1 DEF Conflicting
      <4> QED BY <4>1, <4>2
    <3> QED BY <3>1, <3>2
  <2>3. w2[Virtual(n)].object = n.p
    <3>1. CASE w[Virtual(n)].owners # {}
      <4>1. w[Virtual(n)].object = n.p
        BY <3>1 DEF NameConflict
      <4> QED BY <2>1, <3>1, <4>1, <1>w DEF VirtualAdded
    <3>2. CASE w[Virtual(n)].owners = {}
      <4>1. PICK k \in N : Virtual(k) = Virtual(n) /\ w2[Virtual(n)].object = k.p
        BY <2>1, <3>2, <1>w DEF VirtualAdded
      <4>2. k = n
        BY <4>1 DEF Conflicting
      <4> QED BY <4>1, <4>2
    <3> QED BY <3>1, <3>2
  <2> QED BY <2>2, <2>3
<1>6. AnswersExact(st2)
  BY <1>1, <1>4, <1>5 DEF AnswersExact, HostToVirtualName, VirtualToHostName
<1>7. /\ \A o \in HostObjects : h2[o].owners = {} => h2[o].object = None
      /\ \A o \in VirtualObjects : w2[o].owners = {} => w2[o].object = None
  <2>1. ASSUME NEW o \in HostObjects, h2[o].owners = {} PROVE h2[o].object = None
    <3>1. \A n \in N : Host(n) # o
      BY <1>h, <2>1 DEF HostAdded
    <3>2. h2[o] = h[o]
      BY <1>h, <3>1 DEF HostAdded
    <3> QED BY <2>1, <3>2 DEF Exact
  <2>2. ASSUME NEW o \in VirtualObjects, w2[o].owners = {} PROVE w2[o].object = None
    <3>1. \A n \in N : Virtual(n) # o
      BY <1>w, <2>2 DEF VirtualAdded
    <3>2. w2[o] = w[o]
      BY <1>w, <3>1 DEF VirtualAdded
    <3> QED BY <2>2, <3>2 DEF Exact
  <2> QED BY <2>1, <2>2
<1>8. \A k \in st2.mappings : k \notin st2.references[k]
  BY <1>0 DEF Exact
<1> QED BY <1>2, <1>3, <1>6, <1>7, <1>8 DEF Exact, OwnersExact

\* addMapping keeps the lookup maps exact when none of the new names conflicts.
LEMMA AddMappingExact ==
    ASSUME NEW st, StoreOK(st), Exact(st), NEW m \in Pairs \ st.mappings,
           NEW refs \in SUBSET Pairs, m \notin refs, NEW dirty \in BOOLEAN,
           \A n \in {m} \cup refs : ~NameConflict(st, n),
           \A n, k \in {m} \cup refs : ~Conflicting(n, k)
    PROVE  Exact(AddMapping(st, m, refs, dirty))
<1> DEFINE st2 == AddMapping(st, m, refs, dirty)
<1>1. /\ st2.mappings = st.mappings \cup {m}
      /\ st2.references = [st.references EXCEPT ![m] = refs]
      /\ st2.hostToVirtual = AddHostNames(st.hostToVirtual, m, {m} \cup refs)
      /\ st2.virtualToHost = AddVirtualNames(st.virtualToHost, m, {m} \cup refs)
  BY DEF AddMapping
<1> HIDE DEF st2
<1>2. st.references \in [Pairs -> SUBSET Pairs]
  BY DEF StoreOK, Store
<1>3. /\ st2.references \in [Pairs -> SUBSET Pairs]
      /\ \A k \in Pairs \ {m} : st2.references[k] = st.references[k]
      /\ st2.references[m] = refs
      /\ Names(st2, m) = {m} \cup refs
  BY <1>1, <1>2 DEF Names
<1>4. NamesGiven(st, st2, m, {m} \cup refs)
  BY <1>1, <1>3 DEF NamesGiven
<1>5. NoneConflicts(st, {m} \cup refs)
  BY DEF NoneConflicts
<1>6. Exact(st2)
  BY <1>4, <1>5, AddNamesExact
<1> QED BY <1>6 DEF st2

\* AddReference keeps the lookup maps exact: it checked the name for conflicts.
LEMMA AddReferenceNameExact ==
    ASSUME NEW st, StoreOK(st), Exact(st), NEW m \in st.mappings,
           NEW n \in Pairs, n \notin Names(st, m), ~NameConflict(st, n)
    PROVE  Exact([st EXCEPT !.references[m] = @ \cup {n},
                            !.changed[m] = TRUE,
                            !.hostToVirtual = AddHostNames(@, m, {n}),
                            !.virtualToHost = AddVirtualNames(@, m, {n})])
<1> DEFINE st2 == [st EXCEPT !.references[m] = @ \cup {n},
                             !.changed[m] = TRUE,
                             !.hostToVirtual = AddHostNames(@, m, {n}),
                             !.virtualToHost = AddVirtualNames(@, m, {n})]
<1>1. st \in Store /\ m \in Pairs
  BY DEF StoreOK, Store
<1>2. /\ st2.mappings = st.mappings
      /\ st2.references = [st.references EXCEPT ![m] = @ \cup {n}]
      /\ st2.hostToVirtual = AddHostNames(st.hostToVirtual, m, {n})
      /\ st2.virtualToHost = AddVirtualNames(st.virtualToHost, m, {n})
  BY <1>1 DEF Store
<1> HIDE DEF st2
<1>3. st.references \in [Pairs -> SUBSET Pairs]
  BY <1>1 DEF Store
<1>4. /\ st2.references \in [Pairs -> SUBSET Pairs]
      /\ \A k \in Pairs \ {m} : st2.references[k] = st.references[k]
      /\ st2.references[m] = st.references[m] \cup {n}
      /\ Names(st2, m) = Names(st, m) \cup {n}
  BY <1>1, <1>2, <1>3 DEF Names
<1>5. m \notin st2.references[m]
  BY <1>4 DEF Exact, Names
<1>6. \A k1, k2 \in {n} : ~Conflicting(k1, k2)
  BY DEF Conflicting
<1>7. st2.mappings = st.mappings \cup {m}
  BY <1>2
<1>8. NamesGiven(st, st2, m, {n})
  BY <1>2, <1>4, <1>5, <1>7 DEF NamesGiven
<1>9. NoneConflicts(st, {n})
  BY <1>6 DEF NoneConflicts
<1>10. Exact(st2)
  BY <1>1, <1>8, <1>9, AddNamesExact
<1> QED BY <1>10 DEF st2

\* st2 is st with the names N taken from mapping m, which leaves the store
\* with its last name (removeMapping) or stays (DeleteReference).
NamesTaken(st, st2, m, N) ==
    /\ st2.mappings \in {st.mappings, st.mappings \ {m}}
    /\ st2.references \in [Pairs -> SUBSET Pairs]
    /\ \A k \in Pairs \ {m} : st2.references[k] = st.references[k]
    /\ m \notin st2.mappings => N = Names(st, m)
    /\ m \in st2.mappings => Names(st2, m) = Names(st, m) \ N /\ m \notin st2.references[m]
    /\ st2.hostToVirtual = RemoveHostNames(st.hostToVirtual, m, N)
    /\ st2.virtualToHost = RemoveVirtualNames(st.virtualToHost, m, N)

\* Taking names from a mapping keeps the lookup maps exact: no other name of
\* the mapping shares an entry with them, because no two names conflict.
LEMMA RemoveNamesExact ==
    ASSUME NEW st, StoreOK(st), Exact(st), NEW m \in st.mappings, NEW N \in SUBSET Names(st, m),
           NEW st2, NamesTaken(st, st2, m, N)
    PROVE  Exact(st2)
<1> USE DEF NamesTaken
<1> DEFINE h == st.hostToVirtual
           w == st.virtualToHost
           h2 == st2.hostToVirtual
           w2 == st2.virtualToHost
<1>0. st.mappings \subseteq Pairs /\ st.references \in [Pairs -> SUBSET Pairs] /\ m \in Pairs
  BY DEF StoreOK, Store
<1>h. HostRemoved(h2, h, m, N)
  BY <1>0, RemovedHostEntry DEF StoreOK
<1>w. VirtualRemoved(w2, w, m, N)
  BY <1>0, RemovedVirtualEntry DEF StoreOK
<1>1. \A k \in st.mappings \ {m} : k \in st2.mappings /\ Names(st2, k) = Names(st, k)
  BY <1>0 DEF Names
<1>2. ASSUME m \in st2.mappings, NEW n \in N, NEW k \in Names(st2, m)
      PROVE  Host(n) # Host(k) /\ Virtual(n) # Virtual(k)
  <2>1. k \in Names(st, m) /\ k # n
    BY <1>2
  <2> QED BY <2>1, ExactOneToOne DEF Conflicting
<1>3. ASSUME NEW o \in HostObjects
      PROVE  h2[o].owners = {k \in st2.mappings : \E n \in Names(st2, k) : Host(n) = o}
  <2>1. h[o].owners = {k \in st.mappings : \E n \in Names(st, k) : Host(n) = o}
    BY DEF Exact, OwnersExact
  <2>2. CASE \E n \in N : Host(n) = o
    <3>1. h2[o].owners = h[o].owners \ {m}
      BY <1>h, <2>2 DEF HostRemoved
    <3>2. m \in st2.mappings => \A k \in Names(st2, m) : Host(k) # o
      BY <1>2, <2>2
    <3> QED BY <1>1, <2>1, <3>1, <3>2
  <2>3. CASE \A n \in N : Host(n) # o
    <3>1. h2[o].owners = h[o].owners
      BY <1>h, <2>3 DEF HostRemoved
    <3>2. m \in st2.mappings =>
            ((\E n \in Names(st2, m) : Host(n) = o) <=> (\E n \in Names(st, m) : Host(n) = o))
      BY <2>3
    <3>3. m \notin st2.mappings => \A n \in Names(st, m) : Host(n) # o
      BY <2>3
    <3> QED BY <1>1, <2>1, <3>1, <3>2, <3>3
  <2> QED BY <2>2, <2>3
<1>4. ASSUME NEW o \in VirtualObjects
      PROVE  w2[o].owners = {k \in st2.mappings : \E n \in Names(st2, k) : Virtual(n) = o}
  <2>1. w[o].owners = {k \in st.mappings : \E n \in Names(st, k) : Virtual(n) = o}
    BY DEF Exact, OwnersExact
  <2>2. CASE \E n \in N : Virtual(n) = o
    <3>1. w2[o].owners = w[o].owners \ {m}
      BY <1>w, <2>2 DEF VirtualRemoved
    <3>2. m \in st2.mappings => \A k \in Names(st2, m) : Virtual(k) # o
      BY <1>2, <2>2
    <3> QED BY <1>1, <2>1, <3>1, <3>2
  <2>3. CASE \A n \in N : Virtual(n) # o
    <3>1. w2[o].owners = w[o].owners
      BY <1>w, <2>3 DEF VirtualRemoved
    <3>2. m \in st2.mappings =>
            ((\E n \in Names(st2, m) : Virtual(n) = o) <=> (\E n \in Names(st, m) : Virtual(n) = o))
      BY <2>3
    <3>3. m \notin st2.mappings => \A n \in Names(st, m) : Virtual(n) # o
      BY <2>3
    <3> QED BY <1>1, <2>1, <3>1, <3>2, <3>3
  <2> QED BY <2>2, <2>3
<1>5. ASSUME NEW k \in st2.mappings, NEW n \in Names(st2, k)
      PROVE  h2[Host(n)].object = n.v /\ w2[Virtual(n)].object = n.p
  <2>1. k \in st.mappings /\ n \in Names(st, k)
    BY <1>1
  <2>2. n \in Pairs
    BY <1>0, <2>1 DEF Names
  <2>3. Host(n) \in HostObjects /\ Virtual(n) \in VirtualObjects
    BY <2>2, PairObjects
  <2>4. h[Host(n)].object = n.v /\ w[Virtual(n)].object = n.p
    BY <2>1 DEF Exact, AnswersExact, HostToVirtualName, VirtualToHostName
  <2>5. h2[Host(n)].owners # {} /\ w2[Virtual(n)].owners # {}
    BY <1>3, <1>4, <2>3
  <2>6. h2[Host(n)].object = n.v
    BY <1>h, <2>3, <2>4, <2>5 DEF HostRemoved
  <2>7. w2[Virtual(n)].object = n.p
    BY <1>w, <2>3, <2>4, <2>5 DEF VirtualRemoved
  <2> QED BY <2>6, <2>7
<1>6. AnswersExact(st2)
  BY <1>5 DEF AnswersExact, HostToVirtualName, VirtualToHostName
<1>7. \A o \in HostObjects : h2[o].owners = {} => h2[o].object = None
  BY <1>h DEF HostRemoved, Exact
<1>8. \A o \in VirtualObjects : w2[o].owners = {} => w2[o].object = None
  BY <1>w DEF VirtualRemoved, Exact
<1>9. \A k \in st2.mappings : k \notin st2.references[k]
  BY <1>0 DEF Exact
<1> QED BY <1>3, <1>4, <1>6, <1>7, <1>8, <1>9 DEF Exact, OwnersExact

\* removeMapping keeps the lookup maps exact.
LEMMA RemoveMappingExact ==
    ASSUME NEW st, StoreOK(st), Exact(st), NEW m \in st.mappings
    PROVE  Exact(RemoveMapping(st, m))
<1> DEFINE st2 == RemoveMapping(st, m)
<1>1. m \in Pairs /\ st.references \in [Pairs -> SUBSET Pairs]
  BY DEF StoreOK, Store
<1>2. /\ st2.mappings = st.mappings \ {m}
      /\ st2.references = [st.references EXCEPT ![m] = {}]
      /\ st2.hostToVirtual = RemoveHostNames(st.hostToVirtual, m, Names(st, m))
      /\ st2.virtualToHost = RemoveVirtualNames(st.virtualToHost, m, Names(st, m))
  BY DEF RemoveMapping
<1> HIDE DEF st2
<1>3. NamesTaken(st, st2, m, Names(st, m))
  BY <1>1, <1>2 DEF NamesTaken
<1>4. Exact(st2)
  BY <1>3, RemoveNamesExact
<1> QED BY <1>4 DEF st2

\* DeleteReference keeps the lookup maps exact.
LEMMA DeleteReferenceExact ==
    ASSUME NEW st, StoreOK(st), Exact(st), NEW n \in Pairs, NEW b
    PROVE  Exact(DeleteReferenceFrom(st, n, b))
<1> DEFINE m == Completed(st, b)
           st2 == DeleteReferenceFrom(st, n, b)
<1>1. CASE ~Found(st, b) \/ n \notin st.references[m]
  BY <1>1 DEF DeleteReferenceFrom
<1>2. CASE Found(st, b) /\ n \in st.references[m]
  <2>1. m \in st.mappings /\ m \in Pairs /\ st \in Store
    BY <1>2, FoundIsPair DEF StoreOK
  <2>2. st2 = [st EXCEPT !.references[m] = @ \ {n},
                         !.changed[m] = TRUE,
                         !.hostToVirtual = RemoveHostNames(@, m, {n}),
                         !.virtualToHost = RemoveVirtualNames(@, m, {n})]
    BY <1>2 DEF DeleteReferenceFrom
  <2> HIDE DEF m, st2
  <2>3. /\ st2.mappings = st.mappings
        /\ st2.references = [st.references EXCEPT ![m] = @ \ {n}]
        /\ st2.hostToVirtual = RemoveHostNames(st.hostToVirtual, m, {n})
        /\ st2.virtualToHost = RemoveVirtualNames(st.virtualToHost, m, {n})
    BY <2>1, <2>2 DEF Store
  <2>4. st.references \in [Pairs -> SUBSET Pairs] /\ m \notin st.references[m] /\ n \in st.references[m]
    BY <1>2, <2>1 DEF Store, Exact, m
  <2>5. /\ st2.references \in [Pairs -> SUBSET Pairs]
        /\ \A k \in Pairs \ {m} : st2.references[k] = st.references[k]
        /\ st2.references[m] = st.references[m] \ {n}
        /\ Names(st2, m) = Names(st, m) \ {n}
    BY <2>1, <2>3, <2>4 DEF Names
  <2>6. NamesTaken(st, st2, m, {n})
    BY <2>1, <2>3, <2>4, <2>5 DEF NamesTaken
  <2>7. {n} \in SUBSET Names(st, m)
    BY <2>4 DEF Names
  <2>8. Exact(st2)
    BY <2>1, <2>6, <2>7, RemoveNamesExact
  <2> QED BY <2>8 DEF st2
<1> QED BY <1>1, <1>2

\* The owner that createMapping is about to create is not in the store yet.
LEMMA CreatedIsNew ==
    ASSUME NEW st, StoreOK(st), Exact(st), NEW n \in Pairs, NEW b,
           b.v # None /\ b.p # None => b \in Pairs,
           ~Found(st, b), ~Empty(b), NEW m \in Creatable(n, b)
    PROVE  m \notin st.mappings
<1>1. CASE b.v # None /\ b.p # None
  <2>1. m = b /\ b \in Pairs
    BY <1>1 DEF Creatable
  <2>2. Completed(st, b) = b
    BY <1>1, <2>1, PairObjects DEF Completed
  <2> QED BY <2>1, <2>2 DEF Found
<1>2. CASE ~(b.v # None /\ b.p # None)
  <2>1. m = n /\ n.kind = b.kind /\ ((b.v = None /\ b.p = n.p) \/ (b.p = None /\ b.v = n.v))
    BY <1>2 DEF Creatable
  <2>2. SUFFICES ASSUME n \in st.mappings PROVE FALSE
    BY <2>1
  <2>3. HostToVirtualName(st, Host(n)) = n.v /\ VirtualToHostName(st, Virtual(n)) = n.p
    BY <2>2 DEF Exact, AnswersExact, Names
  <2>4. n = [kind |-> n.kind, v |-> n.v, p |-> n.p] /\ n.v # None /\ n.p # None
    BY PairObjects
  <2>5. Completed(st, b) = n
    BY <2>1, <2>3, <2>4 DEF Completed, Host, Virtual
  <2> QED BY <2>2, <2>5 DEF Found
<1> QED BY <1>1, <1>2

\* AddReference keeps the lookup maps exact, provided that an owner that comes
\* with both names does not conflict: only the recorded name is checked.
LEMMA AddReferenceExact ==
    ASSUME NEW st, StoreOK(st), Exact(st), NEW n \in Pairs, NEW b,
           b.v # None /\ b.p # None => b \in Pairs,
           ~NameConflict(st, n),
           b \in Pairs /\ b # n => ~NameConflict(st, b)
    PROVE  Exact(AddReferenceTo(st, n, b))
<1> DEFINE m == Completed(st, b)
<1>1. CASE n \notin Verified \/ (Found(st, b) /\ n \in Names(st, m)) \/ (~Found(st, b) /\ Empty(b))
  BY <1>1 DEF AddReferenceTo
<1>2. CASE n \in Verified /\ ~Found(st, b) /\ ~Empty(b)
  <2>1. AddReferenceTo(st, n, b) = CreateMapping(st, n, b)
    BY <1>2 DEF AddReferenceTo
  <2>2. CASE Creatable(n, b) = {}
    BY <2>1, <2>2 DEF CreateMapping
  <2>3. CASE Creatable(n, b) # {}
    <3> DEFINE c == CHOOSE k \in Creatable(n, b) : TRUE
    <3>1. c \in Creatable(n, b)
      BY <2>3
    <3>2. CreateMapping(st, n, b) = AddMapping(st, c, {}, TRUE)
      BY <2>3, Zenon DEF CreateMapping
    <3> HIDE DEF c
    <3>3. c \in Pairs \ st.mappings
      BY <1>2, <3>1, CreatedIsNew, CreatableIsPair
    <3>4. c = n \/ (c = b /\ b \in Pairs)
      BY <3>1 DEF Creatable
    <3>5. \A k \in {c} \cup {} : ~NameConflict(st, k)
      BY <3>4
    <3>6. \A k1, k2 \in {c} \cup {} : ~Conflicting(k1, k2)
      BY DEF Conflicting
    <3>7. {} \in SUBSET Pairs /\ c \notin {} /\ TRUE \in BOOLEAN
      OBVIOUS
    <3> QED BY <2>1, <3>2, <3>3, <3>5, <3>6, <3>7, AddMappingExact, Zenon
  <2> QED BY <2>2, <2>3
<1>3. CASE n \in Verified /\ Found(st, b) /\ n \notin Names(st, m)
  <2>1. m \in st.mappings
    BY <1>3, FoundIsPair
  <2>2. AddReferenceTo(st, n, b) =
          [st EXCEPT !.references[m] = @ \cup {n},
                     !.changed[m] = TRUE,
                     !.hostToVirtual = AddHostNames(@, m, {n}),
                     !.virtualToHost = AddVirtualNames(@, m, {n})]
    BY <1>3 DEF AddReferenceTo
  <2>3. n \notin Names(st, m)
    BY <1>3, Zenon
  <2> HIDE DEF m
  <2>4. Exact([st EXCEPT !.references[m] = @ \cup {n},
                         !.changed[m] = TRUE,
                         !.hostToVirtual = AddHostNames(@, m, {n}),
                         !.virtualToHost = AddVirtualNames(@, m, {n})])
    BY <2>1, <2>3, AddReferenceNameExact, Zenon
  <2> QED BY <2>2, <2>4
<1> QED BY <1>1, <1>2, <1>3

\* What AddReference leaves alone: mappings and references only grow, and
\* whatever changes is marked as changed. The only new names are the recorded
\* one and a complete owner.
AddsOnly(st, st2, n, b) ==
    /\ st.mappings \subseteq st2.mappings
    /\ \A m \in st2.mappings \ st.mappings :
          /\ m = n \/ m = b
          /\ st2.references[m] = {} /\ st2.changed[m]
    /\ \A m \in st.mappings :
          /\ st.references[m] \subseteq st2.references[m]
          /\ st2.references[m] \subseteq st.references[m] \cup {n}
          /\ ~st2.changed[m] => st2.references[m] = st.references[m] /\ ~st.changed[m]

\* Doing nothing adds only.
LEMMA NothingAdds ==
    ASSUME NEW st, StoreOK(st), NEW n, NEW b
    PROVE  AddsOnly(st, st, n, b)
<1>1. st.mappings \subseteq Pairs /\ st.changed \in [Pairs -> BOOLEAN]
  BY DEF StoreOK, Store
<1> QED BY <1>1 DEF AddsOnly

\* AddReference adds only.
LEMMA AddReferenceAdds ==
    ASSUME NEW st, StoreOK(st), Exact(st), NEW n \in Pairs, NEW b,
           b.v # None /\ b.p # None => b \in Pairs
    PROVE  AddsOnly(st, AddReferenceTo(st, n, b), n, b)
<1> DEFINE m == Completed(st, b)
           st2 == AddReferenceTo(st, n, b)
<1>0. st \in Store
  BY DEF StoreOK
<1>1. CASE n \notin Verified \/ (Found(st, b) /\ n \in Names(st, m)) \/ (~Found(st, b) /\ Empty(b))
  <2>1. st2 = st
    BY <1>1 DEF AddReferenceTo
  <2> QED BY <2>1, NothingAdds
<1>2. CASE n \in Verified /\ ~Found(st, b) /\ ~Empty(b)
  <2>1. st2 = CreateMapping(st, n, b)
    BY <1>2 DEF AddReferenceTo
  <2>2. CASE Creatable(n, b) = {}
    <3>1. st2 = st
      BY <2>1, <2>2 DEF CreateMapping
    <3> QED BY <3>1, NothingAdds
  <2>3. CASE Creatable(n, b) # {}
    <3> DEFINE c == CHOOSE k \in Creatable(n, b) : TRUE
    <3>1. c \in Creatable(n, b)
      BY <2>3
    <3>2. st2 = AddMapping(st, c, {}, TRUE)
      BY <2>1, <2>3, Zenon DEF CreateMapping
    <3> HIDE DEF c, st2
    <3>3. c \in Pairs \ st.mappings
      BY <1>2, <3>1, CreatedIsNew, CreatableIsPair
    <3>4. c = n \/ c = b
      BY <3>1 DEF Creatable
    <3>5. /\ st2.mappings = st.mappings \cup {c}
          /\ st2.references = [st.references EXCEPT ![c] = {}]
          /\ st2.changed = [st.changed EXCEPT ![c] = TRUE]
      BY <3>2 DEF AddMapping
    <3>6. /\ st.mappings \subseteq Pairs
          /\ st.references \in [Pairs -> SUBSET Pairs]
          /\ st.changed \in [Pairs -> BOOLEAN]
      BY <1>0 DEF Store
    <3>7. AddsOnly(st, st2, n, b)
      BY <3>3, <3>4, <3>5, <3>6, SMTT(30) DEF AddsOnly
    <3> QED BY <3>7 DEF st2
  <2> QED BY <2>2, <2>3
<1>3. CASE n \in Verified /\ Found(st, b) /\ n \notin Names(st, m)
  <2>1. m \in st.mappings /\ m \in Pairs
    BY <1>3, FoundIsPair
  <2>2. st2 = [st EXCEPT !.references[m] = @ \cup {n},
                         !.changed[m] = TRUE,
                         !.hostToVirtual = AddHostNames(@, m, {n}),
                         !.virtualToHost = AddVirtualNames(@, m, {n})]
    BY <1>3 DEF AddReferenceTo
  <2> HIDE DEF m, st2
  <2>3. /\ st2.mappings = st.mappings
        /\ st2.references = [st.references EXCEPT ![m] = @ \cup {n}]
        /\ st2.changed = [st.changed EXCEPT ![m] = TRUE]
    BY <1>0, <2>1, <2>2 DEF Store
  <2>4. /\ st.mappings \subseteq Pairs
        /\ st.references \in [Pairs -> SUBSET Pairs]
        /\ st.changed \in [Pairs -> BOOLEAN]
    BY <1>0 DEF Store
  <2>5. AddsOnly(st, st2, n, b)
    BY <2>1, <2>3, <2>4 DEF AddsOnly
  <2> QED BY <2>5 DEF st2
<1> QED BY <1>1, <1>2, <1>3

-----------------------------------------------------------------------------
\* start builds a well-typed store from what etcd holds.
LEMMA LoadType ==
    ASSUME NEW be, BackendOK(be)
    PROVE  StoreOK(Load(be))
<1> DEFINE loaded == SavedMappings(be) \cap Verified
           refs == [m \in Pairs |-> IF m \in loaded THEN SavedReferences(be, m) ELSE {}]
           by(m) == {m} \cup refs[m]
           hOwners(o) == {m \in loaded : \E n \in by(m) : Host(n) = o}
           vOwners(o) == {m \in loaded : \E n \in by(m) : Virtual(n) = o}
           hName(o) == CHOOSE n \in UNION {by(m) : m \in hOwners(o)} : Host(n) = o
           vName(o) == CHOOSE n \in UNION {by(m) : m \in vOwners(o)} : Virtual(n) = o
<1>1. loaded \subseteq Pairs
  BY VerifiedArePairs
<1>2. refs \in [Pairs -> SUBSET Pairs]
  <2> SUFFICES ASSUME NEW m \in Pairs, m \in loaded PROVE SavedReferences(be, m) \subseteq Pairs
    OBVIOUS
  <2>1. Virtual(m) \in Keys
    BY PairObjects DEF Keys
  <2> QED BY <2>1 DEF BackendOK, Saved, SavedReferences
<1>3. \A m \in loaded : by(m) \subseteq Pairs
  BY <1>1, <1>2
<1>4. ASSUME NEW o \in HostObjects, hOwners(o) # {} 
      PROVE  hName(o).v \in VNames /\ [kind |-> o[1], v |-> hName(o).v, p |-> o[2]] \in Pairs
  <2>1. \E n \in UNION {by(m) : m \in hOwners(o)} : Host(n) = o
    BY <1>4, Zenon
  <2>2. hName(o) \in UNION {by(m) : m \in hOwners(o)}
    BY <2>1, Zenon
  <2>3. hName(o) \in Pairs /\ Host(hName(o)) = o
    BY <2>1, <2>2, <1>3, Zenon
  <2> HIDE DEF hName
  <2> QED BY <2>3, PairObjects DEF Host
<1>5. ASSUME NEW o \in VirtualObjects, vOwners(o) # {} 
      PROVE  vName(o).p \in HNames /\ [kind |-> o[1], v |-> o[2], p |-> vName(o).p] \in Pairs
  <2>1. \E n \in UNION {by(m) : m \in vOwners(o)} : Virtual(n) = o
    BY <1>5, Zenon
  <2>2. vName(o) \in UNION {by(m) : m \in vOwners(o)}
    BY <2>1, Zenon
  <2>3. vName(o) \in Pairs /\ Virtual(vName(o)) = o
    BY <2>1, <2>2, <1>3, Zenon
  <2> HIDE DEF vName
  <2> QED BY <2>3, PairObjects DEF Virtual
<1> DEFINE h2v == [o \in HostObjects |->
               IF hOwners(o) = {} THEN NoLookup
               ELSE [object |-> hName(o).v, owners |-> hOwners(o)]]
           v2h == [o \in VirtualObjects |->
               IF vOwners(o) = {} THEN NoLookup
               ELSE [object |-> vName(o).p, owners |-> vOwners(o)]]
<1>6. HostMapOK(h2v)
  <2> SUFFICES ASSUME NEW o \in HostObjects
               PROVE  /\ h2v[o] \in VirtualLookup
                      /\ h2v[o].object # None =>
                            [kind |-> o[1], v |-> h2v[o].object, p |-> o[2]] \in Pairs
    BY Zenon DEF HostMapOK
  <2>1. hOwners(o) \in SUBSET Pairs
    BY <1>1
  <2> HIDE DEF hOwners, hName
  <2> QED BY <2>1, <1>4 DEF VirtualLookup, NoLookup
<1>7. VirtualMapOK(v2h)
  <2> SUFFICES ASSUME NEW o \in VirtualObjects
               PROVE  /\ v2h[o] \in HostLookup
                      /\ v2h[o].object # None =>
                            [kind |-> o[1], v |-> o[2], p |-> v2h[o].object] \in Pairs
    BY Zenon DEF VirtualMapOK
  <2>1. vOwners(o) \in SUBSET Pairs
    BY <1>1
  <2> HIDE DEF vOwners, vName
  <2> QED BY <2>1, <1>5 DEF HostLookup, NoLookup
<1>8. Load(be) = [mappings |-> loaded, references |-> refs,
                  changed |-> [m \in Pairs |-> FALSE],
                  hostToVirtual |-> h2v, virtualToHost |-> v2h]
  BY Zenon DEF Load, Built, Loaded, LoadedReferences
<1> HIDE DEF loaded, refs, h2v, v2h
<1> QED BY <1>1, <1>2, <1>6, <1>7, <1>8 DEF Store, StoreOK, HostMapOK, VirtualMapOK

\* Save and Delete keep the backend well typed.
LEMMA BackendWrites ==
    ASSUME NEW be, BackendOK(be), NEW st, StoreOK(st), NEW m \in Pairs
    PROVE  BackendOK(Put(be, st, m)) /\ BackendOK(Remove(be, m))
<1>1. Virtual(m) \in Keys /\ m.p \in HNames /\ st.references[m] \in SUBSET Pairs
  BY PairObjects DEF Keys, Store, StoreOK
<1>2. SavedPair(Virtual(m), [p |-> m.p, refs |-> st.references[m]]) = m
  BY PairObjects, Zenon DEF SavedPair, Virtual
<1>3. BackendOK(Put(be, st, m))
  <2>1. Put(be, st, m) \in [Keys -> Saved]
    BY <1>1 DEF BackendOK, Put, Saved
  <2>2. ASSUME NEW key \in Keys, Put(be, st, m)[key].p # None
        PROVE  SavedPair(key, Put(be, st, m)[key]) \in Pairs
    BY <1>1, <1>2, <2>2 DEF BackendOK, Put
  <2> QED BY <2>1, <2>2 DEF BackendOK
<1>4. BackendOK(Remove(be, m))
  <2>1. Remove(be, m) \in [Keys -> Saved]
    BY <1>1 DEF BackendOK, Remove, Saved, NothingSaved
  <2>2. ASSUME NEW key \in Keys, Remove(be, m)[key].p # None
        PROVE  SavedPair(key, Remove(be, m)[key]) \in Pairs
    BY <1>1, <2>2 DEF BackendOK, Remove, NothingSaved
  <2> QED BY <2>1, <2>2 DEF BackendOK
<1> QED BY <1>3, <1>4

\* What etcd holds is in memory, up to the references in extra.
KnownIn(be, st, m, extra) ==
    m \in st.mappings /\ SavedReferences(be, m) \subseteq st.references[m] \cup extra

\* A saved mapping is a pair, and is what its key holds.
LEMMA SavedIsPair ==
    ASSUME NEW be, BackendOK(be), NEW m \in SavedMappings(be)
    PROVE  m \in Pairs /\ Virtual(m) \in Keys /\ be[Virtual(m)].p = m.p
<1>1. PICK k \in Keys : be[k].p # None /\ m = SavedPair(k, be[k])
  BY DEF SavedMappings
<1>2. m \in Pairs
  BY <1>1 DEF BackendOK
<1>3. Virtual(m) = k
  BY <1>1 DEF SavedPair, Virtual, Keys, VirtualObjects
<1> QED BY <1>1, <1>2, <1>3 DEF SavedPair

\* What Save leaves under the keys.
PutOK(be2, be, st, m) ==
    /\ \A n \in SavedMappings(be2) : n = m \/ (n \in SavedMappings(be) /\ Virtual(n) # Virtual(m))
    /\ be2[Virtual(m)] = [p |-> m.p, refs |-> st.references[m]]
    /\ \A n \in Pairs : Virtual(n) # Virtual(m) => be2[Virtual(n)] = be[Virtual(n)]

\* What Delete leaves under the keys.
RemoveOK(be2, be, m) ==
    /\ \A n \in SavedMappings(be2) : n \in SavedMappings(be) /\ Virtual(n) # Virtual(m)
    /\ \A n \in Pairs : Virtual(n) # Virtual(m) => be2[Virtual(n)] = be[Virtual(n)]

\* Save writes one key.
LEMMA PutKeys ==
    ASSUME NEW be, BackendOK(be), NEW st, StoreOK(st), NEW m \in Pairs
    PROVE  PutOK(Put(be, st, m), be, st, m)
<1> DEFINE be2 == Put(be, st, m)
<1>1. Virtual(m) \in Keys /\ be \in [Keys -> Saved] /\ m = [kind |-> m.kind, v |-> m.v, p |-> m.p]
  BY PairObjects DEF Keys, BackendOK
<1>2. \A k \in Keys : be2[k] = IF k = Virtual(m) THEN [p |-> m.p, refs |-> st.references[m]] ELSE be[k]
  BY <1>1 DEF Put
<1>3. ASSUME NEW n \in SavedMappings(be2)
      PROVE  n = m \/ (n \in SavedMappings(be) /\ Virtual(n) # Virtual(m))
  <2>1. PICK k \in Keys : be2[k].p # None /\ n = SavedPair(k, be2[k])
    BY <1>3 DEF SavedMappings
  <2>2. Virtual(n) = k
    BY <2>1 DEF SavedPair, Virtual, Keys, VirtualObjects
  <2>3. CASE k = Virtual(m)
    <3>1. n = SavedPair(Virtual(m), [p |-> m.p, refs |-> st.references[m]])
      BY <2>1, <2>3, <1>1, <1>2
    <3> QED BY <3>1, <1>1 DEF SavedPair, Virtual
  <2>4. CASE k # Virtual(m)
    <3>1. be2[k] = be[k]
      BY <1>2, <2>4
    <3> QED BY <2>1, <2>2, <2>4, <3>1 DEF SavedMappings
  <2> QED BY <2>3, <2>4
<1>4. \A n \in Pairs : Virtual(n) \in Keys
  BY PairObjects DEF Keys
<1> QED BY <1>1, <1>2, <1>3, <1>4 DEF PutOK

\* Delete clears one key.
LEMMA RemoveKeys ==
    ASSUME NEW be, BackendOK(be), NEW m \in Pairs
    PROVE  RemoveOK(Remove(be, m), be, m)
<1> DEFINE be2 == Remove(be, m)
<1>1. Virtual(m) \in Keys /\ be \in [Keys -> Saved]
  BY PairObjects DEF Keys, BackendOK
<1>2. \A k \in Keys : be2[k] = IF k = Virtual(m) THEN NothingSaved ELSE be[k]
  BY <1>1 DEF Remove
<1>3. ASSUME NEW n \in SavedMappings(be2)
      PROVE  n \in SavedMappings(be) /\ Virtual(n) # Virtual(m)
  <2>1. PICK k \in Keys : be2[k].p # None /\ n = SavedPair(k, be2[k])
    BY <1>3 DEF SavedMappings
  <2>2. Virtual(n) = k
    BY <2>1 DEF SavedPair, Virtual, Keys, VirtualObjects
  <2>3. k # Virtual(m) /\ be2[k] = be[k]
    BY <2>1, <1>2 DEF NothingSaved
  <2> QED BY <2>1, <2>2, <2>3 DEF SavedMappings
<1>4. \A n \in Pairs : Virtual(n) \in Keys
  BY SMTT(30), PairObjects DEF Keys
<1> QED BY <1>1, <1>2, <1>3, <1>4 DEF RemoveOK

\* What start loads.
LEMMA LoadFields ==
    ASSUME NEW be
    PROVE  /\ Load(be).mappings = Loaded(be)
           /\ \A m \in Pairs : Load(be).references[m] = IF m \in Loaded(be) THEN SavedReferences(be, m) ELSE {}
           /\ \A m \in Pairs : ~Load(be).changed[m]
           /\ \A m \in Loaded(be) : m \in Pairs
BY VerifiedArePairs DEF Load, Built, Loaded, LoadedReferences

\* start builds an exact store from a backend without conflicting names.
LEMMA LoadExact ==
    ASSUME NEW be, BackendOK(be), Sound(be)
    PROVE  Exact(Load(be))
<1> DEFINE loaded == SavedMappings(be) \cap Verified
           refs == [m \in Pairs |-> IF m \in loaded THEN SavedReferences(be, m) ELSE {}]
           by(m) == {m} \cup refs[m]
           hOwners(o) == {m \in loaded : \E n \in by(m) : Host(n) = o}
           vOwners(o) == {m \in loaded : \E n \in by(m) : Virtual(n) = o}
           hNames(o) == UNION {by(m) : m \in hOwners(o)}
           hName(o) == CHOOSE n \in hNames(o) : Host(n) = o
           vNames(o) == UNION {by(m) : m \in vOwners(o)}
           vName(o) == CHOOSE n \in vNames(o) : Virtual(n) = o
           h2v == [o \in HostObjects |->
               IF hOwners(o) = {} THEN NoLookup
               ELSE [object |-> hName(o).v, owners |-> hOwners(o)]]
           v2h == [o \in VirtualObjects |->
               IF vOwners(o) = {} THEN NoLookup
               ELSE [object |-> vName(o).p, owners |-> vOwners(o)]]
           L == Load(be)
<1>1. L = [mappings |-> loaded, references |-> refs,
           changed |-> [m \in Pairs |-> FALSE],
           hostToVirtual |-> h2v, virtualToHost |-> v2h]
  BY Zenon DEF Load, Built, Loaded, LoadedReferences
<1>2. /\ L.mappings = loaded
      /\ L.references = refs
      /\ L.hostToVirtual = h2v
      /\ L.virtualToHost = v2h
  <2> HIDE DEF loaded, refs, h2v, v2h, L
  <2> QED BY <1>1
<1>3. loaded \subseteq Pairs
  BY VerifiedArePairs
<1>4. \A m \in loaded : refs[m] = SavedReferences(be, m) /\ by(m) \subseteq Pairs /\ by(m) \subseteq SavedNames(be)
  <2> SUFFICES ASSUME NEW m \in loaded
               PROVE  refs[m] = SavedReferences(be, m) /\ by(m) \subseteq Pairs /\ by(m) \subseteq SavedNames(be)
    OBVIOUS
  <2>1. refs[m] = SavedReferences(be, m) /\ m \in Pairs
    BY <1>3
  <2>2. SavedReferences(be, m) \subseteq Pairs
    BY SMTT(30), <2>1, PairObjects DEF SavedReferences, BackendOK, Saved, Keys
  <2> QED BY <2>1, <2>2 DEF SavedNames, Loaded
<1>5. \A m \in loaded : Names(L, m) = by(m)
  BY SMTT(30), <1>2 DEF Names
<1>6. /\ \A o \in HostObjects : L.hostToVirtual[o].owners = hOwners(o)
      /\ \A o \in VirtualObjects : L.virtualToHost[o].owners = vOwners(o)
  <2> HIDE DEF L, hOwners, vOwners, hName, vName
  <2> QED BY <1>2, SMTT(30) DEF NoLookup
<1>7. OwnersExact(L)
  <2> HIDE DEF L, loaded, by
  <2> QED BY <1>2, <1>5, <1>6, SMTT(30) DEF OwnersExact
<1>8. ASSUME NEW m \in loaded, NEW n \in by(m)
      PROVE  /\ HostToVirtualName(L, Host(n)) = n.v
             /\ VirtualToHostName(L, Virtual(n)) = n.p
  <2> HIDE DEF loaded, refs, by
  <2>1. n \in Pairs /\ n \in SavedNames(be) /\ Host(n) \in HostObjects /\ Virtual(n) \in VirtualObjects
    BY <1>4, <1>8, PairObjects
  <2>2. hName(Host(n)) = n
    <3>1. m \in hOwners(Host(n))
      BY <1>8
    <3>2. n \in hNames(Host(n)) /\ hNames(Host(n)) \subseteq SavedNames(be)
      BY <3>1, <1>8, <1>4
    <3> HIDE DEF hNames
    <3>3. hName(Host(n)) \in hNames(Host(n)) /\ Host(hName(Host(n))) = Host(n)
      BY <3>2
    <3>4. hName(Host(n)) \in SavedNames(be)
      BY <3>2, <3>3
    <3> QED BY <2>1, <3>3, <3>4 DEF Sound, Conflicting
  <2>3. vName(Virtual(n)) = n
    <3>1. m \in vOwners(Virtual(n))
      BY <1>8
    <3>2. n \in vNames(Virtual(n)) /\ vNames(Virtual(n)) \subseteq SavedNames(be)
      BY <3>1, <1>8, <1>4
    <3> HIDE DEF vNames
    <3>3. vName(Virtual(n)) \in vNames(Virtual(n)) /\ Virtual(vName(Virtual(n))) = Virtual(n)
      BY <3>2
    <3>4. vName(Virtual(n)) \in SavedNames(be)
      BY <3>2, <3>3
    <3> QED BY <2>1, <3>3, <3>4 DEF Sound, Conflicting
  <2>4. hOwners(Host(n)) # {} /\ vOwners(Virtual(n)) # {}
    BY <1>8
  <2> HIDE DEF hOwners, vOwners, hName, vName, L
  <2> QED BY <1>2, <2>1, <2>2, <2>3, <2>4, SMTT(30) DEF HostToVirtualName, VirtualToHostName
<1>9. AnswersExact(L)
  <2> HIDE DEF L, loaded, by
  <2> QED BY <1>2, <1>5, <1>8, SMTT(30) DEF AnswersExact
<1>10. /\ \A o \in HostObjects : L.hostToVirtual[o].owners = {} => L.hostToVirtual[o].object = None
       /\ \A o \in VirtualObjects : L.virtualToHost[o].owners = {} => L.virtualToHost[o].object = None
  <2> HIDE DEF L, hOwners, vOwners, hName, vName
  <2> QED BY <1>2, <1>6, SMTT(30) DEF NoLookup
<1>11. \A m \in L.mappings : m \notin L.references[m]
  <2> HIDE DEF L, refs
  <2> QED BY <1>2, <1>4 DEF Sound, Loaded
<1> HIDE DEF L
<1>12. Exact(L)
  BY <1>7, <1>9, <1>10, <1>11 DEF Exact
<1> QED BY <1>12 DEF L

\* The conditions under which what etcd holds, up to the references in extra,
\* is as free of conflicts as the memory.
KnownUpTo(be, st, extra) == \A m \in Loaded(be) : KnownIn(be, st, m, extra)

Agreeing(st, extra) ==
    /\ \A e \in extra : \A m \in st.mappings : \A n \in Names(st, m) : ~Conflicting(e, n)
    /\ \A e \in extra : e \notin st.mappings
    /\ \A e, f \in extra : e = f

\* A backend that the memory knows is sound.
LEMMA KnownIsSound ==
    ASSUME NEW st, StoreOK(st), Exact(st), NEW be, NEW extra,
           KnownUpTo(be, st, extra), Agreeing(st, extra)
    PROVE  Sound(be)
<1>1. ASSUME NEW n \in SavedNames(be)
      PROVE  n \in extra \/ (\E m \in st.mappings : n \in Names(st, m))
  <2>1. PICK m \in Loaded(be) : n \in {m} \cup SavedReferences(be, m)
    BY DEF SavedNames, Loaded
  <2> QED BY <2>1 DEF KnownUpTo, KnownIn, Names
<1>2. ASSUME NEW a \in SavedNames(be), NEW b \in SavedNames(be) PROVE ~Conflicting(a, b)
  <2>1. CASE a \in extra /\ b \in extra
    BY <2>1 DEF Agreeing, Conflicting
  <2>2. CASE a \in extra /\ b \notin extra
    BY <2>2, <1>1 DEF Agreeing
  <2>3. CASE a \notin extra /\ b \in extra
    BY <2>3, <1>1 DEF Agreeing, Conflicting
  <2>4. CASE a \notin extra /\ b \notin extra
    BY <2>4, <1>1, ExactOneToOne
  <2> QED BY <2>1, <2>2, <2>3, <2>4
<1>3. ASSUME NEW m \in Loaded(be) PROVE m \notin SavedReferences(be, m)
  BY DEF KnownUpTo, KnownIn, Agreeing, Exact
<1> QED BY <1>2, <1>3 DEF Sound

\* Saving a mapping of the memory, and deleting, keep etcd known.
LEMMA KnownPut ==
    ASSUME NEW be, BackendOK(be), NEW st, StoreOK(st), NEW extra, KnownUpTo(be, st, extra),
           NEW m \in st.mappings
    PROVE  KnownUpTo(Put(be, st, m), st, extra)
<1> DEFINE be2 == Put(be, st, m)
<1>1. m \in Pairs
  BY DEF StoreOK, Store
<1>2. PutOK(be2, be, st, m)
  BY <1>1, PutKeys
<1> HIDE DEF be2
<1> SUFFICES ASSUME NEW n \in Loaded(be2) PROVE KnownIn(be2, st, n, extra)
  BY DEF KnownUpTo, be2
<1>3. n \in Pairs
  BY VerifiedArePairs DEF Loaded
<1>4. CASE n = m
  BY <1>1, <1>2, <1>4 DEF PutOK, KnownIn, SavedReferences
<1>5. CASE n # m
  <2>1. n \in Loaded(be) /\ be2[Virtual(n)] = be[Virtual(n)]
    BY <1>2, <1>3, <1>5 DEF PutOK, Loaded
  <2> QED BY <2>1 DEF KnownUpTo, KnownIn, SavedReferences
<1> QED BY <1>4, <1>5

\* The same for a delete, whether or not the memory follows.
LEMMA KnownRemove ==
    ASSUME NEW be, BackendOK(be), NEW st, StoreOK(st), NEW extra, KnownUpTo(be, st, extra),
           NEW m \in Pairs
    PROVE  /\ KnownUpTo(Remove(be, m), st, extra)
           /\ KnownUpTo(Remove(be, m), RemoveMapping(st, m), extra)
<1> DEFINE be2 == Remove(be, m)
           st2 == RemoveMapping(st, m)
<1>1. RemoveOK(be2, be, m)
  BY RemoveKeys
<1>2. /\ st2.mappings = st.mappings \ {m}
      /\ st2.references = [st.references EXCEPT ![m] = {}]
  BY DEF RemoveMapping
<1>3. st.references \in [Pairs -> SUBSET Pairs]
  BY DEF StoreOK, Store
<1> HIDE DEF be2, st2
<1>4. ASSUME NEW n \in Loaded(be2)
      PROVE  KnownIn(be2, st, n, extra) /\ KnownIn(be2, st2, n, extra)
  <2>1. n \in Pairs
    BY VerifiedArePairs DEF Loaded
  <2>2. n \in Loaded(be) /\ n # m /\ be2[Virtual(n)] = be[Virtual(n)]
    BY <1>1, <2>1 DEF RemoveOK, Loaded
  <2> QED BY <1>2, <1>3, <2>1, <2>2 DEF KnownUpTo, KnownIn, SavedReferences
<1> QED BY <1>4 DEF KnownUpTo, be2, st2

\* An answer of the lookup maps is a name of a mapping.
LEMMA AnswerIsName ==
    ASSUME NEW st, StoreOK(st), Exact(st)
    PROVE  /\ \A o \in VirtualObjects : VirtualToHostName(st, o) # None =>
                \E m \in st.mappings : [kind |-> o[1], v |-> o[2], p |-> VirtualToHostName(st, o)] \in Names(st, m)
           /\ \A o \in HostObjects : HostToVirtualName(st, o) # None =>
                \E m \in st.mappings : [kind |-> o[1], v |-> HostToVirtualName(st, o), p |-> o[2]] \in Names(st, m)
<1>1. ASSUME NEW o \in VirtualObjects, VirtualToHostName(st, o) # None
      PROVE  \E m \in st.mappings : [kind |-> o[1], v |-> o[2], p |-> VirtualToHostName(st, o)] \in Names(st, m)
  <2>1. st.virtualToHost[o].owners # {}
    BY <1>1 DEF Exact, VirtualToHostName
  <2>2. PICK m \in st.mappings : \E n \in Names(st, m) : Virtual(n) = o
    BY <2>1 DEF Exact, OwnersExact
  <2>3. PICK n \in Names(st, m) : Virtual(n) = o
    BY <2>2
  <2>4. n \in Pairs
    BY DEF Names, StoreOK, Store
  <2>5. VirtualToHostName(st, o) = n.p
    BY <2>3 DEF Exact, AnswersExact
  <2>6. n = [kind |-> o[1], v |-> o[2], p |-> n.p]
    BY <2>3, <2>4, PairObjects DEF Virtual
  <2> QED BY <2>3, <2>5, <2>6
<1>2. ASSUME NEW o \in HostObjects, HostToVirtualName(st, o) # None
      PROVE  \E m \in st.mappings : [kind |-> o[1], v |-> HostToVirtualName(st, o), p |-> o[2]] \in Names(st, m)
  <2>1. st.hostToVirtual[o].owners # {}
    BY <1>2 DEF Exact, HostToVirtualName
  <2>2. PICK m \in st.mappings : \E n \in Names(st, m) : Host(n) = o
    BY <2>1 DEF Exact, OwnersExact
  <2>3. PICK n \in Names(st, m) : Host(n) = o
    BY <2>2
  <2>4. n \in Pairs
    BY DEF Names, StoreOK, Store
  <2>5. HostToVirtualName(st, o) = n.v
    BY <2>3 DEF Exact, AnswersExact
  <2>6. n = [kind |-> o[1], v |-> n.v, p |-> o[2]]
    BY <2>3, <2>4, PairObjects DEF Host
  <2> QED BY <2>3, <2>5, <2>6
<1> QED BY <1>1, <1>2

-----------------------------------------------------------------------------
(* The lists of the lookup maps, which stay exact even where names conflict *)
(* and the answers do not.                                                  *)

\* addMapping enters a new mapping under exactly its names.
LEMMA AddMappingOwners ==
    ASSUME NEW st, StoreOK(st), OwnersExact(st), NEW m \in Pairs \ st.mappings,
           NEW refs \in SUBSET Pairs, NEW dirty
    PROVE  OwnersExact(AddMapping(st, m, refs, dirty))
<1> DEFINE st2 == AddMapping(st, m, refs, dirty)
           N == {m} \cup refs
<1>1. /\ st2.mappings = st.mappings \cup {m}
      /\ st2.references = [st.references EXCEPT ![m] = refs]
      /\ st2.hostToVirtual = AddHostNames(st.hostToVirtual, m, N)
      /\ st2.virtualToHost = AddVirtualNames(st.virtualToHost, m, N)
  BY DEF AddMapping
<1> HIDE DEF st2
<1>2. st.references \in [Pairs -> SUBSET Pairs] /\ st.mappings \subseteq Pairs
  BY DEF StoreOK, Store
<1>3. Names(st2, m) = N /\ \A k \in st.mappings : Names(st2, k) = Names(st, k)
  BY <1>1, <1>2 DEF Names
<1>4. /\ HostAdded(st2.hostToVirtual, st.hostToVirtual, m, N)
      /\ VirtualAdded(st2.virtualToHost, st.virtualToHost, m, N)
  BY SMTT(30), <1>1, AddedHostEntry, AddedVirtualEntry
<1> HIDE DEF N
<1>5. ASSUME NEW o \in HostObjects
      PROVE  st2.hostToVirtual[o].owners = {k \in st2.mappings : \E n \in Names(st2, k) : Host(n) = o}
  BY <1>1, <1>3, <1>4 DEF HostAdded, OwnersExact
<1>6. ASSUME NEW o \in VirtualObjects
      PROVE  st2.virtualToHost[o].owners = {k \in st2.mappings : \E n \in Names(st2, k) : Virtual(n) = o}
  BY <1>1, <1>3, <1>4 DEF VirtualAdded, OwnersExact
<1>7. OwnersExact(st2)
  BY <1>5, <1>6 DEF OwnersExact
<1> QED BY <1>7 DEF st2

\* removeMapping takes a mapping off every list that it was on.
LEMMA RemoveMappingOwners ==
    ASSUME NEW st, StoreOK(st), OwnersExact(st), NEW m \in st.mappings
    PROVE  OwnersExact(RemoveMapping(st, m))
<1> DEFINE st2 == RemoveMapping(st, m)
           N == Names(st, m)
<1>1. /\ st2.mappings = st.mappings \ {m}
      /\ st2.references = [st.references EXCEPT ![m] = {}]
      /\ st2.hostToVirtual = RemoveHostNames(st.hostToVirtual, m, N)
      /\ st2.virtualToHost = RemoveVirtualNames(st.virtualToHost, m, N)
  BY DEF RemoveMapping
<1> HIDE DEF st2
<1>2. st.references \in [Pairs -> SUBSET Pairs] /\ st.mappings \subseteq Pairs /\ m \in Pairs
  BY DEF StoreOK, Store
<1>3. \A k \in st2.mappings : Names(st2, k) = Names(st, k)
  BY <1>1, <1>2 DEF Names
<1>4. /\ HostRemoved(st2.hostToVirtual, st.hostToVirtual, m, N)
      /\ VirtualRemoved(st2.virtualToHost, st.virtualToHost, m, N)
  BY <1>1, <1>2, RemovedHostEntry, RemovedVirtualEntry DEF StoreOK
<1> HIDE DEF N
<1>5. ASSUME NEW o \in HostObjects
      PROVE  st2.hostToVirtual[o].owners = {k \in st2.mappings : \E n \in Names(st2, k) : Host(n) = o}
  BY <1>1, <1>3, <1>4 DEF HostRemoved, OwnersExact, N
<1>6. ASSUME NEW o \in VirtualObjects
      PROVE  st2.virtualToHost[o].owners = {k \in st2.mappings : \E n \in Names(st2, k) : Virtual(n) = o}
  BY <1>1, <1>3, <1>4 DEF VirtualRemoved, OwnersExact, N
<1>7. OwnersExact(st2)
  BY <1>5, <1>6 DEF OwnersExact
<1> QED BY SMTT(30), <1>7 DEF st2

\* A complete owner stands for itself (findMapping).
LEMMA CompletedPair ==
    ASSUME NEW st, NEW b \in Pairs
    PROVE  Completed(st, b) = b /\ (Found(st, b) <=> b \in st.mappings) /\ Creatable(b, b) = {b}
<1>1. b.v # None /\ b.p # None /\ b = [kind |-> b.kind, v |-> b.v, p |-> b.p]
  BY PairObjects
<1>2. Completed(st, b) = b
  BY <1>1 DEF Completed
<1> QED BY <1>1, <1>2 DEF Found, Empty, Creatable

\* AddReference with a complete owner enters the owner, or the name for it.
LEMMA AddReferenceOwners ==
    ASSUME NEW st, StoreOK(st), OwnersExact(st), NEW n \in Pairs, NEW b \in Pairs
    PROVE  OwnersExact(AddReferenceTo(st, n, b))
<1> DEFINE st2 == AddReferenceTo(st, n, b)
<1>0. Completed(st, b) = b /\ (Found(st, b) <=> b \in st.mappings) /\ ~Empty(b) /\ Creatable(n, b) = {b}
  BY CompletedPair, PairObjects DEF Empty, Creatable
<1>1. CASE n \notin Verified \/ (b \in st.mappings /\ n \in Names(st, b))
  BY <1>0, <1>1 DEF AddReferenceTo
<1>2. CASE n \in Verified /\ b \notin st.mappings
  <2>1. st2 = AddMapping(st, b, {}, TRUE)
    BY Zenon, <1>0, <1>2 DEF AddReferenceTo, CreateMapping
  <2> QED BY Zenon, <1>2, <2>1, AddMappingOwners
<1>3. CASE n \in Verified /\ b \in st.mappings /\ n \notin Names(st, b)
  <2>1. st2 = [st EXCEPT !.references[b] = @ \cup {n},
                         !.changed[b] = TRUE,
                         !.hostToVirtual = AddHostNames(@, b, {n}),
                         !.virtualToHost = AddVirtualNames(@, b, {n})]
    BY <1>0, <1>3 DEF AddReferenceTo
  <2>2. st \in Store
    BY DEF StoreOK
  <2> HIDE DEF st2
  <2>3. /\ st2.mappings = st.mappings
        /\ st2.references = [st.references EXCEPT ![b] = @ \cup {n}]
        /\ st2.hostToVirtual = AddHostNames(st.hostToVirtual, b, {n})
        /\ st2.virtualToHost = AddVirtualNames(st.virtualToHost, b, {n})
    BY <2>1, <2>2 DEF Store
  <2>4. st.references \in [Pairs -> SUBSET Pairs] /\ st.mappings \subseteq Pairs
    BY <2>2 DEF Store
  <2>5. /\ Names(st2, b) = Names(st, b) \cup {n}
        /\ \A k \in st.mappings \ {b} : Names(st2, k) = Names(st, k)
    BY <2>3, <2>4, <1>3 DEF Names
  <2>6. /\ HostAdded(st2.hostToVirtual, st.hostToVirtual, b, {n})
        /\ VirtualAdded(st2.virtualToHost, st.virtualToHost, b, {n})
    BY <2>3, AddedHostEntry, AddedVirtualEntry
  <2>7. ASSUME NEW o \in HostObjects
        PROVE  st2.hostToVirtual[o].owners = {k \in st2.mappings : \E x \in Names(st2, k) : Host(x) = o}
    <3>1. st.hostToVirtual[o].owners = {k \in st.mappings : \E x \in Names(st, k) : Host(x) = o}
      BY DEF OwnersExact
    <3>2. st2.hostToVirtual[o].owners = IF Host(n) = o THEN st.hostToVirtual[o].owners \cup {b} ELSE st.hostToVirtual[o].owners
      BY Zenon, <2>6 DEF HostAdded
    <3>3. ASSUME NEW k \in st.mappings
          PROVE  (\E x \in Names(st2, k) : Host(x) = o) <=>
                     ((k = b /\ Host(n) = o) \/ \E x \in Names(st, k) : Host(x) = o)
      BY <2>5
    <3> QED BY <1>3, <2>3, <3>1, <3>2, <3>3
  <2>8. ASSUME NEW o \in VirtualObjects
        PROVE  st2.virtualToHost[o].owners = {k \in st2.mappings : \E x \in Names(st2, k) : Virtual(x) = o}
    <3>1. st.virtualToHost[o].owners = {k \in st.mappings : \E x \in Names(st, k) : Virtual(x) = o}
      BY DEF OwnersExact
    <3>2. st2.virtualToHost[o].owners = IF Virtual(n) = o THEN st.virtualToHost[o].owners \cup {b} ELSE st.virtualToHost[o].owners
      BY Zenon, <2>6 DEF VirtualAdded
    <3>3. ASSUME NEW k \in st.mappings
          PROVE  (\E x \in Names(st2, k) : Virtual(x) = o) <=>
                     ((k = b /\ Virtual(n) = o) \/ \E x \in Names(st, k) : Virtual(x) = o)
      BY <2>5
    <3> QED BY <1>3, <2>3, <3>1, <3>2, <3>3
  <2>9. OwnersExact(st2)
    BY <2>7, <2>8 DEF OwnersExact
  <2> QED BY <2>9 DEF st2
<1> QED BY <1>1, <1>2, <1>3

\* start enters every mapping under exactly its names, whatever etcd holds.
LEMMA LoadOwners ==
    ASSUME NEW be
    PROVE  OwnersExact(Load(be))
<1> DEFINE loaded == Loaded(be)
           refs == LoadedReferences(be)
           by(m) == {m} \cup refs[m]
           hOwners(o) == {m \in loaded : \E n \in by(m) : Host(n) = o}
           vOwners(o) == {m \in loaded : \E n \in by(m) : Virtual(n) = o}
           hName(o) == CHOOSE n \in UNION {by(m) : m \in hOwners(o)} : Host(n) = o
           vName(o) == CHOOSE n \in UNION {by(m) : m \in vOwners(o)} : Virtual(n) = o
           h2v == [o \in HostObjects |->
               IF hOwners(o) = {} THEN NoLookup ELSE [object |-> hName(o).v, owners |-> hOwners(o)]]
           v2h == [o \in VirtualObjects |->
               IF vOwners(o) = {} THEN NoLookup ELSE [object |-> vName(o).p, owners |-> vOwners(o)]]
           L == Load(be)
<1>1. L = [mappings |-> loaded, references |-> refs, changed |-> [m \in Pairs |-> FALSE],
           hostToVirtual |-> h2v, virtualToHost |-> v2h]
  BY Zenon DEF Load, Built
<1>2. L.mappings = loaded /\ L.references = refs /\ L.hostToVirtual = h2v /\ L.virtualToHost = v2h
  <2> HIDE DEF loaded, refs, h2v, v2h, L
  <2> QED BY <1>1
<1>3. \A m \in loaded : Names(L, m) = by(m)
  <2> HIDE DEF loaded, L
  <2> QED BY <1>2 DEF Names
<1>4. /\ \A o \in HostObjects : L.hostToVirtual[o].owners = hOwners(o)
      /\ \A o \in VirtualObjects : L.virtualToHost[o].owners = vOwners(o)
  <2> HIDE DEF L, hOwners, vOwners, hName, vName
  <2> QED BY <1>2, SMTT(30) DEF NoLookup
<1> HIDE DEF L, loaded, by
<1>5. OwnersExact(L)
  BY <1>2, <1>3, <1>4, SMTT(30) DEF OwnersExact
<1> QED BY <1>5 DEF L

=============================================================================
