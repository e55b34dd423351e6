------------------------------ MODULE NameStore ------------------------------
(***************************************************************************)
(* The in-memory part of the mappings store: which virtual object is which *)
(* host object (pkg/mappings/store/store.go, util.go, and NameMapping in   *)
(* pkg/syncer/synccontext/mapper.go).                                      *)
(*                                                                         *)
(* A store is a record; every operator here maps a store to a store, so    *)
(* that one process (MappingStore) and several replicas                    *)
(* (MappingReplication) use the same definitions.                          *)
(***************************************************************************)
EXTENDS Naturals, FiniteSets

CONSTANTS
    Kinds,      \* group-version-kinds
    VNames,     \* namespaced names in the virtual cluster
    HNames,     \* namespaced names in the host cluster
    None,       \* the empty name
    Pairs,      \* the complete name mappings that can come up
    Verified    \* the pairs whose host object verifyMapping accepts

NameMapping == [kind: Kinds, v: VNames \cup {None}, p: HNames \cup {None}]

ASSUME NoneIsNoName == None \notin VNames \cup HNames
ASSUME PairsAreComplete == Pairs \subseteq [kind: Kinds, v: VNames, p: HNames]
ASSUME VerifiedArePairs == Verified \subseteq Pairs

Virtual(n) == <<n.kind, n.v>>
Host(n) == <<n.kind, n.p>>
VirtualObjects == Kinds \X VNames
HostObjects == Kinds \X HNames

Empty(n) == n.v = None /\ n.p = None

\* Two mappings conflict when they share one side and differ on the other.
Conflicting(m, n) ==
    /\ m # n
    /\ Virtual(m) = Virtual(n) \/ Host(m) = Host(n)

\* lookupName: the answer, and the mappings that need it. The code deletes an
\* entry with no mappings left; here such an entry is NoLookup.
VirtualLookup == [object: VNames \cup {None}, owners: SUBSET Pairs]
HostLookup == [object: HNames \cup {None}, owners: SUBSET Pairs]
NoLookup == [object |-> None, owners |-> {}]

\* References and lookup lists are slices in the code. They are sets here: a
\* reference is only appended when it is not there yet, removal drops every
\* equal entry, and nothing reads their order.
Store == [mappings: SUBSET Pairs,
          references: [Pairs -> SUBSET Pairs],
          changed: [Pairs -> BOOLEAN],
          hostToVirtual: [HostObjects -> VirtualLookup],
          virtualToHost: [VirtualObjects -> HostLookup]]

EmptyStore == [mappings |-> {},
               references |-> [m \in Pairs |-> {}],
               changed |-> [m \in Pairs |-> FALSE],
               hostToVirtual |-> [o \in HostObjects |-> NoLookup],
               virtualToHost |-> [o \in VirtualObjects |-> NoLookup]]

\* Every name a mapping puts into the lookup maps.
Names(st, m) == {m} \cup st.references[m]

-----------------------------------------------------------------------------
(* addMappingToNameMap for the names N of mapping m: the first name to use  *)
(* an entry decides its answer, m's own name before its references.         *)
FirstBy(N, m, hit) == IF m \in N \cap hit THEN m ELSE CHOOSE n \in N \cap hit : TRUE

AddHostNames(map, m, N) ==
    [o \in HostObjects |->
        LET hit == {n \in N : Host(n) = o} IN
        IF hit = {} THEN map[o]
        ELSE [object |-> IF map[o].owners = {} THEN FirstBy(N, m, hit).v ELSE map[o].object,
              owners |-> map[o].owners \cup {m}]]

AddVirtualNames(map, m, N) ==
    [o \in VirtualObjects |->
        LET hit == {n \in N : Virtual(n) = o} IN
        IF hit = {} THEN map[o]
        ELSE [object |-> IF map[o].owners = {} THEN FirstBy(N, m, hit).p ELSE map[o].object,
              owners |-> map[o].owners \cup {m}]]

(* removeMappingFromNameMap for the names N of mapping m. *)
Without(lookup, m) ==
    IF lookup.owners \subseteq {m} THEN NoLookup ELSE [lookup EXCEPT !.owners = @ \ {m}]

RemoveHostNames(map, m, N) ==
    [o \in HostObjects |-> IF \E n \in N : Host(n) = o THEN Without(map[o], m) ELSE map[o]]

RemoveVirtualNames(map, m, N) ==
    [o \in VirtualObjects |-> IF \E n \in N : Virtual(n) = o THEN Without(map[o], m) ELSE map[o]]

AddMapping(st, m, refs, dirty) ==
    [mappings |-> st.mappings \cup {m},
     references |-> [st.references EXCEPT ![m] = refs],
     changed |-> [st.changed EXCEPT ![m] = dirty],
     hostToVirtual |-> AddHostNames(st.hostToVirtual, m, {m} \cup refs),
     virtualToHost |-> AddVirtualNames(st.virtualToHost, m, {m} \cup refs)]

\* Faulty variant: only the mapping's own name leaves the lookup maps.
RemoveMappingKeepsReferences(st, m) ==
    [mappings |-> st.mappings \ {m},
     references |-> [st.references EXCEPT ![m] = {}],
     changed |-> [st.changed EXCEPT ![m] = FALSE],
     hostToVirtual |-> RemoveHostNames(st.hostToVirtual, m, {m}),
     virtualToHost |-> RemoveVirtualNames(st.virtualToHost, m, {m})]

RemoveMapping(st, m) ==
    [mappings |-> st.mappings \ {m},
     references |-> [st.references EXCEPT ![m] = {}],
     changed |-> [st.changed EXCEPT ![m] = FALSE],
     hostToVirtual |-> RemoveHostNames(st.hostToVirtual, m, Names(st, m)),
     virtualToHost |-> RemoveVirtualNames(st.virtualToHost, m, Names(st, m))]

-----------------------------------------------------------------------------
(* HostToVirtualName and VirtualToHostName: None stands for "not found". *)
HostToVirtualName(st, o) == st.hostToVirtual[o].object
VirtualToHostName(st, o) == st.virtualToHost[o].object

\* findMapping: the missing side comes from the lookup maps.
Completed(st, b) ==
    [kind |-> b.kind,
     v |-> IF b.v = None THEN HostToVirtualName(st, Host(b)) ELSE b.v,
     p |-> IF b.v # None /\ b.p = None THEN VirtualToHostName(st, Virtual(b)) ELSE b.p]

Found(st, b) == ~Empty(b) /\ Completed(st, b) \in st.mappings

\* checkNameConflict: one of the lookup maps already answers differently.
NameConflict(st, n) ==
    \/ /\ st.hostToVirtual[Host(n)].owners # {}
       /\ st.hostToVirtual[Host(n)].object # n.v
    \/ /\ st.virtualToHost[Virtual(n)].owners # {}
       /\ st.virtualToHost[Virtual(n)].object # n.p

\* Faulty variant: an incomplete owner is stored as it is.
CreatableIncomplete(n, b) == {b}

\* createMapping: the mappings it may create for owner b when n is recorded.
\* An incomplete owner is completed only by a name of its own kind that
\* agrees with the side it has. A complete owner is taken as it is.
Creatable(n, b) ==
    IF b.v # None /\ b.p # None THEN {b}
    ELSE {m \in {n} : /\ n.kind = b.kind
                      /\ \/ b.v = None /\ b.p = n.p
                         \/ b.p = None /\ b.v = n.v}

CreateMapping(st, n, b) ==
    IF Creatable(n, b) = {} THEN st
    ELSE AddMapping(st, CHOOSE m \in Creatable(n, b) : TRUE, {}, TRUE)

\* Faulty variant: a new reference does not mark the mapping as changed.
AddReferenceToUnmarked(st, n, b) ==
    LET m == Completed(st, b) IN
    IF n \notin Verified THEN st
    ELSE IF ~Found(st, b) THEN IF Empty(b) THEN st ELSE CreateMapping(st, n, b)
    ELSE IF n \in Names(st, m) THEN st
    ELSE [st EXCEPT !.references[m] = @ \cup {n},
                    !.hostToVirtual = AddHostNames(@, m, {n}),
                    !.virtualToHost = AddVirtualNames(@, m, {n})]

\* The body of AddReference once the conflict check has passed. When the
\* owner is not in the store yet, it is created and n itself is not added.
AddReferenceTo(st, n, b) ==
    LET m == Completed(st, b) IN
    IF n \notin Verified THEN st
    ELSE IF ~Found(st, b) THEN IF Empty(b) THEN st ELSE CreateMapping(st, n, b)
    ELSE IF n \in Names(st, m) THEN st
    ELSE [st EXCEPT !.references[m] = @ \cup {n},
                    !.changed[m] = TRUE,
                    !.hostToVirtual = AddHostNames(@, m, {n}),
                    !.virtualToHost = AddVirtualNames(@, m, {n})]

DeleteReferenceFrom(st, n, b) ==
    LET m == Completed(st, b) IN
    IF ~Found(st, b) \/ n \notin st.references[m] THEN st
    ELSE [st EXCEPT !.references[m] = @ \ {n},
                    !.changed[m] = TRUE,
                    !.hostToVirtual = RemoveHostNames(@, m, {n}),
                    !.virtualToHost = RemoveVirtualNames(@, m, {n})]

\* ReferencesTo: the owners of a virtual name, without the mapping that is
\* the name itself.
ReferencesTo(st, o) ==
    {m \in st.virtualToHost[o].owners :
        m # [kind |-> o[1], v |-> o[2], p |-> st.virtualToHost[o].object]}

-----------------------------------------------------------------------------
(* The lookup maps are exactly the names of the mappings in the store. *)

OwnersExact(st) ==
    /\ \A o \in HostObjects :
        st.hostToVirtual[o].owners =
            {m \in st.mappings : \E n \in Names(st, m) : Host(n) = o}
    /\ \A o \in VirtualObjects :
        st.virtualToHost[o].owners =
            {m \in st.mappings : \E n \in Names(st, m) : Virtual(n) = o}

AnswersExact(st) ==
    \A m \in st.mappings : \A n \in Names(st, m) :
        /\ HostToVirtualName(st, Host(n)) = n.v
        /\ VirtualToHostName(st, Virtual(n)) = n.p
=============================================================================
