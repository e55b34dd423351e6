---------------------------- MODULE MappingBackend ----------------------------
(***************************************************************************)
(* What the mappings store keeps in etcd, under one key per virtual object *)
(* (pkg/mappings/store/backend_etcd.go), and the store that start builds   *)
(* from it (pkg/mappings/store/store.go).                                  *)
(***************************************************************************)
EXTENDS NameStore

Keys == VirtualObjects
Saved == [p: HNames \cup {None}, refs: SUBSET Pairs]
NothingSaved == [p |-> None, refs |-> {}]

\* What etcd holds under a key, as a mapping.
SavedPair(key, entry) == [kind |-> key[1], v |-> key[2], p |-> entry.p]

-----------------------------------------------------------------------------
SavedMappings(be) == {SavedPair(k, be[k]) : k \in {k \in Keys : be[k].p # None}}
SavedReferences(be, m) == be[Virtual(m)].refs

\* The store with the given mappings and references. The lookup maps answer
\* with the first name of their entry (addMapping).
Built(loaded, refs) ==
    LET by(m) == {m} \cup refs[m]
    IN [mappings |-> loaded,
        references |-> refs,
        changed |-> [m \in Pairs |-> FALSE],
        hostToVirtual |->
            [o \in HostObjects |->
                LET owners == {m \in loaded : \E n \in by(m) : Host(n) = o} IN
                IF owners = {} THEN NoLookup
                ELSE [object |-> (CHOOSE n \in UNION {by(m) : m \in owners} : Host(n) = o).v,
                      owners |-> owners]],
        virtualToHost |->
            [o \in VirtualObjects |->
                LET owners == {m \in loaded : \E n \in by(m) : Virtual(n) = o} IN
                IF owners = {} THEN NoLookup
                ELSE [object |-> (CHOOSE n \in UNION {by(m) : m \in owners} : Virtual(n) = o).p,
                      owners |-> owners]]]

Loaded(be) == SavedMappings(be) \cap Verified
LoadedReferences(be) == [m \in Pairs |-> IF m \in Loaded(be) THEN SavedReferences(be, m) ELSE {}]

\* start: every saved mapping that verifies is added, with its references.
Load(be) == Built(Loaded(be), LoadedReferences(be))

\* What etcd can hold: under every key nothing, or a mapping that can come up.
BackendOK(be) ==
    /\ be \in [Keys -> Saved]
    /\ \A key \in Keys : be[key].p # None => SavedPair(key, be[key]) \in Pairs

\* A backend without conflicting names, from which start builds an exact store.
SavedNames(be) == UNION {{m} \cup SavedReferences(be, m) : m \in Loaded(be)}
Sound(be) ==
    /\ \A m, n \in SavedNames(be) : ~Conflicting(m, n)
    /\ \A m \in Loaded(be) : m \notin SavedReferences(be, m)

Put(be, st, m) == [be EXCEPT ![Virtual(m)] = [p |-> m.p, refs |-> st.references[m]]]
Remove(be, m) == [be EXCEPT ![Virtual(m)] = NothingSaved]
=============================================================================
