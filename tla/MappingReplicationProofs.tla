----------------------- MODULE MappingReplicationProofs -----------------------
(***************************************************************************)
(* What a leader of MappingReplication may rely on as long as nobody       *)
(* missed a write, and the theorems about stores and etcd that follow.     *)
(***************************************************************************)
EXTENDS MappingReplicationReplay

-----------------------------------------------------------------------------
(* As long as nobody missed a write *)

\* What a leader may rely on: etcd has only what it knows, and what it does not mark
\* as changed is there.
Persisted(st, be) ==
    /\ KnownUpTo(be, st, {})
    /\ \A m \in st.mappings : ~st.changed[m] => be[Virtual(m)] = [p |-> m.p, refs |-> st.references[m]]

Unmissed ==
    /\ \A i \in 0 .. Len(log) : Sound(EtcdIn(first, log, i))
    /\ \A r \in Processes : Exact(stores[r])
    /\ RenamedIn(first, log, Len(log)) = {}
    /\ leader # NoProcess =>
          /\ Persisted(stores[leader], EtcdIn(first, log, Len(log)))
          /\ \A i \in (at[leader] + 1) .. Len(log) : log[i].writer = leader

\* A full replay is what start would load.
LEMMA FullReplay ==
    ASSUME NEW be, BackendOK(be), NEW l, LogOK(be, l), NEW i \in 0 .. Len(l),
           NEW st, StoreOK(st), RenamedIn(be, l, i) = {}, Replayed(st, be, l, i, {})
    PROVE  LET now == EtcdIn(be, l, i) IN
           /\ st.mappings = Loaded(now)
           /\ \A m \in st.mappings : st.references[m] = SavedReferences(now, m)
<1> DEFINE now == EtcdIn(be, l, i)
<1>1. BackendOK(now)
  BY EtcdTyped
<1>2. ASSUME NEW k \in Keys PROVE SameUnder(st, now, k)
  <2>1. now[k] = EntryIn(be, l, i, k).entry
    BY DEF EtcdIn
  <2>2. Agrees(st, k, now[k])
    BY <2>1 DEF Replayed
  <2> HIDE DEF now
  <2> QED BY <1>1, <2>2, SameIsAgrees
<1>3. \A m \in st.mappings \cup Loaded(now) : Virtual(m) \in Keys
  BY PairObjects, VerifiedArePairs DEF Keys, StoreOK, Store, Loaded
<1> HIDE DEF now
<1>4. \A m : m \in st.mappings <=> m \in Loaded(now)
  BY <1>2, <1>3 DEF SameUnder
<1>5. \A m \in Loaded(now) : st.references[m] = SavedReferences(now, m)
  BY <1>2, <1>3 DEF SameUnder
<1> QED BY ZenonT(30), <1>4, <1>5 DEF now

\* A store that is what start would load is persisted.
LEMMA ReplayPersisted ==
    ASSUME NEW be, BackendOK(be), NEW st, st.mappings = Loaded(be),
           \A m \in st.mappings : st.references[m] = SavedReferences(be, m)
    PROVE  Persisted(st, be)
<1>1. KnownUpTo(be, st, {})
  BY DEF KnownUpTo, KnownIn
<1>2. ASSUME NEW m \in st.mappings PROVE be[Virtual(m)] = [p |-> m.p, refs |-> st.references[m]]
  <2>1. m \in SavedMappings(be)
    BY DEF Loaded
  <2>2. Virtual(m) \in Keys /\ be[Virtual(m)].p = m.p
    BY <2>1, SavedIsPair
  <2>3. be[Virtual(m)] \in Saved /\ be[Virtual(m)].refs = st.references[m]
    BY <2>2 DEF BackendOK, SavedReferences
  <2> QED BY <2>2, <2>3 DEF Saved
<1> QED BY <1>1, <1>2 DEF Persisted

\* An event keeps a store exact when it leads to what start would load from a backend
\* without conflicting names.
LEMMA AppliedExact ==
    ASSUME NEW be, Sound(be), NEW st, StoreOK(st), Exact(st), NEW r, NEW e \in Event,
           Applied(st, r, e).mappings = Loaded(be),
           \A m \in Loaded(be) : Applied(st, r, e).references[m] = SavedReferences(be, m)
    PROVE  Exact(Applied(st, r, e))
<1> DEFINE m == SavedPair(e.key, e.entry)
           d == Dropped(st, m)
           st2 == Applied(st, r, e)
<1>1. Exact(d) /\ StoreOK(d)
  BY FoundIsPair, RemoveMappingExact, RemoveMappingType DEF Dropped
<1>2. CASE e.sender # r /\ e.type = "put" /\ m \in Verified
  <2>1. m \in Pairs /\ e.key \in Keys /\ e.entry.refs \in SUBSET Pairs
    BY <1>2, VerifiedArePairs DEF Event, Saved
  <2>2. \E x : DropsOne(d, st, m, x)
    BY <2>1, DroppedFields
  <2>3. st2 = AddMapping(d, m, e.entry.refs, FALSE)
    BY ZenonT(30), <1>2 DEF Applied
  <2>4. /\ st2.mappings = Loaded(be)
        /\ \A x \in Loaded(be) : st2.references[x] = SavedReferences(be, x)
    OBVIOUS
  <2> HIDE DEF d, m, st2
  <2>5. m \notin d.mappings
    BY <2>1, <2>2 DEF DropsOne
  <2>6. /\ st2.mappings = d.mappings \cup {m}
        /\ st2.references = [d.references EXCEPT ![m] = e.entry.refs]
    BY <2>3 DEF AddMapping
  <2>7. d.references \in [Pairs -> SUBSET Pairs] /\ d.mappings \subseteq Pairs
    BY <1>1 DEF StoreOK, Store
  <2>8. SavedReferences(be, m) = e.entry.refs /\ m \in Loaded(be)
    BY SMTT(30), <2>1, <2>4, <2>6, <2>7
  <2>9. \A x \in d.mappings : x \in Loaded(be) /\ d.references[x] = SavedReferences(be, x)
    BY SMTT(30), <2>4, <2>5, <2>6, <2>7
  <2>10. {m} \cup e.entry.refs \subseteq SavedNames(be)
    BY <2>8 DEF SavedNames
  <2>11. \A x \in d.mappings : Names(d, x) \subseteq SavedNames(be)
    BY <2>9 DEF Names, SavedNames
  <2>12. \A n \in {m} \cup e.entry.refs : ~NameConflict(d, n)
    BY SMTT(30), <1>1, <2>1, <2>10, <2>11, AgreeingIsNoConflict DEF Sound
  <2>13. \A n, k \in {m} \cup e.entry.refs : ~Conflicting(n, k)
    BY <2>10 DEF Sound
  <2>14. m \notin e.entry.refs
    BY <2>8 DEF Sound
  <2>15. Exact(AddMapping(d, m, e.entry.refs, FALSE))
    BY ZenonT(30), <1>1, <2>1, <2>5, <2>12, <2>13, <2>14, AddMappingExact
  <2> QED BY ZenonT(30), <2>3, <2>15 DEF st2
<1>3. CASE ~(e.sender # r /\ e.type = "put" /\ m \in Verified)
  <2>1. st2 \in {st, d}
    BY ZenonT(30), <1>3 DEF Applied
  <2> QED BY <1>1, <2>1
<1> QED BY <1>2, <1>3

\* Save of a mapping is what the log's last event does to etcd.
LEMMA EtcdPut ==
    ASSUME NEW be, NEW l \in Seq(Event), NEW st, NEW m \in Pairs, NEW w, PutOf(st, m, w) \in Event
    PROVE  EtcdIn(be, Append(l, PutOf(st, m, w)), Len(Append(l, PutOf(st, m, w))))
             = Put(EtcdIn(be, l, Len(l)), st, m)
<1> DEFINE l2 == Append(l, PutOf(st, m, w))
           now == EtcdIn(be, l, Len(l))
<1>1. Virtual(m) \in Keys
  BY PairObjects DEF Keys
<1>2. \A k \in Keys : EntryIn(be, l2, Len(l2), k) =
          IF Virtual(m) = k THEN Written(PutOf(st, m, w)) ELSE EntryIn(be, l, Len(l), k)
  BY AppendEntry DEF PutOf
<1>3. Written(PutOf(st, m, w)).entry = [p |-> m.p, refs |-> st.references[m]]
  BY DEF Written, PutOf
<1> HIDE DEF l2
<1>4. EtcdIn(be, l2, Len(l2)) = Put(now, st, m)
  BY ZenonT(30), <1>1, <1>2, <1>3 DEF EtcdIn, Put
<1> QED BY <1>4 DEF l2

\* The same for Delete.
LEMMA EtcdRemove ==
    ASSUME NEW be, NEW l \in Seq(Event), NEW m \in Pairs, NEW w, NEW old, DeleteOf(old, m, w) \in Event
    PROVE  EtcdIn(be, Append(l, DeleteOf(old, m, w)), Len(Append(l, DeleteOf(old, m, w))))
             = Remove(EtcdIn(be, l, Len(l)), m)
<1> DEFINE l2 == Append(l, DeleteOf(old, m, w))
           now == EtcdIn(be, l, Len(l))
<1>1. Virtual(m) \in Keys
  BY PairObjects DEF Keys
<1>2. \A k \in Keys : EntryIn(be, l2, Len(l2), k) =
          IF Virtual(m) = k THEN Written(DeleteOf(old, m, w)) ELSE EntryIn(be, l, Len(l), k)
  BY AppendEntry DEF DeleteOf
<1>3. Written(DeleteOf(old, m, w)).entry = NothingSaved
  BY DEF Written, DeleteOf
<1> HIDE DEF l2
<1>4. EtcdIn(be, l2, Len(l2)) = Remove(now, m)
  BY ZenonT(30), <1>1, <1>2, <1>3 DEF EtcdIn, Remove
<1> QED BY <1>4 DEF l2

\* A write over nothing else renames nothing.
LEMMA NothingRenamed ==
    ASSUME NEW be, NEW l \in Seq(Event), NEW e \in Event, RenamedIn(be, l, Len(l)) = {},
           e.type = "put" => SavedPair(e.key, EntryIn(be, l, Len(l), e.key).entry)
                                \notin Verified \ {SavedPair(e.key, e.entry)}
    PROVE  RenamedIn(be, Append(l, e), Len(Append(l, e))) = {}
<1> DEFINE l2 == Append(l, e)
<1>1. /\ Len(l2) = Len(l) + 1 /\ l2[Len(l) + 1] = e /\ Len(l) \in Nat
      /\ \A j \in 1 .. Len(l) : l2[j] = l[j]
  BY AppendProperties
<1>2. ASSUME NEW i \in 0 .. Len(l), NEW k PROVE EntryIn(be, l2, i, k) = EntryIn(be, l, i, k)
  BY AppendKeeps
<1> HIDE DEF l2
<1>3. ASSUME NEW j \in 1 .. Len(l2), l2[j].type = "put"
      PROVE  SavedPair(l2[j].key, EntryIn(be, l2, j - 1, l2[j].key).entry)
                \notin Verified \ {SavedPair(l2[j].key, l2[j].entry)}
  <2>1. CASE j = Len(l) + 1
    <3>1. j - 1 = Len(l) /\ l2[j] = e
      BY <1>1, <2>1
    <3> QED BY SMTT(30), <1>1, <1>2, <1>3, <3>1
  <2>2. CASE j \in 1 .. Len(l)
    <3>1. j - 1 \in 0 .. Len(l) /\ l2[j] = l[j]
      BY <1>1, <2>2
    <3>2. SavedPair(l[j].key, EntryIn(be, l, j - 1, l[j].key).entry)
             \notin Verified \ {SavedPair(l[j].key, l[j].entry)}
      BY ZenonT(30), <1>3, <2>2, <3>1 DEF RenamedIn
    <3> QED BY <1>2, <3>1, <3>2
  <2> QED BY <1>1, <2>1, <2>2
<1>4. RenamedIn(be, l2, Len(l2)) = {}
  BY <1>3 DEF RenamedIn
<1> QED BY <1>4 DEF l2

\* A step of the leader, with or without a write.
LEMMA LeaderUnmissed ==
    ASSUME TypeInv, Unmissed, leader \in Processes, NEW st, stores' = [stores EXCEPT ![leader] = st],
           Exact(st), UNCHANGED <<first, at, leader>>,
           NEW be, be = EtcdIn(first, log', Len(log')), Sound(be), Persisted(st, be),
           \/ log' = log
           \/ \E e \in Event :
                 /\ log' = Append(log, e) /\ e.writer = leader
                 /\ e.type = "put" => SavedPair(e.key, EntryIn(first, log, Len(log), e.key).entry)
                                         \notin Verified \ {SavedPair(e.key, e.entry)}
    PROVE  Unmissed'
<1>1. log \in Seq(Event) /\ Len(log) \in Nat /\ leader # NoProcess /\ at[leader] \in Nat
  BY SMTT(30), NoProcessIsNone DEF TypeInv, TypeOK
<1>2. stores'[leader] = st /\ \A r \in Processes : Exact(stores'[r])
  BY DEF Unmissed, TypeInv, TypeOK
<1>3. CASE log' = log
  BY SMTT(30), <1>1, <1>2, <1>3 DEF Unmissed
<1>4. ASSUME NEW e \in Event, log' = Append(log, e), e.writer = leader,
             e.type = "put" => SavedPair(e.key, EntryIn(first, log, Len(log), e.key).entry)
                                  \notin Verified \ {SavedPair(e.key, e.entry)}
      PROVE  Unmissed'
  <2>1. /\ Len(log') = Len(log) + 1 /\ log'[Len(log) + 1] = e
        /\ \A j \in 1 .. Len(log) : log'[j] = log[j]
    BY SMTT(30), <1>1, <1>4, AppendProperties
  <2>2. RenamedIn(first, log', Len(log')) = {}
    <3>1. RenamedIn(first, log, Len(log)) = {}
      BY DEF Unmissed
    <3>2. RenamedIn(first, Append(log, e), Len(Append(log, e))) = {}
      BY SMTT(30), <1>1, <1>4, <3>1, NothingRenamed
    <3> QED BY <1>4, <3>2
  <2>3. ASSUME NEW i \in 0 .. Len(log') PROVE Sound(EtcdIn(first, log', i))
    <3>1. CASE i \in 0 .. Len(log)
      <4>1. EtcdIn(first, log', i) = EtcdIn(first, log, i)
        BY ZenonT(30), <1>1, <1>4, <3>1, AppendKeeps
      <4> QED BY <3>1, <4>1 DEF Unmissed
    <3>2. CASE i = Len(log')
      BY <3>2
    <3> QED BY <1>1, <2>1, <3>1, <3>2
  <2>4. ASSUME NEW i \in (at[leader] + 1) .. Len(log') PROVE log'[i].writer = leader
    <3>1. CASE i = Len(log) + 1
      BY SMTT(30), <1>4, <2>1, <3>1
    <3>2. CASE i \in (at[leader] + 1) .. Len(log)
      <4>1. i \in 1 .. Len(log)
        BY SMTT(30), <1>1, <3>2
      <4> QED BY SMTT(30), <1>1, <2>1, <3>2, <4>1 DEF Unmissed
    <3> QED BY SMTT(30), <1>1, <2>1, <3>1, <3>2
  <2> QED BY SMTT(30), <1>2, <2>2, <2>3, <2>4 DEF Unmissed
<1> QED BY <1>3, <1>4

\* What the leader's changes need of the invariant.
LEMMA LeaderFacts ==
    ASSUME TypeInv, Unmissed, leader # NoProcess
    PROVE  LET now == EtcdIn(first, log, Len(log)) IN
           /\ leader \in Processes /\ StoreOK(stores[leader]) /\ Exact(stores[leader])
           /\ BackendOK(first) /\ BackendOK(now) /\ Sound(now) /\ Persisted(stores[leader], now)
           /\ log \in Seq(Event)
<1>1. leader \in Processes /\ log \in Seq(Event) /\ Len(log) \in 0 .. Len(log) /\ LogOK(first, log)
  BY DEF TypeInv, TypeOK
<1>2. BackendOK(first)
  BY BackendsAreTyped DEF TypeInv, TypeOK
<1>3. BackendOK(EtcdIn(first, log, Len(log)))
  BY <1>1, <1>2, EtcdTyped
<1> QED BY SMTT(30), <1>1, <1>2, <1>3 DEF Unmissed, TypeInv

LEMMA AddReferenceUnmissed ==
    ASSUME TypeInv, Unmissed, NEW n \in Pairs, NEW b \in Owners \cup {n}, AddReference(n, b)
    PROVE  Unmissed'
<1> DEFINE st == stores[leader]
           st2 == AddReferenceTo(st, n, b)
           now == EtcdIn(first, log, Len(log))
<1>1. /\ leader \in Processes /\ StoreOK(st) /\ Exact(st)
      /\ BackendOK(now) /\ Sound(now) /\ Persisted(st, now)
  BY LeaderFacts DEF AddReference
<1>2. b \in Pairs /\ (b # n => \A k \in Pairs : ~Conflicting(b, k))
  BY OwnersAgree
<1>3. b # n => ~NameConflict(st, b)
  <2>1. \A m \in st.mappings : \A k \in Names(st, m) : k \in Pairs
    BY <1>1 DEF StoreOK, Store, Names
  <2> QED BY SMTT(30), <1>1, <1>2, <2>1, AgreeingIsNoConflict
<1>4. Exact(st2)
  BY SMTT(30), <1>1, <1>2, <1>3, AddReferenceExact DEF AddReference
<1>5. AddsOnly(st, st2, n, b)
  BY SMTT(30), <1>1, <1>2, AddReferenceAdds
<1>6. stores' = [stores EXCEPT ![leader] = st2] /\ UNCHANGED <<first, at, leader, log>>
  BY <1>1 DEF AddReference, TypeInv, TypeOK
<1> HIDE DEF st, st2, now
<1>7. Persisted(st2, now)
  <2>1. KnownUpTo(now, st2, {})
    BY SMTT(30), <1>1, <1>5 DEF Persisted, KnownUpTo, KnownIn, AddsOnly
  <2>2. ASSUME NEW m \in st2.mappings, ~st2.changed[m]
        PROVE  now[Virtual(m)] = [p |-> m.p, refs |-> st2.references[m]]
    BY SMTT(30), <1>1, <1>5, <2>2 DEF Persisted, AddsOnly
  <2> QED BY SMTT(30), <2>1, <2>2 DEF Persisted
<1>8. now = EtcdIn(first, log', Len(log'))
  BY SMTT(30), <1>6 DEF now
<1> QED BY ZenonT(30), <1>1, <1>4, <1>6, <1>7, <1>8, LeaderUnmissed

LEMMA SaveMappingUnmissed ==
    ASSUME TypeInv, Unmissed, NEW m \in Pairs, SaveMapping(m)
    PROVE  Unmissed'
<1> DEFINE st == stores[leader]
           st2 == [st EXCEPT !.changed[m] = FALSE]
           now == EtcdIn(first, log, Len(log))
           e == PutOf(st, m, leader)
           be == Put(now, st, m)
<1>1. /\ leader \in Processes /\ StoreOK(st) /\ Exact(st) /\ log \in Seq(Event)
      /\ BackendOK(first) /\ BackendOK(now) /\ Sound(now) /\ Persisted(st, now)
  BY LeaderFacts DEF SaveMapping
<1>2. m \in st.mappings /\ log' = Append(log, e) /\ UNCHANGED <<first, at, leader>>
  BY DEF SaveMapping, PutOf
<1>3. stores' = [stores EXCEPT ![leader] = st2]
  BY <1>1 DEF SaveMapping, TypeInv, TypeOK
<1>4. e \in Event /\ e.writer = leader /\ e.key = Virtual(m) /\ e.entry.p = m.p
  BY ZenonT(30), <1>1, <1>2, PutEvent DEF PutOf
<1>5. be = EtcdIn(first, log', Len(log'))
  BY SMTT(30), <1>1, <1>2, <1>4, EtcdPut
<1>6. /\ Exact(st2) /\ st2.mappings = st.mappings /\ st2.references = st.references
      /\ \A x \in Pairs : x # m => st2.changed[x] = st.changed[x]
  BY ZenonT(30), <1>1, ClearedIndex
<1>7. SavedPair(Virtual(m), e.entry) = m
  BY <1>4, PairObjects DEF SavedPair, Virtual
<1>8. EntryIn(first, log, Len(log), e.key).entry = now[e.key] /\ Virtual(m) \in Keys
  BY <1>4, PairObjects DEF EtcdIn, Keys
<1> HIDE DEF st, st2, now, e, be
<1>9. \A x \in st.mappings : x \in Pairs /\ (x # m => Virtual(x) # Virtual(m))
  <2>1. ASSUME NEW x \in st.mappings PROVE ~Conflicting(x, m)
    BY ZenonT(30), <1>1, <1>2, ExactOneToOne DEF Names
  <2> QED BY <1>1, <2>1 DEF Conflicting, StoreOK, Store
<1>10. SavedPair(Virtual(m), now[Virtual(m)]) \notin Verified \ {m}
  <2> DEFINE x == SavedPair(Virtual(m), now[Virtual(m)])
  <2> SUFFICES ASSUME x \in Verified, x # m PROVE FALSE
    OBVIOUS
  <2>1. Virtual(x) = Virtual(m) /\ x.p = now[Virtual(m)].p
    BY DEF SavedPair, Virtual
  <2>2. x.p # None
    BY VerifiedArePairs, PairObjects
  <2>3. x \in Loaded(now)
    BY SMTT(30), <1>8, <2>1, <2>2 DEF Loaded, SavedMappings
  <2> HIDE DEF x
  <2>4. x \in st.mappings
    BY SMTT(30), <1>1, <2>3 DEF Persisted, KnownUpTo, KnownIn
  <2> QED BY <1>9, <2>1, <2>4
<1>11. KnownUpTo(be, st, {})
  BY <1>1, <1>2, KnownPut DEF Persisted, be
<1>12. Sound(be)
  <2>1. Agreeing(st, {})
    BY DEF Agreeing
  <2> QED BY SMTT(30), <1>1, <1>11, <2>1, KnownIsSound
<1>13. PutOK(be, now, st, m)
  BY <1>1, PutKeys DEF be
<1>14. Persisted(st2, be)
  <2>1. KnownUpTo(be, st2, {})
    BY <1>6, <1>11 DEF KnownUpTo, KnownIn
  <2>2. ASSUME NEW x \in st2.mappings, ~st2.changed[x]
        PROVE  be[Virtual(x)] = [p |-> x.p, refs |-> st2.references[x]]
    <3>1. CASE x = m
      BY SMTT(30), <1>6, <1>13, <3>1 DEF PutOK
    <3>2. CASE x # m
      <4>1. x \in st.mappings /\ x \in Pairs /\ Virtual(x) # Virtual(m) /\ ~st.changed[x]
        BY SMTT(30), <1>6, <1>9, <2>2, <3>2
      <4> QED BY SMTT(30), <1>1, <1>6, <1>13, <4>1 DEF PutOK, Persisted
    <3> QED BY <3>1, <3>2
  <2> QED BY <2>1, <2>2 DEF Persisted
<1>15. SavedPair(e.key, EntryIn(first, log, Len(log), e.key).entry) \notin Verified \ {SavedPair(e.key, e.entry)}
  BY SMTT(30), <1>4, <1>7, <1>8, <1>10
<1> QED BY ZenonT(30), <1>1, <1>2, <1>3, <1>4, <1>5, <1>6, <1>12, <1>14, <1>15, LeaderUnmissed

LEMMA DeleteMappingUnmissed ==
    ASSUME TypeInv, Unmissed, NEW m \in Pairs, DeleteMapping(m)
    PROVE  Unmissed'
<1> DEFINE st == stores[leader]
           st2 == RemoveMapping(st, m)
           now == EtcdIn(first, log, Len(log))
           old == EntryIn(first, log, Len(log), Virtual(m))
           e == DeleteOf(old, m, leader)
           be == Remove(now, m)
<1>1. /\ leader \in Processes /\ StoreOK(st) /\ Exact(st) /\ log \in Seq(Event)
      /\ BackendOK(first) /\ BackendOK(now) /\ Sound(now) /\ Persisted(st, now)
  BY LeaderFacts DEF DeleteMapping
<1>2. /\ m \in st.mappings /\ UNCHANGED <<first, at, leader>>
      /\ log' = IF old.entry = NothingSaved THEN log ELSE Append(log, e)
  BY SMTT(30) DEF DeleteMapping, DeleteOf, EntryAt
<1>3. stores' = [stores EXCEPT ![leader] = st2]
  BY SMTT(30), <1>1 DEF DeleteMapping, TypeInv, TypeOK
<1>4. e \in Event
  <2>1. LogOK(first, log)
    BY DEF TypeInv
  <2> QED BY <1>1, <2>1, DeleteEvent
<1>5. e.writer = leader /\ e.type = "delete"
  BY DEF DeleteOf
<1>6. be = EtcdIn(first, log', Len(log'))
  <2>1. CASE old.entry = NothingSaved
    <3>1. Virtual(m) \in Keys
      BY PairObjects DEF Keys
    <3>2. now[Virtual(m)] = NothingSaved
      BY SMTT(30), <2>1, <3>1 DEF EtcdIn
    <3>3. now \in [Keys -> Saved] /\ log' = log
      BY SMTT(30), <1>1, <1>2, <2>1 DEF BackendOK
    <3> HIDE DEF now
    <3>4. Remove(now, m) = now
      BY <3>1, <3>2, <3>3 DEF Remove
    <3> QED BY <3>3, <3>4 DEF now
  <2>2. CASE old.entry # NothingSaved
    <3>1. log' = Append(log, e)
      BY <1>2, <2>2
    <3>2. EtcdIn(first, Append(log, e), Len(Append(log, e))) = be
      BY SMTT(30), <1>1, <1>4, EtcdRemove
    <3> QED BY <3>1, <3>2
  <2> QED BY <2>1, <2>2
<1>7. /\ st2.mappings = st.mappings \ {m}
      /\ st2.references = [st.references EXCEPT ![m] = {}]
      /\ st2.changed = [st.changed EXCEPT ![m] = FALSE]
  BY SMTT(30) DEF RemoveMapping
<1>8. Exact(st2) /\ StoreOK(st2)
  BY SMTT(30), <1>1, <1>2, RemoveMappingExact, RemoveMappingType
<1>9. KnownUpTo(be, st2, {})
  BY <1>1, KnownRemove DEF Persisted
<1>10. RemoveOK(be, now, m)
  BY <1>1, RemoveKeys
<1> HIDE DEF st, st2, now, old, e, be
<1>11. Sound(be)
  <2>1. Agreeing(st2, {})
    BY DEF Agreeing
  <2> QED BY SMTT(30), <1>8, <1>9, <2>1, KnownIsSound
<1>12. Persisted(st2, be)
  <2>1. ASSUME NEW x \in st2.mappings, ~st2.changed[x]
        PROVE  be[Virtual(x)] = [p |-> x.p, refs |-> st2.references[x]]
    <3>1. x \in st.mappings /\ x # m /\ x \in Pairs
      BY <1>1, <1>7 DEF StoreOK, Store
    <3>2. ~Conflicting(x, m)
      BY ZenonT(30), <1>1, <1>2, <3>1, ExactOneToOne DEF Names
    <3>3. st2.references[x] = st.references[x] /\ ~st.changed[x]
      BY SMTT(30), <1>1, <1>7, <2>1, <3>1 DEF StoreOK, Store
    <3> QED BY SMTT(30), <1>1, <1>10, <3>1, <3>2, <3>3 DEF RemoveOK, Persisted, Conflicting
  <2> QED BY <1>9, <2>1 DEF Persisted
<1> QED BY ZenonT(30), <1>1, <1>2, <1>3, <1>4, <1>5, <1>6, <1>8, <1>11, <1>12, LeaderUnmissed

\* The histories only grow: who missed nothing after a step missed nothing before it.
LEMMA HistoriesGrow ==
    ASSUME TypeInv, Next, NothingMissed'
    PROVE  NothingMissed
<1>a. skipped \in [Processes -> SUBSET Keys] /\ undecoded \in [Processes -> SUBSET Keys]
  BY DEF TypeInv, TypeOK
<1>b. SUFFICES /\ echoed \subseteq echoed'
               /\ \A r \in Processes : skipped[r] \subseteq skipped'[r] /\ undecoded[r] \subseteq undecoded'[r]
  BY DEF NothingMissed
<1>1. \A r \in Processes : Start(r) \/ WatchEnds(r) \/ Exit(r) => UNCHANGED <<skipped, undecoded, echoed>>
  BY DEF Start, WatchEnds, Exit
<1>2. ASSUME NEW r \in Processes, NEW old \in [Processes -> SUBSET Keys], NEW S
      PROVE  \A q \in Processes : old[q] \subseteq [old EXCEPT ![r] = @ \cup S][q]
  OBVIOUS
<1>3. ASSUME NEW r \in Processes, Watch(r) \/ Acquire(r)
      PROVE  UNCHANGED <<undecoded, echoed>> /\ \A q \in Processes : skipped[q] \subseteq skipped'[q]
  <2>1. skipped' = [skipped EXCEPT ![r] = @ \cup Pending(r)] /\ UNCHANGED <<undecoded, echoed>>
    BY <1>3 DEF Watch, Acquire
  <2> QED BY SMTT(30), <1>a, <1>2, <2>1
<1>4. \A r \in Processes : Handle(r) => echoed \subseteq echoed' /\ UNCHANGED <<skipped, undecoded>>
  BY DEF Handle
<1>5. ASSUME NEW r \in Processes, HandleReconstructed(r)
      PROVE  UNCHANGED <<skipped, echoed>> /\ \A q \in Processes : undecoded[q] \subseteq undecoded'[q]
  <2>1. /\ undecoded' = [undecoded EXCEPT ![r] = @ \cup {log[at[r] + 1].key}]
        /\ UNCHANGED <<skipped, echoed>>
    BY <1>5 DEF HandleReconstructed
  <2> QED BY SMTT(30), <1>a, <1>2, <2>1
<1>6. \A n, b : AddReference(n, b) => UNCHANGED <<skipped, undecoded, echoed>>
  BY DEF AddReference
<1>7. \A m : SaveMapping(m) \/ DeleteMapping(m) => UNCHANGED <<skipped, undecoded, echoed>>
  BY DEF SaveMapping, DeleteMapping
<1> QED BY SMTT(30), <1>1, <1>3, <1>4, <1>5, <1>6, <1>7 DEF Next

\* Every step keeps what holds as long as nobody missed a write.
LEMMA UnmissedStep ==
    ASSUME TypeInv, Replays, Replays', TypeInv', NothingMissed => Unmissed, Next, NothingMissed'
    PROVE  Unmissed'
<1>a. /\ BackendOK(first) /\ LogOK(first, log) /\ Len(log) \in Nat /\ log \in Seq(Event)
      /\ \A r \in Processes : at[r] \in Nat /\ at[r] <= Len(log) /\ StoreOK(stores[r])
  BY BackendsAreTyped DEF TypeInv, TypeOK
<1>b. NothingMissed
  BY HistoriesGrow
<1>c. Unmissed
  BY <1>b
<1>d. \A r \in Processes : skipped'[r] \cup undecoded'[r] = {} /\ skipped[r] \cup undecoded[r] = {}
  BY SMTT(30), <1>b DEF NothingMissed
<1>e. ASSUME NEW r \in Processes, NEW i \in Nat, i <= Len(log) PROVE RenamedIn(first, log, i) = {}
  BY SMTT(30), <1>a, <1>c, <1>e, RenamedGrows DEF Unmissed
<1>f. ASSUME NEW r \in Processes, Pending(r) = {} PROVE at[r] = Len(log)
  <2>1. Len(log) \notin (at[r] + 1) .. Len(log)
    BY ZenonT(30), <1>f DEF Pending
  <2> QED BY <1>a, <2>1
<1>1. ASSUME NEW r \in Processes, Start(r) PROVE Unmissed'
  <2>1. Etcd = EtcdIn(first, log, Len(log)) /\ Len(log) \in 0 .. Len(log)
    BY SMTT(30), <1>a DEF Etcd, EtcdAt, EntryAt, EtcdIn
  <2>2. BackendOK(Etcd) /\ Sound(Etcd)
    BY SMTT(30), <1>a, <1>c, <2>1, EtcdTyped DEF Unmissed
  <2>3. Exact(Load(Etcd))
    BY SMTT(30), <2>2, LoadExact
  <2>4. r # leader
    BY <1>1, NoProcessIsNone DEF Start, TypeInv, SendersGone, Up
  <2>5. stores' = [stores EXCEPT ![r] = Load(Etcd)] /\ at' = [at EXCEPT ![r] = Len(log)]
        /\ UNCHANGED <<first, log, leader>>
    BY SMTT(30), <1>1 DEF Start
  <2>6. \A q \in Processes : Exact(stores'[q]) /\ (q # r => stores'[q] = stores[q] /\ at'[q] = at[q])
    BY SMTT(30), <1>c, <2>3, <2>5 DEF Unmissed, TypeInv, TypeOK
  <2>7. leader # NoProcess => leader \in Processes
    BY SMTT(30) DEF TypeInv, TypeOK
  <2> QED BY SMTT(30), <1>c, <2>4, <2>5, <2>6, <2>7 DEF Unmissed
<1>2. ASSUME NEW r \in Processes, Watch(r) PROVE Unmissed'
  <2>1. skipped'[r] = skipped[r] \cup Pending(r)
    BY <1>2 DEF Watch, TypeInv, TypeOK
  <2>2. at' = at
    <3>1. at[r] = Len(log)
      BY SMTT(30), <1>d, <1>f, <2>1
    <3> QED BY <1>2, <3>1 DEF Watch, TypeInv, TypeOK
  <2> QED BY SMTT(30), <1>2, <1>c, <2>2 DEF Watch, Unmissed
<1>3. ASSUME NEW r \in Processes, WatchEnds(r) PROVE Unmissed'
  BY SMTT(30), <1>3, <1>c DEF WatchEnds, Unmissed
<1>4. ASSUME NEW r \in Processes, Handle(r), r = leader PROVE Unmissed'
  <2> DEFINE e == log[at[r] + 1]
  <2>1. at[r] + 1 \in (at[r] + 1) .. Len(log) /\ at[r] + 1 \in 1 .. Len(log)
    <3>1. at[r] < Len(log)
      BY SMTT(30), <1>4 DEF Handle
    <3> QED BY SMTT(30), <1>a, <3>1
  <2>2. e.writer = r /\ r # NoProcess
    BY SMTT(30), <1>4, <1>c, <2>1, NoProcessIsNone DEF Unmissed
  <2>3. e \in Event /\ EventOK(first, log, at[r], e)
    <3>1. (at[r] + 1) - 1 = at[r]
      BY <1>a
    <3> QED BY SMTT(30), <1>a, <2>1, <3>1 DEF LogOK
  <2>4. ~Echo(stores[r], r, e)
    <3>1. echoed' = {}
      BY SMTT(30) DEF NothingMissed
    <3> QED BY ZenonT(30), <1>4, <3>1 DEF Handle
  <2>5. Applied(stores[r], r, e) = stores[r]
    <3>1. CASE e.type = "put"
      BY ZenonT(30), <2>2, <2>3, <3>1 DEF EventOK, Applied
    <3>2. CASE e.type = "delete"
      BY SMTT(30), <2>2, <2>4, <3>2 DEF Echo
    <3> QED BY <2>3, <3>1, <3>2 DEF Event
  <2>6. stores' = stores /\ UNCHANGED <<first, log, leader>> /\ at'[leader] = at[leader] + 1
    BY SMTT(30), <1>4, <2>5 DEF Handle, TypeInv, TypeOK
  <2>7. \A i \in (at[leader] + 2) .. Len(log) : log[i].writer = leader
    <3>0. at[leader] \in Nat /\ Len(log) \in Nat
      BY <1>4, <1>a
    <3>1. \A i \in (at[leader] + 2) .. Len(log) : i \in (at[leader] + 1) .. Len(log)
      BY <3>0
    <3> QED BY SMTT(30), <1>4, <1>c, <2>2, <3>1 DEF Unmissed
  <2>8. (at[leader] + 1) + 1 = at[leader] + 2
    BY SMTT(30), <1>4, <1>a
  <2> QED BY SMTT(30), <1>c, <2>6, <2>7, <2>8 DEF Unmissed
<1>5. ASSUME NEW r \in Processes, Handle(r), r # leader PROVE Unmissed'
  <2> DEFINE e == log[at[r] + 1]
             i == at[r] + 1
             be == EtcdIn(first, log, i)
             st2 == Applied(stores[r], r, e)
  <2>1. i \in 1 .. Len(log) /\ i \in 0 .. Len(log) /\ i \in Nat
    <3>1. at[r] < Len(log)
      BY <1>5 DEF Handle
    <3> QED BY SMTT(30), <1>a, <3>1
  <2>2. e \in Event
    BY SMTT(30), <1>a, <2>1
  <2>3. /\ stores' = [stores EXCEPT ![r] = st2] /\ at' = [at EXCEPT ![r] = i]
        /\ UNCHANGED <<status, first, log, leader, skipped, undecoded>> /\ Up(r)
    BY SMTT(30), <1>5 DEF Handle, TypeInv, TypeOK, Up
  <2>4. stores'[r] = st2 /\ at'[r] = i
    BY SMTT(30), <2>3 DEF TypeInv, TypeOK
  <2>5. StoreOK(st2)
    BY SMTT(30), <2>4 DEF TypeInv
  <2>6. Sound(be) /\ BackendOK(be)
    BY SMTT(30), <1>a, <1>c, <2>1, EtcdTyped DEF Unmissed
  <2>7. Replayed(st2, first, log, i, {})
    BY SMTT(30), <1>5, <1>d, <2>3, <2>4 DEF Replays, Up
  <2>8. RenamedIn(first, log, i) = {}
    BY SMTT(30), <1>e, <2>1
  <2>9. st2.mappings = Loaded(be) /\ \A m \in st2.mappings : st2.references[m] = SavedReferences(be, m)
    BY SMTT(30), <1>a, <2>1, <2>5, <2>7, <2>8, FullReplay
  <2>10. StoreOK(stores[r]) /\ Exact(stores[r])
    BY SMTT(30), <1>a, <1>c DEF Unmissed
  <2>11. Exact(st2)
    BY SMTT(30), <2>2, <2>6, <2>9, <2>10, AppliedExact
  <2> HIDE DEF e, i, be, st2
  <2>12. \A q \in Processes : Exact(stores'[q]) /\ (q # r => stores'[q] = stores[q] /\ at'[q] = at[q])
    BY SMTT(30), <1>c, <2>3, <2>4, <2>11 DEF Unmissed, TypeInv, TypeOK
  <2>13. leader # NoProcess => leader \in Processes
    BY DEF TypeInv, TypeOK
  <2> QED BY SMTT(30), <1>5, <1>c, <2>3, <2>12, <2>13 DEF Unmissed
<1>6. ASSUME NEW r \in Processes, HandleReconstructed(r) PROVE Unmissed'
  <2>1. undecoded'[r] # {}
    BY ZenonT(30), <1>6 DEF HandleReconstructed, TypeInv, TypeOK
  <2> QED BY SMTT(30), <1>d, <2>1
<1>7. ASSUME NEW r \in Processes, Acquire(r) PROVE Unmissed'
  <2> DEFINE now == EtcdIn(first, log, Len(log))
  <2>1. /\ leader = NoProcess /\ leader' = r /\ r # NoProcess /\ Up(r) /\ r # leader
        /\ UNCHANGED <<stores, first, log, at>> /\ skipped'[r] = skipped[r] \cup Pending(r)
    BY SMTT(30), <1>7, NoProcessIsNone DEF Acquire, Up, TypeInv, TypeOK
  <2>2. at[r] = Len(log)
    BY SMTT(30), <1>d, <1>f, <2>1
  <2>3. Replayed(stores[r], first, log, Len(log), {})
    BY ZenonT(30), <1>d, <2>1, <2>2 DEF Replays
  <2>4. RenamedIn(first, log, Len(log)) = {} /\ Len(log) \in 0 .. Len(log)
    <3>1. RenamedIn(first, log, Len(log)) = {}
      BY SMTT(30), <1>c DEF Unmissed
    <3> QED BY SMTT(30), <1>a, <3>1
  <2>5. BackendOK(now)
    BY SMTT(30), <1>a, <2>4, EtcdTyped
  <2>6. /\ stores[r].mappings = Loaded(now)
        /\ \A m \in stores[r].mappings : stores[r].references[m] = SavedReferences(now, m)
    BY SMTT(30), <1>a, <2>3, <2>4, FullReplay
  <2> HIDE DEF now
  <2>7. Persisted(stores[r], now)
    BY SMTT(30), <2>5, <2>6, ReplayPersisted
  <2>8. (at[r] + 1) .. Len(log) = {}
    BY SMTT(30), <1>a, <2>2
  <2> QED BY ZenonT(30), <1>c, <2>1, <2>7, <2>8 DEF Unmissed, now
<1>8. ASSUME NEW r \in Processes, Exit(r) PROVE Unmissed'
  <2>1. /\ stores' = [stores EXCEPT ![r] = EmptyStore] /\ UNCHANGED <<first, log, at>>
        /\ leader' = IF leader = r THEN NoProcess ELSE leader
    BY SMTT(30), <1>8 DEF Exit
  <2>2. \A q \in Processes : Exact(stores'[q]) /\ (q # r => stores'[q] = stores[q])
    BY SMTT(30), <1>c, <2>1, EmptyStoreExact DEF Unmissed, TypeInv, TypeOK
  <2>3. leader # NoProcess => leader \in Processes
    BY DEF TypeInv, TypeOK
  <2> QED BY SMTT(30), <1>c, <2>1, <2>2, <2>3 DEF Unmissed
<1> QED
  BY SMTT(30), <1>1, <1>2, <1>3, <1>4, <1>5, <1>6, <1>7, <1>8, <1>c,
     AddReferenceUnmissed, SaveMappingUnmissed, DeleteMappingUnmissed DEF Next

\* The inductive invariant.
Inv == TypeInv /\ Replays /\ Indexed /\ (NothingMissed => Unmissed)

LEMMA InitInv == Init => Inv
<1> SUFFICES ASSUME Init PROVE Inv
  OBVIOUS
<1>1. \A r \in Processes : Exact(stores[r])
  BY EmptyStoreExact DEF Init
<1>2. log = <<>> /\ Len(log) = 0 /\ leader = NoProcess /\ first \in Backends
  BY DEF Init
<1>3. ASSUME NEW i \in 0 .. Len(log) PROVE Sound(EtcdIn(first, log, i))
  <2>1. i = 0
    BY <1>2
  <2>2. \A k \in Keys : WritesTo(log, i, k) = {}
    BY SMTT(30), <2>1 DEF WritesTo
  <2>3. EtcdIn(first, log, i) = [k \in Keys |-> first[k]]
    BY <2>2 DEF EtcdIn, EntryIn
  <2>4. first \in [Keys -> Saved]
    BY <1>2, BackendsAreTyped DEF BackendOK
  <2>5. EtcdIn(first, log, i) = first
    BY <2>3, <2>4
  <2> QED BY SMTT(30), <1>2, <2>5, BackendsAgree
<1>4. RenamedIn(first, log, Len(log)) = {}
  BY <1>2 DEF RenamedIn
<1> QED BY SMTT(30), <1>1, <1>2, <1>3, <1>4, InitTypes DEF Inv, Indexed, Unmissed, Exact

LEMMA InvStep == Inv /\ [Next]_vars => Inv'
<1> SUFFICES ASSUME Inv, [Next]_vars PROVE Inv'
  OBVIOUS
<1>1. TypeInv' /\ Replays' /\ Indexed'
  BY SMTT(30), TypeStep, ReplaysStep, IndexedStep DEF Inv
<1>2. CASE UNCHANGED vars
  BY <1>1, <1>2 DEF vars, Inv, NothingMissed, Unmissed
<1>3. CASE Next
  BY <1>1, <1>3, UnmissedStep DEF Inv
<1> QED BY <1>2, <1>3

\* The lookup maps of every process list exactly its mappings whatever it missed, and as
\* long as nothing was missed, names agree and every answer is right (addMapping,
\* removeMapping, handleEvent).
THEOREM ReplicasAlwaysIndexed == Spec => []ReplicasIndexed
<1>1. Inv => ReplicasIndexed
  BY ZenonT(30) DEF Inv, ReplicasIndexed, Indexed, Unmissed, Exact
<1> QED BY <1>1, InitInv, InvStep, PTL DEF Spec

\* As long as nothing was missed, no leader puts a second host name over a saved one, and
\* what it does not mark as changed is in etcd as it is in memory, also after it took over
\* from a process that died between two writes (SaveMapping, DeleteMapping, start).
THEOREM LeaderAlwaysPersists == Spec => []LeaderPersists
<1>1. Inv => LeaderPersists
  <2> SUFFICES ASSUME Inv, NothingMissed PROVE LeaderPersists
    BY DEF LeaderPersists
  <2>1. Unmissed
    BY DEF Inv
  <2>2. Renamed(Len(log)) = RenamedIn(first, log, Len(log))
    BY DEF Renamed, RenamedIn, EntryAt
  <2>3. Etcd = EtcdIn(first, log, Len(log))
    BY DEF Etcd, EtcdAt, EntryAt, EtcdIn
  <2> QED BY ZenonT(30), <2>1, <2>2, <2>3 DEF LeaderPersists, Unmissed, Persisted
<1> QED BY <1>1, InitInv, InvStep, PTL DEF Spec
=============================================================================
