----------------------- MODULE MappingReplicationReplay -----------------------
(***************************************************************************)
(* What a log of writes says about etcd, type correctness of               *)
(* MappingReplication, and what a follower knows, for every choice of the  *)
(* constants: the stores of the processes are replays of a prefix of the   *)
(* log, up to the keys under which they missed something, and their lookup *)
(* maps list exactly their mappings.                                       *)
(***************************************************************************)
EXTENDS MappingReplication, MappingBackendProofs, WellFoundedInduction, SequenceTheorems

\* A set of positions in a log has a last one.
LEMMA LastPosition ==
    ASSUME NEW n \in Nat, NEW S \in SUBSET (1 .. n), S # {}
    PROVE  Max(S) \in S /\ \A y \in S : y <= Max(S)
<1> DEFINE R == OpToRel(<, Nat)
           D == {n - x : x \in S}
<1>1. D \subseteq Nat /\ D # {}
  <2>1. \A x \in S : n - x \in Nat
    OBVIOUS
  <2>2. \E x \in S : n - x \in D
    OBVIOUS
  <2> QED BY <2>1, <2>2
<1>2. PICK d \in D : \A e \in D : ~(<<e, d>> \in R)
  BY <1>1, NatLessThanWellFounded, WFMin
<1>3. \A e \in D : ~(e < d)
  BY ZenonT(30), <1>1, <1>2 DEF OpToRel
<1>4. PICK x \in S : d = n - x
  OBVIOUS
<1>5. \A y \in S : y <= x
  BY <1>3, <1>4
<1>6. \E z \in S : \A y \in S : z >= y
  BY ZenonT(30), <1>5
<1>7. Max(S) \in S /\ \A y \in S : Max(S) >= y
  BY ZenonT(30), <1>6 DEF Max
<1> QED BY <1>7

-----------------------------------------------------------------------------
(* What a log says about a key *)

\* The value that a write leaves under its key.
Written(e) ==
    IF e.type = "delete" THEN [entry |-> NothingSaved, sender |-> NoProcess]
    ELSE [entry |-> e.entry, sender |-> e.sender]

\* A key has its first value until it is written, then that of its last write.
LEMMA EntryOf ==
    ASSUME NEW be, NEW l, NEW i \in Nat, NEW k
    PROVE  \/ /\ \A j \in 1 .. i : l[j].key # k
              /\ EntryIn(be, l, i, k) = [entry |-> be[k], sender |-> NoProcess]
           \/ \E j \in 1 .. i : l[j].key = k /\ EntryIn(be, l, i, k) = Written(l[j])
<1> DEFINE W == WritesTo(l, i, k)
<1>1. CASE W = {}
  BY <1>1 DEF EntryIn, WritesTo
<1>2. CASE W # {}
  <2>1. W \in SUBSET (1 .. i) /\ \A j \in W : l[j].key = k
    BY DEF WritesTo
  <2> HIDE DEF W
  <2>2. Max(W) \in W
    BY ZenonT(30), <1>2, <2>1, LastPosition
  <2>3. EntryIn(be, l, i, k) = Written(l[Max(W)])
    BY <1>2 DEF EntryIn, Written, W
  <2> QED BY ZenonT(30), <2>1, <2>2, <2>3
<1> QED BY <1>1, <1>2

\* The i-th write sets its key and no other.
LEMMA EntryStep ==
    ASSUME NEW be, NEW l, NEW i \in Nat \ {0}, NEW k
    PROVE  EntryIn(be, l, i, k) = IF l[i].key = k THEN Written(l[i]) ELSE EntryIn(be, l, i - 1, k)
<1>1. CASE l[i].key = k
  <2> DEFINE W == WritesTo(l, i, k)
  <2>1. W \in SUBSET (1 .. i) /\ i \in W
    BY <1>1 DEF WritesTo
  <2> HIDE DEF W
  <2>2. Max(W) \in 1 .. i /\ i <= Max(W)
    BY ZenonT(30), <2>1, LastPosition
  <2>3. Max(W) = i
    BY <2>2
  <2> QED BY <1>1, <2>1, <2>3 DEF EntryIn, Written, W
<1>2. CASE l[i].key # k
  <2>1. WritesTo(l, i, k) = WritesTo(l, i - 1, k)
    BY <1>2 DEF WritesTo
  <2> QED BY <1>2, <2>1 DEF EntryIn
<1> QED BY <1>1, <1>2

\* A key keeps its value as long as it is not written.
LEMMA EntryKept ==
    ASSUME NEW be, NEW l, NEW i \in Nat, NEW j \in Nat, i <= j, NEW k,
           \A x \in (i + 1) .. j : l[x].key # k
    PROVE  EntryIn(be, l, j, k) = EntryIn(be, l, i, k)
<1>1. WritesTo(l, j, k) = WritesTo(l, i, k)
  BY DEF WritesTo
<1> QED BY <1>1 DEF EntryIn

\* What etcd was after some writes depends on these writes only.
LEMMA EntryOfPrefix ==
    ASSUME NEW be, NEW l, NEW l2, NEW i \in Nat, NEW k, \A j \in 1 .. i : l2[j] = l[j]
    PROVE  EntryIn(be, l2, i, k) = EntryIn(be, l, i, k)
<1>1. WritesTo(l2, i, k) = WritesTo(l, i, k)
  BY DEF WritesTo
<1>2. CASE WritesTo(l, i, k) = {}
  BY <1>1, <1>2 DEF EntryIn
<1>3. CASE WritesTo(l, i, k) # {}
  <2>1. WritesTo(l, i, k) \in SUBSET (1 .. i)
    BY DEF WritesTo
  <2>2. Max(WritesTo(l, i, k)) \in 1 .. i
    BY ZenonT(30), <1>3, <2>1, LastPosition
  <2>3. l2[Max(WritesTo(l, i, k))] = l[Max(WritesTo(l, i, k))]
    BY <2>2
  <2> QED BY <1>1, <1>3, <2>3 DEF EntryIn
<1> QED BY <1>2, <1>3

-----------------------------------------------------------------------------
(* Logs that leaders write *)

EtcdIn(be, l, i) == [k \in Keys |-> EntryIn(be, l, i, k).entry]

\* A put has a mapping and its writer's sender id, a delete the value it deletes.
EventOK(be, l, i, e) ==
    IF e.type = "put" THEN SavedPair(e.key, e.entry) \in Pairs /\ e.sender = e.writer
    ELSE e.entry = EntryIn(be, l, i, e.key).entry /\ e.sender = EntryIn(be, l, i, e.key).sender

LogOK(be, l) == l \in Seq(Event) /\ \A i \in 1 .. Len(l) : EventOK(be, l, i - 1, l[i])

\* What such a log leaves in etcd is well typed, and written by its senders.
LEMMA EtcdTyped ==
    ASSUME NEW be, BackendOK(be), NEW l, LogOK(be, l), NEW i \in 0 .. Len(l)
    PROVE  /\ BackendOK(EtcdIn(be, l, i))
           /\ \A k \in Keys : EntryIn(be, l, i, k).entry \in Saved
           /\ \A k \in Keys : \/ EntryIn(be, l, i, k).sender = NoProcess
                              \/ \E j \in 1 .. i : EntryIn(be, l, i, k).sender = l[j].sender
<1>1. ASSUME NEW k \in Keys
      PROVE  /\ EntryIn(be, l, i, k).entry \in Saved
             /\ EntryIn(be, l, i, k).entry.p # None => SavedPair(k, EntryIn(be, l, i, k).entry) \in Pairs
             /\ \/ EntryIn(be, l, i, k).sender = NoProcess
                \/ \E j \in 1 .. i : EntryIn(be, l, i, k).sender = l[j].sender
  <2> DEFINE x == EntryIn(be, l, i, k)
  <2>1. CASE x = [entry |-> be[k], sender |-> NoProcess]
    BY <2>1 DEF BackendOK
  <2>2. ASSUME NEW j \in 1 .. i, l[j].key = k, x = Written(l[j])
        PROVE  /\ x.entry \in Saved /\ (x.entry.p # None => SavedPair(k, x.entry) \in Pairs)
               /\ x.sender = NoProcess \/ x.sender = l[j].sender
    <3>1. l[j] \in Event /\ EventOK(be, l, j - 1, l[j])
      BY DEF LogOK
    <3>2. CASE l[j].type = "delete"
      BY <2>2, <3>2 DEF Written, NothingSaved, Saved
    <3>3. CASE l[j].type = "put"
      BY <2>2, <3>1, <3>3 DEF Written, EventOK, Event
    <3> QED BY <3>1, <3>2, <3>3 DEF Event
  <2>3. i \in Nat
    OBVIOUS
  <2> HIDE DEF x
  <2> QED BY <2>1, <2>2, <2>3, EntryOf DEF x
<1>2. BackendOK(EtcdIn(be, l, i))
  BY <1>1 DEF BackendOK, EtcdIn
<1> QED BY <1>1, <1>2

\* A further write leaves what was before.
LEMMA AppendKeeps ==
    ASSUME NEW be, NEW l \in Seq(Event), NEW e \in Event, NEW i \in 0 .. Len(l)
    PROVE  /\ \A k : EntryIn(be, Append(l, e), i, k) = EntryIn(be, l, i, k)
           /\ EtcdIn(be, Append(l, e), i) = EtcdIn(be, l, i)
<1> DEFINE l2 == Append(l, e)
<1>1. i \in Nat /\ \A j \in 1 .. i : l2[j] = l[j]
  BY AppendProperties
<1> HIDE DEF l2
<1>2. ASSUME NEW k PROVE EntryIn(be, l2, i, k) = EntryIn(be, l, i, k)
  BY <1>1, EntryOfPrefix
<1>3. EtcdIn(be, l2, i) = EtcdIn(be, l, i)
  BY <1>2 DEF EtcdIn
<1> QED BY <1>2, <1>3 DEF l2

\* A log stays one that leaders write.
LEMMA AppendOK ==
    ASSUME NEW be, NEW l, LogOK(be, l), NEW e \in Event, EventOK(be, l, Len(l), e)
    PROVE  LogOK(be, Append(l, e))
<1> DEFINE l2 == Append(l, e)
<1>1. l \in Seq(Event) /\ l2 \in Seq(Event) /\ Len(l2) = Len(l) + 1 /\ l2[Len(l2)] = e
  BY DEF LogOK
<1>2. ASSUME NEW i \in 1 .. Len(l2) PROVE EventOK(be, l2, i - 1, l2[i])
  <2>1. i - 1 \in 0 .. Len(l)
    BY <1>1
  <2>2. \A k : EntryIn(be, l2, i - 1, k) = EntryIn(be, l, i - 1, k)
    BY <1>1, <2>1, AppendKeeps
  <2>3. EventOK(be, l, i - 1, l2[i])
    <3>1. CASE i = Len(l2)
      BY <1>1, <3>1
    <3>2. CASE i # Len(l2)
      BY <1>1, <3>2 DEF LogOK
    <3> QED BY <3>1, <3>2
  <2> HIDE DEF l2
  <2> QED BY <2>2, <2>3 DEF EventOK
<1> QED BY <1>1, <1>2 DEF LogOK

\* The value of a key after a write.
LEMMA AppendEntry ==
    ASSUME NEW be, NEW l \in Seq(Event), NEW e \in Event, NEW k
    PROVE  EntryIn(be, Append(l, e), Len(Append(l, e)), k) =
               IF e.key = k THEN Written(e) ELSE EntryIn(be, l, Len(l), k)
<1> DEFINE l2 == Append(l, e)
           n == Len(l2)
<1>1. n \in Nat \ {0} /\ n - 1 = Len(l) /\ l2[n] = e /\ n - 1 \in 0 .. Len(l)
  <2>1. Len(l) \in Nat /\ n = Len(l) + 1 /\ l2[Len(l) + 1] = e
    BY AppendProperties
  <2> QED BY <2>1
<1>2. EntryIn(be, l2, n, k) = IF l2[n].key = k THEN Written(l2[n]) ELSE EntryIn(be, l2, n - 1, k)
  <2> HIDE DEF l2, n
  <2> QED BY <1>1, EntryStep
<1>3. EntryIn(be, l2, n - 1, k) = EntryIn(be, l, Len(l), k)
  BY <1>1, AppendKeeps
<1> HIDE DEF l2, n
<1> QED BY <1>1, <1>2, <1>3 DEF l2, n

-----------------------------------------------------------------------------
(* Type correctness *)

\* A leader is running, and whoever else sent a write has exited.
SendersGone ==
    /\ leader # NoProcess => Up(leader)
    /\ \A i \in 1 .. Len(log) :
          log[i].sender \in {NoProcess, leader} \/ status[log[i].sender] = "gone"

TypeInv ==
    /\ TypeOK
    /\ \A r \in Processes : StoreOK(stores[r])
    /\ LogOK(first, log)
    /\ SendersGone

\* A store of a process that is not running is well typed.
LEMMA EmptyStoreType == StoreOK(EmptyStore)
<1>1. HostMapOK(EmptyStore.hostToVirtual) /\ VirtualMapOK(EmptyStore.virtualToHost)
  BY DEF EmptyStore, HostMapOK, VirtualMapOK, NoLookup, VirtualLookup, HostLookup
<1>2. EmptyStore \in Store
  BY DEF EmptyStore, Store, NoLookup, VirtualLookup, HostLookup
<1> QED BY <1>1, <1>2 DEF StoreOK

\* What an event does to a store.
LEMMA AppliedType ==
    ASSUME NEW st, StoreOK(st), NEW r, NEW be, NEW l, NEW i, NEW e \in Event, EventOK(be, l, i, e)
    PROVE  /\ StoreOK(Applied(st, r, e))
           /\ \A m : StoreOK(Dropped(st, m))
<1>1. ASSUME NEW m PROVE StoreOK(Dropped(st, m))
  BY FoundIsPair, RemoveMappingType DEF Dropped
<1> DEFINE m == SavedPair(e.key, e.entry)
<1>2. CASE e.sender # r /\ e.type = "put" /\ m \in Verified
  <2>1. m \in Pairs /\ e.entry.refs \in SUBSET Pairs
    BY <1>2, VerifiedArePairs DEF Event, Saved
  <2>2. Applied(st, r, e) = AddMapping(Dropped(st, m), m, e.entry.refs, FALSE)
    BY ZenonT(30), <1>2 DEF Applied
  <2> HIDE DEF m
  <2> QED BY ZenonT(30), <1>1, <2>1, <2>2, AddMappingType
<1>3. CASE ~(e.sender # r /\ e.type = "put" /\ m \in Verified)
  <2>1. Applied(st, r, e) \in {st, Dropped(st, m)}
    BY ZenonT(30), <1>3 DEF Applied
  <2> QED BY <1>1, <2>1
<1> QED BY <1>1, <1>2, <1>3

\* The events of SaveMapping and DeleteMapping.
PutOf(st, m, w) == [type |-> "put", key |-> Virtual(m), entry |-> [p |-> m.p, refs |-> st.references[m]],
                    sender |-> w, writer |-> w]
DeleteOf(old, m, w) == [type |-> "delete", key |-> Virtual(m), entry |-> old.entry,
                        sender |-> old.sender, writer |-> w]

LEMMA PutEvent ==
    ASSUME NEW st, StoreOK(st), NEW m \in st.mappings, NEW w \in Processes, NEW be, NEW l, NEW i
    PROVE  /\ PutOf(st, m, w) \in Event
           /\ EventOK(be, l, i, PutOf(st, m, w))
<1>1. m \in Pairs /\ st.references[m] \in SUBSET Pairs
  BY DEF StoreOK, Store
<1>2. Virtual(m) \in Keys /\ m.p \in HNames
  BY <1>1, PairObjects DEF Keys
<1>3. SavedPair(Virtual(m), [p |-> m.p, refs |-> st.references[m]]) = m
  BY <1>1, PairObjects, Zenon DEF SavedPair, Virtual
<1> QED BY <1>1, <1>2, <1>3 DEF PutOf, Event, EventOK, Saved

LEMMA DeleteEvent ==
    ASSUME NEW be, BackendOK(be), NEW l, LogOK(be, l), NEW m \in Pairs, NEW w \in Processes
    PROVE  LET e == DeleteOf(EntryIn(be, l, Len(l), Virtual(m)), m, w) IN
           /\ e \in Event
           /\ EventOK(be, l, Len(l), e)
           /\ e.sender = NoProcess \/ \E j \in 1 .. Len(l) : e.sender = l[j].sender
<1> DEFINE old == EntryIn(be, l, Len(l), Virtual(m))
<1>1. Virtual(m) \in Keys
  BY PairObjects DEF Keys
<1>2. Len(l) \in 0 .. Len(l) /\ \A j \in 1 .. Len(l) : l[j] \in Event
  BY DEF LogOK
<1>3. old.entry \in Saved /\ (old.sender = NoProcess \/ \E j \in 1 .. Len(l) : old.sender = l[j].sender)
  BY <1>1, <1>2, EtcdTyped
<1> HIDE DEF old
<1>4. old.sender \in Processes \cup {NoProcess}
  BY <1>2, <1>3 DEF Event
<1>5. DeleteOf(old, m, w) \in Event
  BY <1>1, <1>3, <1>4 DEF DeleteOf, Event
<1>6. EventOK(be, l, Len(l), DeleteOf(old, m, w))
  BY DEF DeleteOf, EventOK, old
<1> QED BY <1>3, <1>5, <1>6 DEF old, DeleteOf

\* A write by the leader keeps the log's types.
LEMMA WriteType ==
    ASSUME TypeInv, NEW e \in Event, EventOK(first, log, Len(log), e), Len(log) < MaxLog,
           e.sender \in {NoProcess, leader} \/ \E j \in 1 .. Len(log) : e.sender = log[j].sender,
           log' = Append(log, e), UNCHANGED <<status, first, at, leader>>
    PROVE  /\ log' \in Seq(Event) /\ Len(log') <= MaxLog /\ Len(log') = Len(log) + 1
           /\ at' \in [Processes -> 0 .. Len(log')]
           /\ LogOK(first', log')
           /\ SendersGone'
<1>1. log \in Seq(Event) /\ Len(log) \in Nat /\ MaxLog \in Nat
  BY ReplicationBound DEF TypeInv, TypeOK
<1>2. /\ log' \in Seq(Event) /\ Len(log') = Len(log) + 1
      /\ \A j \in 1 .. Len(log) : log'[j] = log[j]
      /\ log'[Len(log) + 1] = e
  BY <1>1, AppendProperties
<1>3. LogOK(first', log')
  BY AppendOK DEF TypeInv
<1>4. at' \in [Processes -> 0 .. Len(log')]
  <2>1. \A r \in Processes : at'[r] \in 0 .. Len(log')
    BY <1>1, <1>2 DEF TypeInv, TypeOK
  <2> QED BY <2>1 DEF TypeInv, TypeOK
<1>5. ASSUME NEW i \in 1 .. Len(log')
      PROVE  log'[i].sender \in {NoProcess, leader} \/ status[log'[i].sender] = "gone"
  <2>1. CASE i \in 1 .. Len(log)
    BY <1>2, <2>1 DEF TypeInv, SendersGone
  <2>2. CASE i = Len(log) + 1
    BY <1>2, <2>2 DEF TypeInv, SendersGone
  <2> QED BY SMTT(30), <1>1, <1>2, <2>1, <2>2
<1>6. SendersGone'
  BY <1>5 DEF TypeInv, SendersGone, Up
<1> QED BY <1>1, <1>2, <1>3, <1>4, <1>6

\* Every step keeps the types.
LEMMA TypeStep == TypeInv /\ [Next]_vars => TypeInv'
<1> SUFFICES ASSUME TypeInv, [Next]_vars PROVE TypeInv'
  OBVIOUS
<1>a. BackendOK(first) /\ LogOK(first, log) /\ Len(log) \in Nat /\ log \in Seq(Event)
  BY BackendsAreTyped DEF TypeInv, TypeOK
<1>b. BackendOK(Etcd)
  <2>1. Etcd = EtcdIn(first, log, Len(log))
    BY DEF Etcd, EtcdAt, EntryAt, EtcdIn
  <2> QED BY <1>a, <2>1, EtcdTyped
<1>c. /\ \A r \in Processes : StoreOK(stores[r])
      /\ SendersGone
  BY DEF TypeInv
<1>d. ASSUME NEW r \in Processes, NEW st, StoreOK(st), stores' = [stores EXCEPT ![r] = st]
      PROVE  stores' \in [Processes -> Store] /\ \A q \in Processes : StoreOK(stores'[q])
  BY <1>c, <1>d DEF StoreOK, TypeInv, TypeOK
<1>e. ASSUME NEW r \in Processes PROVE Pending(r) \subseteq Keys
  <2>1. at[r] \in Nat
    BY <1>a DEF TypeInv, TypeOK
  <2>2. \A i \in (at[r] + 1) .. Len(log) : log[i] \in Event
    BY <1>a, <2>1
  <2>3. \A e \in Event : e.key \in Keys
    BY DEF Event
  <2> QED BY <2>2, <2>3 DEF Pending
<1>1. ASSUME NEW r \in Processes, Start(r) PROVE TypeInv'
  <2>1. StoreOK(Load(Etcd))
    BY SMTT(30), <1>b, LoadType
  <2>2. SendersGone'
    BY <1>1, <1>c DEF Start, SendersGone, Up, TypeInv, TypeOK
  <2>3. stores' \in [Processes -> Store] /\ \A q \in Processes : StoreOK(stores'[q])
    BY ZenonT(30), <1>1, <1>d, <2>1 DEF Start
  <2> QED BY <1>1, <1>a, <2>2, <2>3 DEF Start, TypeInv, TypeOK
<1>2. ASSUME NEW r \in Processes, Watch(r) PROVE TypeInv'
  <2>1. SendersGone'
    BY <1>2, <1>c DEF Watch, SendersGone, Up, TypeInv, TypeOK
  <2> QED BY SMTT(30), <1>2, <1>a, <1>e, <2>1 DEF Watch, TypeInv, TypeOK
<1>3. ASSUME NEW r \in Processes, WatchEnds(r) PROVE TypeInv'
  <2>1. SendersGone'
    BY SMTT(30), <1>3, <1>c DEF WatchEnds, SendersGone, Up, TypeInv, TypeOK
  <2> QED BY <1>3, <2>1 DEF WatchEnds, TypeInv, TypeOK
<1>4. ASSUME NEW r \in Processes, Handle(r) \/ HandleReconstructed(r) PROVE TypeInv'
  <2> DEFINE e == log[at[r] + 1]
  <2>1. at[r] + 1 \in 1 .. Len(log)
    BY <1>4, <1>a DEF Handle, HandleReconstructed, TypeInv, TypeOK
  <2>2. e \in Event /\ EventOK(first, log, at[r], e)
    BY SMTT(30), <1>a, <2>1 DEF LogOK, TypeInv, TypeOK
  <2>3. SendersGone'
    BY SMTT(30), <1>4, <1>c DEF Handle, HandleReconstructed, SendersGone, Up
  <2>4. at' \in [Processes -> 0 .. Len(log')]
    BY SMTT(30), <1>4, <1>a, <2>1 DEF Handle, HandleReconstructed, TypeInv, TypeOK
  <2> HIDE DEF e
  <2>5. StoreOK(Applied(stores[r], r, e)) /\ \A m : StoreOK(Dropped(stores[r], m))
    BY SMTT(30), <1>c, <2>2, AppliedType
  <2>6. \E st : StoreOK(st) /\ stores' = [stores EXCEPT ![r] = st]
    BY <1>4, <2>5 DEF Handle, HandleReconstructed, TypeInv, TypeOK, e
  <2>7. stores' \in [Processes -> Store] /\ \A q \in Processes : StoreOK(stores'[q])
    BY ZenonT(30), <1>d, <2>6
  <2>8. echoed' \subseteq Keys /\ undecoded' \in [Processes -> SUBSET Keys]
    BY <1>4, <2>2 DEF Handle, HandleReconstructed, TypeInv, TypeOK, Event, e
  <2> QED BY SMTT(30), <1>4, <2>3, <2>4, <2>7, <2>8 DEF Handle, HandleReconstructed, TypeInv, TypeOK
<1>5. ASSUME NEW r \in Processes, Acquire(r) PROVE TypeInv'
  <2>1. SendersGone'
    BY <1>5, <1>c DEF Acquire, SendersGone, Up
  <2> QED BY <1>5, <1>e, <2>1 DEF Acquire, TypeInv, TypeOK
<1>6. ASSUME NEW r \in Processes, Exit(r) PROVE TypeInv'
  <2>1. SendersGone'
    BY SMTT(30), <1>6, <1>c, NoProcessIsNone DEF Exit, SendersGone, Up, TypeInv, TypeOK
  <2> QED BY ZenonT(30), <1>6, <1>d, <2>1, EmptyStoreType DEF Exit, TypeInv, TypeOK
<1>7. ASSUME NEW n \in Pairs, NEW b \in Owners \cup {n}, AddReference(n, b) PROVE TypeInv'
  <2>1. leader \in Processes /\ b \in Pairs
    BY <1>7, OwnersAgree DEF AddReference, TypeInv, TypeOK
  <2>2. StoreOK(AddReferenceTo(stores[leader], n, b))
    BY <1>c, <2>1, AddReferenceType
  <2>3. stores' = [stores EXCEPT ![leader] = AddReferenceTo(stores[leader], n, b)]
    BY <1>7, <2>1 DEF AddReference, TypeInv, TypeOK
  <2>4. stores' \in [Processes -> Store] /\ \A q \in Processes : StoreOK(stores'[q])
    BY ZenonT(30), <1>d, <2>1, <2>2, <2>3
  <2> QED BY <1>7, <2>4 DEF AddReference, TypeInv, TypeOK, SendersGone, Up
<1>8. ASSUME NEW m \in Pairs, SaveMapping(m) PROVE TypeInv'
  <2>1. leader \in Processes /\ m \in stores[leader].mappings
    BY <1>8 DEF SaveMapping, TypeInv, TypeOK
  <2> DEFINE e == PutOf(stores[leader], m, leader)
  <2>2. e \in Event /\ EventOK(first, log, Len(log), e)
    BY <1>c, <2>1, PutEvent
  <2>3. e.sender = leader /\ log' = Append(log, e) /\ Len(log) < MaxLog /\ UNCHANGED <<status, first, at, leader>>
    BY <1>8 DEF SaveMapping, PutOf
  <2> HIDE DEF e
  <2>4. /\ log' \in Seq(Event) /\ Len(log') <= MaxLog /\ at' \in [Processes -> 0 .. Len(log')]
        /\ LogOK(first', log') /\ SendersGone'
    BY <2>2, <2>3, WriteType
  <2>5. StoreOK([stores[leader] EXCEPT !.changed[m] = FALSE])
    BY <1>c, <2>1, ClearedType
  <2>6. stores' = [stores EXCEPT ![leader] = [stores[leader] EXCEPT !.changed[m] = FALSE]]
    BY <1>8, <2>1 DEF SaveMapping, TypeInv, TypeOK
  <2>7. stores' \in [Processes -> Store] /\ \A q \in Processes : StoreOK(stores'[q])
    BY ZenonT(30), <1>d, <2>1, <2>5, <2>6
  <2> QED BY ZenonT(30), <1>8, <2>4, <2>7 DEF SaveMapping, TypeInv, TypeOK
<1>9. ASSUME NEW m \in Pairs, DeleteMapping(m) PROVE TypeInv'
  <2>1. leader \in Processes /\ m \in stores[leader].mappings
    BY SMTT(30), <1>9 DEF DeleteMapping, TypeInv, TypeOK
  <2> DEFINE old == EntryIn(first, log, Len(log), Virtual(m))
             e == DeleteOf(old, m, leader)
  <2>2. /\ e \in Event /\ EventOK(first, log, Len(log), e)
        /\ e.sender = NoProcess \/ \E j \in 1 .. Len(log) : e.sender = log[j].sender
    BY SMTT(30), <1>a, <2>1, DeleteEvent
  <2>3. /\ log' = log \/ log' = Append(log, e)
        /\ Len(log) < MaxLog /\ UNCHANGED <<status, first, at, leader>>
    BY <1>9 DEF DeleteMapping, DeleteOf, EntryAt
  <2> HIDE DEF e, old
  <2>4. /\ log' \in Seq(Event) /\ Len(log') <= MaxLog /\ at' \in [Processes -> 0 .. Len(log')]
        /\ LogOK(first', log') /\ SendersGone'
    <3>1. CASE log' = log
      BY SMTT(30), <2>3, <3>1 DEF TypeInv, TypeOK, SendersGone, Up
    <3>2. CASE log' = Append(log, e)
      BY <2>2, <2>3, <3>2, WriteType
    <3> QED BY SMTT(30), <2>3, <3>1, <3>2
  <2>5. StoreOK(RemoveMapping(stores[leader], m))
    BY SMTT(30), <1>c, <2>1, RemoveMappingType
  <2>6. stores' = [stores EXCEPT ![leader] = RemoveMapping(stores[leader], m)]
    BY <1>9, <2>1 DEF DeleteMapping, TypeInv, TypeOK
  <2>7. stores' \in [Processes -> Store] /\ \A q \in Processes : StoreOK(stores'[q])
    BY ZenonT(30), <1>d, <2>1, <2>5, <2>6
  <2> QED BY SMTT(30), <1>9, <2>4, <2>7 DEF DeleteMapping, TypeInv, TypeOK
<1>10. CASE UNCHANGED vars
  BY SMTT(30), <1>10 DEF vars, TypeInv, TypeOK, SendersGone, Up
<1> QED BY SMTT(30), <1>1, <1>2, <1>3, <1>4, <1>5, <1>6, <1>7, <1>8, <1>9, <1>10 DEF Next

\* Nothing is running and nothing is written at first.
LEMMA InitType == Init => TypeInv
<1> SUFFICES ASSUME Init PROVE TypeInv
  OBVIOUS
<1>1. StoreOK(EmptyStore) /\ EmptyStore \in Store
  BY EmptyStoreType DEF StoreOK
<1>2. log = <<>> /\ log \in Seq(Event) /\ Len(log) = 0
  BY DEF Init
<1>3. LogOK(first, log) /\ SendersGone
  BY <1>2 DEF LogOK, SendersGone, Init
<1>4. stores \in [Processes -> Store] /\ \A r \in Processes : StoreOK(stores[r])
  BY <1>1 DEF Init
<1> QED BY <1>2, <1>3, <1>4, ReplicationBound DEF Init, TypeInv, TypeOK

\* Stores, log, positions and histories are always well typed, whatever the processes do.
THEOREM ReplicationTypeCorrect == Spec => []TypeOK
<1>1. TypeInv => TypeOK
  BY DEF TypeInv
<1> QED BY <1>1, InitType, TypeStep, PTL DEF Spec

-----------------------------------------------------------------------------
(* One key of a store *)

\* Under key k the store has what the entry says, and nothing else.
Agrees(st, k, entry) ==
    LET here == {SavedPair(k, entry)} \cap Verified
    IN /\ {m \in st.mappings : Virtual(m) = k} = here
       /\ \A m \in here : st.references[m] = entry.refs

\* The mapping that start loads from a key.
LEMMA SameIsAgrees ==
    ASSUME NEW be, BackendOK(be), NEW k \in Keys, NEW st
    PROVE  SameUnder(st, be, k) <=> Agrees(st, k, be[k])
<1> DEFINE x == SavedPair(k, be[k])
<1>1. Virtual(x) = k
  BY DEF SavedPair, Virtual, Keys, VirtualObjects
<1>2. x \in Verified => be[k].p # None
  BY VerifiedArePairs, PairObjects DEF SavedPair
<1>3. x \in Verified => x \in Loaded(be)
  BY <1>2 DEF Loaded, SavedMappings
<1>4. ASSUME NEW m \in Loaded(be), Virtual(m) = k PROVE m = x /\ m \in Verified
  <2>1. m \in SavedMappings(be) /\ m \in Verified
    BY DEF Loaded
  <2>2. m \in Pairs /\ be[k].p = m.p
    BY <1>4, <2>1, SavedIsPair
  <2>3. m = [kind |-> k[1], v |-> k[2], p |-> m.p]
    BY <1>4, <2>2, PairObjects DEF Virtual
  <2> QED BY <2>1, <2>2, <2>3 DEF SavedPair
<1> HIDE DEF x
<1>5. {m \in Loaded(be) : Virtual(m) = k} = {x} \cap Verified
  BY <1>1, <1>3, <1>4
<1>6. (\A m \in Loaded(be) : Virtual(m) = k => st.references[m] = SavedReferences(be, m))
        <=> (\A m \in {x} \cap Verified : st.references[m] = be[k].refs)
  BY <1>1, <1>3, <1>4 DEF SavedReferences
<1> QED BY <1>5, <1>6 DEF SameUnder, Agrees, x

\* removeMapping in handleEvent removes at most one mapping, of the event's key.
DropsOne(st2, st, m, x) ==
    /\ Virtual(x) = Virtual(m)
    /\ m \in Pairs => x = m
    /\ st2.mappings = st.mappings \ {x}
    /\ \A n \in Pairs : n # x => st2.references[n] = st.references[n]

LEMMA DroppedFields ==
    ASSUME NEW st, StoreOK(st), NEW k \in Keys, NEW entry
    PROVE  \E x : DropsOne(Dropped(st, SavedPair(k, entry)), st, SavedPair(k, entry), x)
<1> DEFINE m == SavedPair(k, entry)
           c == Completed(st, m)
<1>1. m.v # None /\ m = [kind |-> k[1], v |-> k[2], p |-> entry.p]
  BY NoneIsNoName DEF SavedPair, Keys, VirtualObjects
<1>2. Virtual(c) = Virtual(m)
  BY <1>1 DEF Completed, Virtual
<1>3. m \in Pairs => c = m
  BY CompletedPair
<1>4. ~Found(st, m) => m \notin st.mappings
  BY CompletedPair DEF StoreOK, Store
<1>5. CASE Found(st, m)
  <2>1. c \in Pairs
    BY <1>5, FoundIsPair
  <2>2. Dropped(st, m) = RemoveMapping(st, c)
    BY <1>5 DEF Dropped
  <2>3. /\ RemoveMapping(st, c).mappings = st.mappings \ {c}
        /\ RemoveMapping(st, c).references = [st.references EXCEPT ![c] = {}]
    BY DEF RemoveMapping
  <2>4. st.references \in [Pairs -> SUBSET Pairs]
    BY DEF StoreOK, Store
  <2> HIDE DEF m, c
  <2>5. DropsOne(Dropped(st, m), st, m, c)
    BY SMTT(30), <1>2, <1>3, <2>1, <2>2, <2>3, <2>4 DEF DropsOne
  <2> QED BY <2>5 DEF m
<1>6. CASE ~Found(st, m)
  <2>1. Dropped(st, m) = st
    BY <1>6 DEF Dropped
  <2> HIDE DEF m
  <2>2. DropsOne(Dropped(st, m), st, m, m)
    BY <1>4, <1>6, <2>1 DEF DropsOne
  <2> QED BY <2>2 DEF m
<1> QED BY <1>5, <1>6

\* An update leaves the mapping of the event, next to the others.
LEMMA AppliedPut ==
    ASSUME NEW st, StoreOK(st), NEW r, NEW e \in Event, e.type = "put", e.sender # r,
           SavedPair(e.key, e.entry) \in Verified
    PROVE  LET m == SavedPair(e.key, e.entry)
               st2 == Applied(st, r, e)
           IN /\ st2.mappings = st.mappings \cup {m}
              /\ st2.references[m] = e.entry.refs
              /\ \A n \in Pairs : n # m => st2.references[n] = st.references[n]
<1> DEFINE m == SavedPair(e.key, e.entry)
           d == Dropped(st, m)
           st2 == Applied(st, r, e)
<1>1. m \in Pairs /\ e.key \in Keys
  BY VerifiedArePairs DEF Event
<1>2. \E x : DropsOne(d, st, m, x)
  BY <1>1, DroppedFields
<1>3. st2 = AddMapping(d, m, e.entry.refs, FALSE)
  BY ZenonT(30) DEF Applied
<1>4. StoreOK(d)
  BY FoundIsPair, RemoveMappingType DEF Dropped
<1> HIDE DEF d, m, st2
<1>5. /\ st2.mappings = d.mappings \cup {m}
      /\ st2.references = [d.references EXCEPT ![m] = e.entry.refs]
  BY <1>3 DEF AddMapping
<1>6. /\ d.mappings = st.mappings \ {m}
      /\ \A n \in Pairs : n # m => d.references[n] = st.references[n]
  BY <1>1, <1>2 DEF DropsOne
<1>7. d.references \in [Pairs -> SUBSET Pairs]
  BY <1>4 DEF StoreOK, Store
<1>8. /\ st2.mappings = st.mappings \cup {m}
      /\ st2.references[m] = e.entry.refs
      /\ \A n \in Pairs : n # m => st2.references[n] = st.references[n]
  BY SMTT(30), <1>1, <1>5, <1>6, <1>7
<1> QED BY <1>8 DEF m, st2

-----------------------------------------------------------------------------
(* A replay *)

RenamedIn(be, l, i) ==
    {l[j].key : j \in {j \in 1 .. i :
        /\ l[j].type = "put"
        /\ SavedPair(l[j].key, EntryIn(be, l, j - 1, l[j].key).entry)
              \in Verified \ {SavedPair(l[j].key, l[j].entry)}}}

\* A store agrees with the first i writes, except under the keys in X and renamed ones.
Replayed(st, be, l, i, X) ==
    \A k \in Keys \ (X \cup RenamedIn(be, l, i)) : Agrees(st, k, EntryIn(be, l, i, k).entry)

\* One event of another sender: agreement with one more write.
LEMMA AgreesNext ==
    ASSUME NEW be, NEW l, LogOK(be, l), NEW i \in Nat, i < Len(l), NEW r, l[i + 1].sender # r,
           NEW st, StoreOK(st), NEW k \in Keys, k \notin RenamedIn(be, l, i + 1),
           Agrees(st, k, EntryIn(be, l, i, k).entry)
    PROVE  Agrees(Applied(st, r, l[i + 1]), k, EntryIn(be, l, i + 1, k).entry)
<1> DEFINE e == l[i + 1]
           m == SavedPair(e.key, e.entry)
           old == EntryIn(be, l, i, k).entry
           new == EntryIn(be, l, i + 1, k).entry
           st2 == Applied(st, r, e)
<1>1. i + 1 \in 1 .. Len(l) /\ i + 1 \in Nat \ {0} /\ (i + 1) - 1 = i
  BY DEF LogOK
<1>2. e \in Event /\ EventOK(be, l, i, e)
  BY <1>1 DEF LogOK
<1>3. e.key \in Keys /\ e.type \in {"put", "delete"}
  BY <1>2 DEF Event
<1>4. new = IF e.key = k THEN Written(e).entry ELSE old
  BY <1>1, EntryStep
<1>5. e.key = k /\ e.type = "put" => SavedPair(k, old) \notin Verified \ {m}
  <2> SUFFICES ASSUME e.key = k, e.type = "put", SavedPair(k, old) \in Verified \ {m} PROVE FALSE
    OBVIOUS
  <2>1. i + 1 \in 1 .. (i + 1)
    BY <1>1
  <2>2. k \in RenamedIn(be, l, i + 1)
    BY <1>1, <2>1 DEF RenamedIn
  <2> QED BY <2>2
<1>6. Virtual(m) = e.key
  BY <1>3 DEF SavedPair, Virtual, Keys, VirtualObjects
<1>7. Agrees(st, k, old) /\ e.sender # r
  OBVIOUS
<1>8. \A x \in st.mappings : x \in Pairs
  BY DEF StoreOK, Store
<1>9. \A x \in Verified : x \in Pairs
  BY VerifiedArePairs
<1> HIDE DEF e, old, new
<1>10. CASE e.type = "put" /\ m \in Verified
  <2>1. /\ st2.mappings = st.mappings \cup {m}
        /\ st2.references[m] = e.entry.refs
        /\ \A n \in Pairs : n # m => st2.references[n] = st.references[n]
    BY <1>2, <1>7, <1>10, AppliedPut
  <2>2. CASE e.key = k
    <3>1. new = e.entry /\ m = SavedPair(k, new)
      BY SMTT(30), <1>4, <1>10, <2>2 DEF Written
    <3>2. \A x \in st.mappings : Virtual(x) = k => x = m
      BY SMTT(30), <1>5, <1>7, <1>10, <2>2 DEF Agrees
    <3> HIDE DEF m, st2
    <3>3. {x \in st2.mappings : Virtual(x) = k} = {m}
      BY SMTT(30), <1>6, <2>1, <2>2, <3>2
    <3>4. Agrees(st2, k, new)
      BY SMTT(30), <1>10, <2>1, <3>1, <3>3 DEF Agrees
    <3> QED BY <3>4 DEF st2, e, new
  <2>3. CASE e.key # k
    <3> HIDE DEF m, st2
    <3>1. {x \in st2.mappings : Virtual(x) = k} = {x \in st.mappings : Virtual(x) = k}
      BY <1>6, <2>1, <2>3
    <3>2. new = old
      BY SMTT(30), <1>4, <2>3
    <3>3. \A x \in {SavedPair(k, old)} \cap Verified : st2.references[x] = st.references[x]
      BY SMTT(30), <1>6, <1>7, <1>9, <2>1, <2>3 DEF Agrees
    <3> QED BY SMTT(30), <1>7, <3>1, <3>2, <3>3 DEF Agrees, st2, e, old, new
  <2> QED BY <2>2, <2>3
<1>11. CASE e.type = "put" /\ m \notin Verified
  <2>1. st2 = st
    BY SMTT(30), <1>11 DEF Applied
  <2>2. CASE e.key = k
    <3>1. new = e.entry /\ m = SavedPair(k, new)
      BY <1>4, <1>11, <2>2 DEF Written
    <3>2. SavedPair(k, old) \notin Verified
      BY SMTT(30), <1>5, <1>11, <2>2
    <3> QED BY SMTT(30), <1>7, <1>11, <2>1, <3>1, <3>2 DEF Agrees, e, old, new
  <2>3. CASE e.key # k
    BY SMTT(30), <1>4, <1>7, <2>1, <2>3 DEF e, old, new
  <2> QED BY <2>2, <2>3
<1>12. CASE e.type = "delete"
  <2>1. st2 = Dropped(st, m)
    BY <1>7, <1>12 DEF Applied
  <2>2. PICK x : DropsOne(st2, st, m, x)
    BY <1>3, <2>1, DroppedFields
  <2>3. CASE e.key = k
    <3>1. new = NothingSaved /\ e.entry = old
      BY SMTT(30), <1>2, <1>4, <1>12, <2>3 DEF Written, EventOK, old
    <3>2. SavedPair(k, NothingSaved) \notin Verified
      BY <1>9, PairObjects DEF SavedPair, NothingSaved
    <3>3. m = SavedPair(k, old)
      BY <2>3, <3>1
    <3> HIDE DEF m, st2
    <3>4. {y \in st2.mappings : Virtual(y) = k} = {}
      BY SMTT(30), <1>7, <1>9, <2>2, <3>3 DEF Agrees, DropsOne
    <3> QED BY SMTT(30), <3>1, <3>2, <3>4 DEF Agrees, st2, e, new
  <2>4. CASE e.key # k
    <3> HIDE DEF m, st2
    <3>1. Virtual(x) # k
      BY <1>6, <2>2, <2>4 DEF DropsOne
    <3>2. {y \in st2.mappings : Virtual(y) = k} = {y \in st.mappings : Virtual(y) = k}
      BY <2>2, <3>1 DEF DropsOne
    <3>3. \A y \in {SavedPair(k, old)} \cap Verified : st2.references[y] = st.references[y]
      BY SMTT(30), <1>7, <1>9, <2>2, <3>1 DEF Agrees, DropsOne
    <3> QED BY SMTT(30), <1>4, <1>7, <2>4, <3>2, <3>3 DEF Agrees, st2, e, old, new
  <2> QED BY <2>3, <2>4
<1> QED BY SMTT(30), <1>3, <1>10, <1>11, <1>12 DEF e, new

\* Renamed keys stay renamed, and depend on the writes so far.
LEMMA RenamedGrows ==
    ASSUME NEW be, NEW l, NEW i \in Nat, NEW j \in Nat, i <= j
    PROVE  RenamedIn(be, l, i) \subseteq RenamedIn(be, l, j)
BY DEF RenamedIn

LEMMA RenamedPrefix ==
    ASSUME NEW be, NEW l \in Seq(Event), NEW e \in Event, NEW i \in 0 .. Len(l)
    PROVE  RenamedIn(be, Append(l, e), i) = RenamedIn(be, l, i)
<1> DEFINE l2 == Append(l, e)
<1>1. ASSUME NEW j \in 1 .. i
      PROVE  l2[j] = l[j] /\ \A k : EntryIn(be, l2, j - 1, k) = EntryIn(be, l, j - 1, k)
  <2>1. j \in 1 .. Len(l) /\ j - 1 \in 0 .. Len(l)
    OBVIOUS
  <2> QED BY <2>1, AppendProperties, AppendKeeps
<1> HIDE DEF l2
<1>2. RenamedIn(be, l2, i) = RenamedIn(be, l, i)
  BY <1>1 DEF RenamedIn
<1> QED BY <1>2 DEF l2

\* What a process missed stays missed, and a key that was not written stays as it is.
LEMMA ReplayedLater ==
    ASSUME NEW be, NEW l, NEW i \in Nat, NEW j \in Nat, i <= j, NEW st, NEW X, NEW Y,
           Replayed(st, be, l, i, X), X \cup {l[x].key : x \in (i + 1) .. j} \subseteq Y
    PROVE  Replayed(st, be, l, j, Y)
<1> SUFFICES ASSUME NEW k \in Keys, k \notin Y, k \notin RenamedIn(be, l, j)
             PROVE  Agrees(st, k, EntryIn(be, l, j, k).entry)
  BY DEF Replayed
<1>1. k \notin X /\ k \notin RenamedIn(be, l, i)
  BY RenamedGrows
<1>2. \A x \in (i + 1) .. j : l[x].key # k
  OBVIOUS
<1>3. EntryIn(be, l, j, k) = EntryIn(be, l, i, k)
  BY <1>2, EntryKept
<1> QED BY <1>1, <1>3 DEF Replayed

\* A further write leaves replays of earlier ones.
LEMMA ReplayedPrefix ==
    ASSUME NEW be, NEW l \in Seq(Event), NEW e \in Event, NEW i \in 0 .. Len(l), NEW st, NEW X
    PROVE  Replayed(st, be, Append(l, e), i, X) <=> Replayed(st, be, l, i, X)
<1> DEFINE l2 == Append(l, e)
<1>1. RenamedIn(be, l2, i) = RenamedIn(be, l, i) /\ \A k : EntryIn(be, l2, i, k) = EntryIn(be, l, i, k)
  BY RenamedPrefix, AppendKeeps
<1> HIDE DEF l2
<1>2. Replayed(st, be, l2, i, X) <=> Replayed(st, be, l, i, X)
  BY <1>1 DEF Replayed
<1> QED BY <1>2 DEF l2

\* An event of another sender is one more write replayed.
LEMMA ReplayedNext ==
    ASSUME NEW be, NEW l, LogOK(be, l), NEW i \in Nat, i < Len(l), NEW r, l[i + 1].sender # r,
           NEW st, StoreOK(st), NEW X, Replayed(st, be, l, i, X)
    PROVE  Replayed(Applied(st, r, l[i + 1]), be, l, i + 1, X)
<1> SUFFICES ASSUME NEW k \in Keys, k \notin X, k \notin RenamedIn(be, l, i + 1)
             PROVE  Agrees(Applied(st, r, l[i + 1]), k, EntryIn(be, l, i + 1, k).entry)
  BY DEF Replayed
<1>1. k \notin RenamedIn(be, l, i)
  BY RenamedGrows
<1>2. Agrees(st, k, EntryIn(be, l, i, k).entry)
  BY <1>1 DEF Replayed
<1> QED BY ZenonT(30), <1>2, AgreesNext

\* start lists what etcd holds.
LEMMA ReplayedLoad ==
    ASSUME NEW be, BackendOK(be), NEW l, LogOK(be, l), NEW X
    PROVE  Replayed(Load(EtcdIn(be, l, Len(l))), be, l, Len(l), X)
<1> DEFINE now == EtcdIn(be, l, Len(l))
<1>1. BackendOK(now)
  <2>1. Len(l) \in 0 .. Len(l)
    BY DEF LogOK
  <2> QED BY <2>1, EtcdTyped
<1>2. \A k \in Keys : now[k] = EntryIn(be, l, Len(l), k).entry
  BY DEF EtcdIn
<1> HIDE DEF now
<1>3. ASSUME NEW k \in Keys PROVE SameUnder(Load(now), now, k)
  BY LoadFields DEF SameUnder
<1>4. ASSUME NEW k \in Keys PROVE Agrees(Load(now), k, now[k])
  BY <1>1, <1>3, SameIsAgrees
<1> QED BY <1>2, <1>4 DEF Replayed, now

\* A deletion that came without its value changes nothing: no mapping has a kind in
\* lower case.
LEMMA ReconstructedIsUnknown ==
    ASSUME NEW st, StoreOK(st), NEW k \in Keys
    PROVE  Dropped(st, Reconstructed(k)) = st
<1>1. k[1] \in Kinds
  BY DEF Keys, VirtualObjects
<1>2. Completed(st, Reconstructed(k)).kind = Lower[k[1]]
  BY DEF Completed, Reconstructed
<1>3. Completed(st, Reconstructed(k)) \notin Pairs
  BY SMTT(30), <1>1, <1>2, LowerMapsKinds
<1> QED BY <1>3, FoundIsPair DEF Dropped

-----------------------------------------------------------------------------
(* Followers *)

\* The property in terms of replays.
LEMMA FollowersAreReplays ==
    ASSUME TypeInv
    PROVE  FollowersReplay <=>
             \A r \in Processes : Up(r) /\ r # leader =>
                 Replayed(stores[r], first, log, at[r], skipped[r] \cup undecoded[r])
<1> SUFFICES ASSUME NEW r \in Processes
             PROVE  (\A k \in Keys \ (skipped[r] \cup undecoded[r] \cup Renamed(at[r])) :
                        SameUnder(stores[r], EtcdAt(at[r]), k))
                    <=> Replayed(stores[r], first, log, at[r], skipped[r] \cup undecoded[r])
  BY ZenonT(30) DEF FollowersReplay
<1>1. Renamed(at[r]) = RenamedIn(first, log, at[r])
  BY DEF Renamed, RenamedIn, EntryAt
<1>2. EtcdAt(at[r]) = EtcdIn(first, log, at[r])
  BY DEF EtcdAt, EtcdIn, EntryAt
<1>3. BackendOK(EtcdIn(first, log, at[r]))
  BY SMTT(30), EtcdTyped, BackendsAreTyped DEF TypeInv, TypeOK
<1>4. ASSUME NEW k \in Keys
      PROVE  SameUnder(stores[r], EtcdAt(at[r]), k) <=> Agrees(stores[r], k, EntryIn(first, log, at[r], k).entry)
  <2>1. EtcdIn(first, log, at[r])[k] = EntryIn(first, log, at[r], k).entry
    BY DEF EtcdIn
  <2> QED BY SMTT(30), <1>2, <1>3, <2>1, SameIsAgrees
<1> QED BY <1>1, <1>4 DEF Replayed

Replays ==
    \A r \in Processes : Up(r) /\ r # leader =>
        Replayed(stores[r], first, log, at[r], skipped[r] \cup undecoded[r])

\* The leader's writes, and what it does to its own store, leave the followers.
LEMMA LeaderReplays ==
    ASSUME TypeInv, Replays, NEW e \in Event, log' = log \/ log' = Append(log, e),
           \A r \in Processes : r # leader => stores'[r] = stores[r],
           UNCHANGED <<status, first, at, leader, skipped, undecoded>>
    PROVE  Replays'
<1> SUFFICES ASSUME NEW r \in Processes, status[r] \in {"listed", "watching"}, r # leader
             PROVE  Replayed(stores[r], first, log', at[r], skipped[r] \cup undecoded[r])
  BY ZenonT(30) DEF Replays, Up
<1>1. Replayed(stores[r], first, log, at[r], skipped[r] \cup undecoded[r])
  BY DEF Replays, Up
<1>2. at[r] \in 0 .. Len(log) /\ log \in Seq(Event)
  BY DEF TypeInv, TypeOK
<1>3. CASE log' = Append(log, e)
  <2>1. Replayed(stores[r], first, Append(log, e), at[r], skipped[r] \cup undecoded[r])
    BY <1>1, <1>2, ReplayedPrefix
  <2> QED BY <1>3, <2>1
<1> QED BY <1>1, <1>3

\* Every step keeps the followers' replays.
LEMMA ReplaysStep == TypeInv /\ Replays /\ [Next]_vars => Replays'
<1> SUFFICES ASSUME TypeInv, Replays, [Next]_vars PROVE Replays'
  OBVIOUS
<1>a. BackendOK(first) /\ LogOK(first, log) /\ Len(log) \in Nat /\ log \in Seq(Event)
  BY BackendsAreTyped DEF TypeInv, TypeOK
<1>b. \A r \in Processes : at[r] \in Nat /\ at[r] <= Len(log) /\ StoreOK(stores[r])
  BY <1>a DEF TypeInv, TypeOK
<1>1. ASSUME NEW r \in Processes, Start(r) PROVE Replays'
  <2>1. Etcd = EtcdIn(first, log, Len(log))
    BY DEF Etcd, EtcdAt, EntryAt, EtcdIn
  <2>2. Replayed(Load(Etcd), first, log, Len(log), skipped[r] \cup undecoded[r])
    BY <1>a, <2>1, ReplayedLoad
  <2> QED BY ZenonT(30), <1>1, <2>2 DEF Start, Replays, Up, TypeInv, TypeOK
<1>2. ASSUME NEW r \in Processes, Watch(r) PROVE Replays'
  <2> DEFINE Y == skipped[r] \cup Pending(r) \cup undecoded[r]
  <2>1. r # leader => Replayed(stores[r], first, log, at[r], skipped[r] \cup undecoded[r])
    BY <1>2 DEF Watch, Replays, Up
  <2>2. r # leader => Replayed(stores[r], first, log, Len(log), Y)
    BY SMTT(30), <1>a, <1>b, <2>1, ReplayedLater DEF Pending
  <2>3. skipped'[r] \cup undecoded'[r] = Y /\ at'[r] = Len(log)
    BY <1>2 DEF Watch, TypeInv, TypeOK
  <2> HIDE DEF Y
  <2> QED BY ZenonT(30), <1>2, <2>2, <2>3 DEF Watch, Replays, Up, TypeInv, TypeOK
<1>3. ASSUME NEW r \in Processes, WatchEnds(r) PROVE Replays'
  BY <1>3 DEF WatchEnds, Replays, Up, TypeInv, TypeOK
<1>4. ASSUME NEW r \in Processes, Handle(r) PROVE Replays'
  <2> DEFINE X == skipped[r] \cup undecoded[r]
             st == Applied(stores[r], r, log[at[r] + 1])
  <2>1. Up(r) /\ at[r] < Len(log)
    BY <1>4 DEF Handle, Up
  <2>2. r # leader => log[at[r] + 1].sender # r
    <3>1. at[r] + 1 \in 1 .. Len(log)
      BY <1>a, <1>b, <2>1
    <3> QED BY <3>1, <2>1, NoProcessIsNone DEF TypeInv, SendersGone, Up
  <2>3. r # leader => Replayed(st, first, log, at[r] + 1, X)
    BY ZenonT(30), <1>a, <1>b, <2>1, <2>2, ReplayedNext DEF Replays
  <2>4. stores'[r] = st /\ at'[r] = at[r] + 1 /\ skipped'[r] \cup undecoded'[r] = X
    BY <1>4 DEF Handle, TypeInv, TypeOK
  <2> HIDE DEF X, st
  <2> QED BY ZenonT(30), <1>4, <2>3, <2>4 DEF Handle, Replays, Up, TypeInv, TypeOK
<1>5. ASSUME NEW r \in Processes, HandleReconstructed(r) PROVE Replays'
  <2> DEFINE e == log[at[r] + 1]
             Y == skipped[r] \cup undecoded[r] \cup {e.key}
  <2>0. Up(r) /\ at[r] < Len(log)
    BY <1>5 DEF HandleReconstructed, Up
  <2>1. Up(r) /\ at[r] < Len(log) /\ at[r] + 1 \in 1 .. Len(log)
    BY SMTT(30), <1>a, <1>b, <2>0
  <2>2. e.key \in Keys
    <3>1. e \in Event
      BY <1>a, <2>1
    <3> QED BY <3>1 DEF Event
  <2>3. r # leader => Replayed(stores[r], first, log, at[r], skipped[r] \cup undecoded[r])
    BY ZenonT(30), <2>1 DEF Replays
  <2>4. {log[x].key : x \in (at[r] + 1) .. (at[r] + 1)} \subseteq {e.key}
    BY <1>b
  <2>5. r # leader => Replayed(stores[r], first, log, at[r] + 1, Y)
    BY SMTT(30), <1>b, <2>3, <2>4, ReplayedLater
  <2>6. stores'[r] = stores[r] /\ at'[r] = at[r] + 1 /\ skipped'[r] \cup undecoded'[r] = Y
    BY SMTT(30), <1>5, <1>b, <2>2, ReconstructedIsUnknown DEF HandleReconstructed, TypeInv, TypeOK
  <2> HIDE DEF Y
  <2> QED BY ZenonT(30), <1>5, <2>5, <2>6 DEF HandleReconstructed, Replays, Up, TypeInv, TypeOK
<1>6. ASSUME NEW r \in Processes, Acquire(r) PROVE Replays'
  BY ZenonT(30), <1>6, NoProcessIsNone DEF Acquire, Replays, Up, TypeInv, TypeOK
<1>7. ASSUME NEW r \in Processes, Exit(r) PROVE Replays'
  BY <1>7 DEF Exit, Replays, Up, TypeInv, TypeOK
<1>8. ASSUME NEW n \in Pairs, NEW b \in Owners \cup {n}, AddReference(n, b) PROVE Replays'
  BY <1>8 DEF AddReference, Replays, Up, TypeInv, TypeOK
<1>9. ASSUME NEW m \in Pairs, SaveMapping(m) PROVE Replays'
  <2>1. leader \in Processes /\ m \in stores[leader].mappings
    BY <1>9 DEF SaveMapping, TypeInv, TypeOK
  <2>2. PutOf(stores[leader], m, leader) \in Event
    BY ZenonT(30), <1>b, <2>1, PutEvent
  <2>3. log' = Append(log, PutOf(stores[leader], m, leader))
    BY <1>9 DEF SaveMapping, PutOf
  <2>4. \A r \in Processes : r # leader => stores'[r] = stores[r]
    BY SMTT(30), <1>9 DEF SaveMapping, TypeInv, TypeOK
  <2> QED BY SMTT(30), <1>9, <2>2, <2>3, <2>4, LeaderReplays DEF SaveMapping
<1>10. ASSUME NEW m \in Pairs, DeleteMapping(m) PROVE Replays'
  <2> DEFINE e == DeleteOf(EntryIn(first, log, Len(log), Virtual(m)), m, leader)
  <2>1. leader \in Processes
    BY SMTT(30), <1>10 DEF DeleteMapping, TypeInv, TypeOK
  <2>2. e \in Event
    BY SMTT(30), <1>a, <2>1, DeleteEvent
  <2>3. log' = log \/ log' = Append(log, e)
    BY <1>10 DEF DeleteMapping, DeleteOf, EntryAt
  <2>4. \A r \in Processes : r # leader => stores'[r] = stores[r]
    BY <1>10 DEF DeleteMapping, TypeInv, TypeOK
  <2> HIDE DEF e
  <2>5. UNCHANGED <<status, first, at, leader, skipped, undecoded>>
    BY <1>10 DEF DeleteMapping
  <2> QED BY <2>2, <2>3, <2>4, <2>5, LeaderReplays
<1>11. CASE UNCHANGED vars
  BY <1>11 DEF vars, Replays, Up
<1> QED BY SMTT(30), <1>1, <1>2, <1>3, <1>4, <1>5, <1>6, <1>7, <1>8, <1>9, <1>10, <1>11 DEF Next

\* Nothing is running at first.
LEMMA InitTypes == Init => TypeInv /\ Replays
<1> SUFFICES ASSUME Init PROVE TypeInv /\ Replays
  OBVIOUS
<1>1. TypeInv
  BY InitType
<1>2. Replays
  BY DEF Init, Replays, Up
<1> QED BY <1>1, <1>2

\* A follower's store is the replay of the writes that it listed or handled, under every
\* key of which it missed nothing and that no leader renamed (start, handleEvent).
THEOREM FollowersAlwaysReplay == Spec => []FollowersReplay
<1>1. TypeInv /\ Replays => FollowersReplay
  BY FollowersAreReplays DEF Replays
<1> QED BY <1>1, InitTypes, TypeStep, ReplaysStep, PTL DEF Spec

-----------------------------------------------------------------------------
(* The lookup maps of all processes *)

Indexed == \A r \in Processes : OwnersExact(stores[r])

\* SaveMapping's change to the memory leaves the lookup maps.
LEMMA ClearedIndex ==
    ASSUME NEW st, StoreOK(st), NEW m \in Pairs
    PROVE  LET st2 == [st EXCEPT !.changed[m] = FALSE] IN
           /\ OwnersExact(st) => OwnersExact(st2)
           /\ Exact(st) => Exact(st2)
           /\ st2.mappings = st.mappings /\ st2.references = st.references
           /\ \A x \in Pairs : x # m => st2.changed[x] = st.changed[x]
<1> DEFINE st2 == [st EXCEPT !.changed[m] = FALSE]
<1>1. /\ st2.mappings = st.mappings /\ st2.references = st.references
      /\ st2.hostToVirtual = st.hostToVirtual /\ st2.virtualToHost = st.virtualToHost
      /\ \A x \in Pairs : x # m => st2.changed[x] = st.changed[x]
  BY DEF StoreOK, Store
<1> HIDE DEF st2
<1>2. OwnersExact(st2) <=> OwnersExact(st)
  BY <1>1 DEF OwnersExact, Names
<1>3. AnswersExact(st2) <=> AnswersExact(st)
  BY SMTT(30), <1>1 DEF AnswersExact, Names, HostToVirtualName, VirtualToHostName
<1> QED BY <1>1, <1>2, <1>3 DEF Exact, st2

\* A store without mappings.
LEMMA EmptyStoreExact == Exact(EmptyStore)
BY DEF EmptyStore, Exact, OwnersExact, AnswersExact, Names, NoLookup

\* An event keeps the lists exact, also where names conflict.
LEMMA AppliedOwners ==
    ASSUME NEW st, StoreOK(st), OwnersExact(st), NEW r, NEW e \in Event
    PROVE  OwnersExact(Applied(st, r, e)) /\ \A m : OwnersExact(Dropped(st, m))
<1>1. ASSUME NEW m PROVE OwnersExact(Dropped(st, m)) /\ StoreOK(Dropped(st, m))
  BY FoundIsPair, RemoveMappingOwners, RemoveMappingType DEF Dropped
<1> DEFINE m == SavedPair(e.key, e.entry)
           d == Dropped(st, m)
<1>2. CASE e.sender # r /\ e.type = "put" /\ m \in Verified
  <2>1. m \in Pairs /\ e.key \in Keys /\ e.entry.refs \in SUBSET Pairs
    BY SMTT(30), <1>2, VerifiedArePairs DEF Event, Saved
  <2>2. \E x : DropsOne(d, st, m, x)
    BY SMTT(30), <2>1, DroppedFields
  <2>3. m \notin d.mappings
    BY <2>1, <2>2 DEF DropsOne
  <2>4. Applied(st, r, e) = AddMapping(d, m, e.entry.refs, FALSE)
    BY ZenonT(30), <1>2 DEF Applied
  <2>5. OwnersExact(d) /\ StoreOK(d)
    BY <1>1
  <2> HIDE DEF d, m
  <2> QED BY ZenonT(30), <1>1, <2>1, <2>3, <2>4, <2>5, AddMappingOwners
<1>3. CASE ~(e.sender # r /\ e.type = "put" /\ m \in Verified)
  <2>1. Applied(st, r, e) \in {st, d}
    BY ZenonT(30), <1>3 DEF Applied
  <2> QED BY <1>1, <2>1
<1> QED BY SMTT(30), <1>1, <1>2, <1>3

\* Every step keeps the lists of every process exact.
LEMMA IndexedStep == TypeInv /\ Indexed /\ [Next]_vars => Indexed'
<1> SUFFICES ASSUME TypeInv, Indexed, [Next]_vars PROVE Indexed'
  OBVIOUS
<1>a. \A r \in Processes : StoreOK(stores[r]) /\ OwnersExact(stores[r])
  BY DEF TypeInv, Indexed
<1>b. ASSUME NEW r \in Processes, NEW st, OwnersExact(st), stores' = [stores EXCEPT ![r] = st]
      PROVE  Indexed'
  BY <1>a, <1>b DEF Indexed, TypeInv, TypeOK
<1>1. ASSUME NEW r \in Processes, Start(r) PROVE Indexed'
  BY ZenonT(30), <1>1, <1>b, LoadOwners DEF Start
<1>2. ASSUME NEW r \in Processes, Watch(r) \/ WatchEnds(r) \/ Acquire(r) PROVE Indexed'
  BY <1>2 DEF Watch, WatchEnds, Acquire, Indexed
<1>3. ASSUME NEW r \in Processes, Handle(r) \/ HandleReconstructed(r) PROVE Indexed'
  <2> DEFINE e == log[at[r] + 1]
  <2>1. at[r] + 1 \in 1 .. Len(log)
    <3>1. at[r] < Len(log)
      BY Zenon, <1>3 DEF Handle, HandleReconstructed
    <3>2. at[r] \in Nat /\ Len(log) \in Nat
      BY DEF TypeInv, TypeOK
    <3> QED BY SMTT(30), <3>1, <3>2
  <2>2. e \in Event
    BY <2>1 DEF TypeInv, TypeOK
  <2> HIDE DEF e
  <2>3. OwnersExact(Applied(stores[r], r, e)) /\ \A m : OwnersExact(Dropped(stores[r], m))
    BY SMTT(30), <1>a, <2>2, AppliedOwners
  <2>4. \E st : OwnersExact(st) /\ stores' = [stores EXCEPT ![r] = st]
    <3>1. CASE Handle(r)
      BY Zenon, <2>3, <3>1 DEF Handle, e
    <3>2. CASE HandleReconstructed(r)
      BY Zenon, <2>3, <3>2 DEF HandleReconstructed, e
    <3> QED BY <1>3, <3>1, <3>2
  <2> QED BY ZenonT(30), <1>b, <2>4
<1>4. ASSUME NEW r \in Processes, Exit(r) PROVE Indexed'
  BY ZenonT(30), <1>4, <1>b, EmptyStoreExact DEF Exit, Exact
<1>5. ASSUME NEW n \in Pairs, NEW b \in Owners \cup {n}, AddReference(n, b) PROVE Indexed'
  <2>1. leader \in Processes /\ b \in Pairs
    BY <1>5, OwnersAgree DEF AddReference, TypeInv, TypeOK
  <2>2. OwnersExact(AddReferenceTo(stores[leader], n, b))
    BY SMTT(30), <1>a, <2>1, AddReferenceOwners
  <2>3. stores' = [stores EXCEPT ![leader] = AddReferenceTo(stores[leader], n, b)]
    BY <1>5, <2>1 DEF AddReference, TypeInv, TypeOK
  <2> QED BY ZenonT(30), <1>b, <2>1, <2>2, <2>3
<1>6. ASSUME NEW m \in Pairs, SaveMapping(m) PROVE Indexed'
  <2>1. leader \in Processes
    BY <1>6 DEF SaveMapping, TypeInv, TypeOK
  <2>2. OwnersExact([stores[leader] EXCEPT !.changed[m] = FALSE])
    BY <1>a, <2>1, ClearedIndex
  <2>3. stores' = [stores EXCEPT ![leader] = [stores[leader] EXCEPT !.changed[m] = FALSE]]
    BY <1>6, <2>1 DEF SaveMapping, TypeInv, TypeOK
  <2> QED BY ZenonT(30), <1>b, <2>1, <2>2, <2>3
<1>7. ASSUME NEW m \in Pairs, DeleteMapping(m) PROVE Indexed'
  <2>1. leader \in Processes /\ m \in stores[leader].mappings
    BY <1>7 DEF DeleteMapping, TypeInv, TypeOK
  <2>2. OwnersExact(RemoveMapping(stores[leader], m))
    BY SMTT(30), <1>a, <2>1, RemoveMappingOwners
  <2>3. stores' = [stores EXCEPT ![leader] = RemoveMapping(stores[leader], m)]
    BY <1>7, <2>1 DEF DeleteMapping, TypeInv, TypeOK
  <2> QED BY ZenonT(30), <1>b, <2>1, <2>2, <2>3
<1>8. CASE UNCHANGED vars
  BY <1>8 DEF vars, Indexed
<1> QED BY SMTT(30), <1>1, <1>2, <1>3, <1>4, <1>5, <1>6, <1>7, <1>8 DEF Next

=============================================================================
