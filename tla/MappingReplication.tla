-------------------------- MODULE MappingReplication --------------------------
(***************************************************************************)
(* The mappings stores of several vcluster processes on one etcd. Every    *)
(* process lists the mappings, then follows a watch                        *)
(* (pkg/mappings/store/store.go start and handleEvent,                     *)
(* backend_etcd.go Watch); the elected leader alone changes them           *)
(* (pkg/leaderelection, pkg/setup/controllers.go).                         *)
(*                                                                         *)
(* A process that loses leadership exits, so a process here runs once; the *)
(* next incarnation is another member of Processes with a sender id of its *)
(* own. The lease is taken to work: there is one leader at a time.         *)
(***************************************************************************)
EXTENDS MappingBackend, Sequences, FiniteSetsExt

CONSTANTS
    Processes,      \* processes, named by their sender id
    NoProcess,      \* no leader; also the sender of what is in etcd at first
    Owners,         \* owners in sync contexts that are not the name itself
    Lower,          \* strings.ToLower on the kind, as mappingToKey applies it
    Backends,       \* what an earlier process may have left in etcd
    MaxLog          \* bound on the writes to etcd

\* Kinds are written in camel case, so that no object has a kind in lower case.
ASSUME LowerMapsKinds ==
    /\ Lower \in [Kinds -> Kinds]
    /\ \A n \in Pairs : \A k \in Kinds : n.kind # Lower[k]
ASSUME OwnersAgree == Owners \subseteq {b \in Pairs : \A n \in Pairs : ~Conflicting(b, n)}
ASSUME NoProcessIsNone == NoProcess \notin Processes
ASSUME ReplicationBound == MaxLog \in Nat
ASSUME BackendsAreTyped == \A be \in Backends : BackendOK(be)
\* An earlier process left no conflicting names.
ASSUME BackendsAgree == \A be \in Backends : Sound(be)

VARIABLES
    stores,     \* the Store of each process
    status,     \* "new", "listed", "watching" or "gone"
    first,      \* what etcd held at first
    log,        \* the writes since then, in the order of their revisions
    at,         \* how many of them the process has listed or handled
    leader,
    skipped,    \* history: keys written while the process had listed but did not
                \* watch, or not handled yet when it began to lead
    undecoded,  \* history: keys whose deletion reached the process without its value
    echoed      \* history: keys whose mapping a leader dropped because of its own deletion

vars == <<stores, status, first, log, at, leader, skipped, undecoded, echoed>>

Event == [type: {"put", "delete"}, key: Keys, entry: Saved,
          sender: Processes \cup {NoProcess}, writer: Processes]

\* A key in etcd after the first i writes of l, and who wrote its value.
WritesTo(l, i, k) == {j \in 1 .. i : l[j].key = k}
EntryIn(be, l, i, k) ==
    LET last == l[Max(WritesTo(l, i, k))]
    IN IF WritesTo(l, i, k) = {} THEN [entry |-> be[k], sender |-> NoProcess]
       ELSE IF last.type = "delete" THEN [entry |-> NothingSaved, sender |-> NoProcess]
       ELSE [entry |-> last.entry, sender |-> last.sender]

EntryAt(i, k) == EntryIn(first, log, i, k)
EtcdAt(i) == [k \in Keys |-> EntryAt(i, k).entry]
Etcd == EtcdAt(Len(log))

-----------------------------------------------------------------------------
Init ==
    /\ stores = [r \in Processes |-> EmptyStore]
    /\ status = [r \in Processes |-> "new"]
    /\ first \in Backends
    /\ log = <<>>
    /\ at = [r \in Processes |-> 0]
    /\ leader = NoProcess
    /\ skipped = [r \in Processes |-> {}]
    /\ undecoded = [r \in Processes |-> {}]
    /\ echoed = {}

\* start: List, and everything in it that verifies is added.
Start(r) ==
    /\ status[r] = "new"
    /\ stores' = [stores EXCEPT ![r] = Load(Etcd)]
    /\ status' = [status EXCEPT ![r] = "listed"]
    /\ at' = [at EXCEPT ![r] = Len(log)]
    /\ UNCHANGED <<first, log, leader, skipped, undecoded, echoed>>

Pending(r) == {log[i].key : i \in (at[r] + 1) .. Len(log)}

\* Faulty variant: the position is one too far.
WatchPastEnd(r) ==
    /\ status[r] = "listed"
    /\ status' = [status EXCEPT ![r] = "watching"]
    /\ at' = [at EXCEPT ![r] = Len(log) + 1]
    /\ skipped' = [skipped EXCEPT ![r] = @ \cup Pending(r)]
    /\ UNCHANGED <<stores, first, log, leader, undecoded, echoed>>

\* backend.Watch asks etcd for what is written from now on.
Watch(r) ==
    /\ status[r] = "listed"
    /\ status' = [status EXCEPT ![r] = "watching"]
    /\ at' = [at EXCEPT ![r] = Len(log)]
    /\ skipped' = [skipped EXCEPT ![r] = @ \cup Pending(r)]
    /\ UNCHANGED <<stores, first, log, leader, undecoded, echoed>>

\* The watch is canceled or its channel closes; a second later start's loop
\* watches anew.
WatchEnds(r) ==
    /\ status[r] = "watching"
    /\ status' = [status EXCEPT ![r] = "listed"]
    /\ UNCHANGED <<stores, first, log, at, leader, skipped, undecoded, echoed>>

-----------------------------------------------------------------------------
(* handleEvent *)

Dropped(st, m) == IF Found(st, m) THEN RemoveMapping(st, Completed(st, m)) ELSE st

\* Faulty variant: an update is added next to what is there.
AppliedOnTop(st, r, e) ==
    LET m == SavedPair(e.key, e.entry)
    IN IF e.sender = r \/ (e.type = "put" /\ m \notin Verified) THEN st
       ELSE IF e.type = "put" THEN AddMapping(st, m, e.entry.refs, FALSE)
       ELSE Dropped(st, m)

\* Faulty variant: an update of a mapping that is not there is ignored.
AppliedToKnown(st, r, e) ==
    LET m == SavedPair(e.key, e.entry)
    IN IF e.sender = r \/ (e.type = "put" /\ m \notin Verified) \/ ~Found(st, m) THEN st
       ELSE IF e.type = "put" THEN AddMapping(Dropped(st, m), m, e.entry.refs, FALSE)
       ELSE Dropped(st, m)

\* An event of another sender: the mapping is removed in any case, and added
\* again when it is an update of a mapping that verifies. A deletion carries
\* the sender of the value it deleted.
Applied(st, r, e) ==
    LET m == SavedPair(e.key, e.entry)
    IN IF e.sender = r \/ (e.type = "put" /\ m \notin Verified) THEN st
       ELSE IF e.type = "put" THEN AddMapping(Dropped(st, m), m, e.entry.refs, FALSE)
       ELSE Dropped(st, m)

\* reconstructNameMappingFromKey: the key has the kind in lower case, and no
\* host name.
Reconstructed(key) == [kind |-> Lower[key[1]], v |-> key[2], p |-> None]

\* The process drops a mapping because of a deletion that it wrote itself.
Echo(st, r, e) == e.type = "delete" /\ e.writer = r /\ Applied(st, r, e) # st

Handle(r) ==
    /\ status[r] = "watching"
    /\ at[r] < Len(log)
    /\ stores' = [stores EXCEPT ![r] = Applied(@, r, log[at[r] + 1])]
    /\ at' = [at EXCEPT ![r] = @ + 1]
    /\ echoed' = IF Echo(stores[r], r, log[at[r] + 1]) THEN echoed \cup {log[at[r] + 1].key} ELSE echoed
    /\ UNCHANGED <<status, first, log, leader, skipped, undecoded>>

\* A deletion whose previous value etcd no longer has.
HandleReconstructed(r) ==
    LET e == log[at[r] + 1]
    IN /\ status[r] = "watching"
       /\ at[r] < Len(log)
       /\ e.type = "delete"
       /\ stores' = [stores EXCEPT ![r] = Dropped(@, Reconstructed(e.key))]
       /\ at' = [at EXCEPT ![r] = @ + 1]
       /\ undecoded' = [undecoded EXCEPT ![r] = @ \cup {e.key}]
       /\ UNCHANGED <<status, first, log, leader, skipped, echoed>>

-----------------------------------------------------------------------------
(* Leadership and the leader's changes. *)

\* OnStartedLeading does not wait for the watch to catch up.
Acquire(r) ==
    /\ leader = NoProcess
    /\ status[r] \in {"listed", "watching"}
    /\ leader' = r
    /\ skipped' = [skipped EXCEPT ![r] = @ \cup Pending(r)]
    /\ UNCHANGED <<stores, status, first, log, at, undecoded, echoed>>

AddReference(n, b) ==
    /\ leader # NoProcess
    /\ ~NameConflict(stores[leader], n)
    /\ stores' = [stores EXCEPT ![leader] = AddReferenceTo(@, n, b)]
    /\ UNCHANGED <<status, first, log, at, leader, skipped, undecoded, echoed>>

\* Faulty variant: the mapping is written without its references.
SaveMappingBare(m) ==
    /\ leader # NoProcess
    /\ Len(log) < MaxLog
    /\ m \in stores[leader].mappings /\ stores[leader].changed[m]
    /\ log' = Append(log, [type |-> "put", key |-> Virtual(m),
                           entry |-> [p |-> m.p, refs |-> {}],
                           sender |-> leader, writer |-> leader])
    /\ stores' = [stores EXCEPT ![leader].changed[m] = FALSE]
    /\ UNCHANGED <<status, first, at, leader, skipped, undecoded, echoed>>

\* SaveMapping sets the sender and writes; a failed write changes nothing.
SaveMapping(m) ==
    /\ leader # NoProcess
    /\ Len(log) < MaxLog
    /\ m \in stores[leader].mappings /\ stores[leader].changed[m]
    /\ log' = Append(log, [type |-> "put", key |-> Virtual(m),
                           entry |-> [p |-> m.p, refs |-> stores[leader].references[m]],
                           sender |-> leader, writer |-> leader])
    /\ stores' = [stores EXCEPT ![leader].changed[m] = FALSE]
    /\ UNCHANGED <<status, first, at, leader, skipped, undecoded, echoed>>

\* DeleteMapping and the garbage collector: etcd first, then the memory. etcd
\* reports a deletion only for a key that it holds.
DeleteMapping(m) ==
    LET old == EntryAt(Len(log), Virtual(m))
    IN /\ leader # NoProcess
       /\ Len(log) < MaxLog
       /\ m \in stores[leader].mappings
       /\ log' = IF old.entry = NothingSaved THEN log
                 ELSE Append(log, [type |-> "delete", key |-> Virtual(m),
                                   entry |-> old.entry, sender |-> old.sender,
                                   writer |-> leader])
       /\ stores' = [stores EXCEPT ![leader] = RemoveMapping(@, m)]
       /\ UNCHANGED <<status, first, at, leader, skipped, undecoded, echoed>>

\* A crash, or OnStoppedLeading: the process exits.
Exit(r) ==
    /\ status[r] \in {"listed", "watching"}
    /\ status' = [status EXCEPT ![r] = "gone"]
    /\ stores' = [stores EXCEPT ![r] = EmptyStore]
    /\ leader' = IF leader = r THEN NoProcess ELSE leader
    /\ UNCHANGED <<first, log, at, skipped, undecoded, echoed>>

Next ==
    \/ \E r \in Processes :
        \/ Start(r) \/ Watch(r) \/ WatchEnds(r)
        \/ Handle(r) \/ HandleReconstructed(r)
        \/ Acquire(r) \/ Exit(r)
    \/ \E n \in Pairs : \E b \in Owners \cup {n} : AddReference(n, b)
    \/ \E m \in Pairs : SaveMapping(m) \/ DeleteMapping(m)

Spec == Init /\ [][Next]_vars

-----------------------------------------------------------------------------
\* Types of the replicated stores, the log and the positions in it.
TypeOK ==
    /\ stores \in [Processes -> Store]
    /\ status \in [Processes -> {"new", "listed", "watching", "gone"}]
    /\ first \in Backends
    /\ log \in Seq(Event) /\ Len(log) <= MaxLog
    /\ at \in [Processes -> 0 .. Len(log)]
    /\ leader \in Processes \cup {NoProcess}
    /\ skipped \in [Processes -> SUBSET Keys]
    /\ undecoded \in [Processes -> SUBSET Keys]
    /\ echoed \subseteq Keys

Up(r) == status[r] \in {"listed", "watching"}

\* Of the mappings under one key the process has the one etcd holds.
SameUnder(st, be, k) ==
    /\ {m \in st.mappings : Virtual(m) = k} = {m \in Loaded(be) : Virtual(m) = k}
    /\ \A m \in Loaded(be) : Virtual(m) = k => st.references[m] = SavedReferences(be, m)

\* Keys under which a leader has put a mapping over another one that verifies, up to
\* the i-th write: handleEvent drops the mapping of the event and not the one under its
\* key, so that a follower ends with both.
Renamed(i) ==
    {log[j].key : j \in {j \in 1 .. i :
        /\ log[j].type = "put"
        /\ SavedPair(log[j].key, EntryAt(j - 1, log[j].key).entry)
              \in Verified \ {SavedPair(log[j].key, log[j].entry)}}}

\* A follower's store is etcd as it was at the last event it handled, under
\* every key except those whose writes its watch never delivered, whose
\* deletion came without a value, or that a leader has renamed (start, handleEvent).
FollowersReplay ==
    \A r \in Processes : Up(r) /\ r # leader =>
        \A k \in Keys \ (skipped[r] \cup undecoded[r] \cup Renamed(at[r])) :
            SameUnder(stores[r], EtcdAt(at[r]), k)

\* No process missed a write, and no leader undid its own.
NothingMissed == echoed = {} /\ \A r \in Processes : skipped[r] \cup undecoded[r] = {}

\* Whatever a process missed, its lookup maps list exactly the mappings that it
\* has; and as long as nothing was missed, no two of them disagree on a name
\* and every answer is that name, however often leadership changed.
ReplicasIndexed ==
    \A r \in Processes :
        /\ OwnersExact(stores[r])
        /\ NothingMissed => AnswersExact(stores[r])

\* As long as nothing was missed, what a leader does not mark as changed is in etcd as
\* it is in memory, also after it took over from a process that died between two
\* writes; and no leader has put a second host name over the one that etcd holds.
LeaderPersists ==
    NothingMissed =>
        /\ Renamed(Len(log)) = {}
        /\ leader # NoProcess =>
              \A m \in stores[leader].mappings : ~stores[leader].changed[m] =>
                  Etcd[Virtual(m)] = [p |-> m.p, refs |-> stores[leader].references[m]]

-----------------------------------------------------------------------------
(* What the comments say, and the code does not do. *)

CaughtUp(r) == status[r] = "watching" /\ at[r] = Len(log)

\* "remove mapping in any case, the mapping can be incomplete here for
\* DeleteReconstructed events": a handled deletion leaves no mapping.
DeletionsHandled ==
    \A r \in Processes : CaughtUp(r) /\ r # leader /\ skipped[r] = {} =>
        \A k \in Keys : SameUnder(stores[r], Etcd, k)
=============================================================================
