------------------------------- MODULE HostNames -------------------------------
(***************************************************************************)
(* How virtual and host objects of one kind find each other: the           *)
(* translation of names (pkg/util/translate), the mapper that every syncer *)
(* has and its recorder (pkg/mappings/generic), and the decisions of the   *)
(* sync controller (pkg/syncer/syncer.go) that rest on them. Host objects  *)
(* may come from others too: users, other vClusters, older versions.       *)
(*                                                                         *)
(* A name is the sequence of the words between its dashes. The mappings    *)
(* store is the set of its pairs (MappingStore has its details), a         *)
(* reconcile is one step and reads current objects (SyncController has     *)
(* its calls and caches).                                                  *)
(***************************************************************************)
EXTENDS ControlPlaneParts, Naturals, Sequences, TLC

CONSTANTS
    NameSetups, \* the settings to explore
    MaxLength,  \* words in a name, for the 63 characters of SafeConcatName
    MaxChanges  \* bound on the changes by users and the restarts

\* Words are numbers: that of the separator and that of the vCluster.
X == 4
VCluster == 5

Unset == <<>>
Nobody == <<Unset, Unset>>

\* What a host object has of vCluster's marker label and annotations. Its origin
\* is history: "us", or "them", or "late" for an object of others that appeared
\* under a name that the store had already.
Labelled(marker, v, host, uid, kind, origin) ==
    [marker |-> marker, v |-> v, host |-> host, uid |-> uid, kind |-> kind, origin |-> origin]

\* A setting: names of virtual objects, those that exist, the host objects at the
\* start, and the ones that others may create.
ASSUME NameSetupsAreRecords ==
    /\ \A u \in NameSetups : u.live \subseteq u.virtual /\ Nobody \notin u.virtual
    /\ {MaxLength, MaxChanges} \subseteq Nat /\ MaxLength > 2

VARIABLES
    naming,     \* the setting, which never changes
    vobjs,      \* the virtual objects: 0 or the UID, by name
    hobjs,      \* the host objects, by name
    table,      \* the pairs of the mappings store
    started,    \* the syncer runs
    toSync,     \* names in its work toSync
    asked,      \* hostNameRequestLookup
    known,      \* names in the virtual object cache
    knownHosts, \* names in the host object cache
    hostEvents, \* events of host objects to come
    changes     \* number of changes so far

nameVars == <<naming, vobjs, hobjs, table, started, toSync, asked, known, knownHosts, hostEvents, changes>>

-----------------------------------------------------------------------------
(* Translation.                                                              *)

\* sha256 without collisions, for words up to 5.
Sum256(full) ==
    LET sum[i \in 0..Len(full)] == IF i = 0 THEN 1 ELSE 6 * sum[i - 1] + full[i] IN 6 + sum[Len(full)]

SafeConcatName(full) ==
    IF Len(full) > MaxLength THEN SubSeq(full, 1, MaxLength - 2) \o <<Sum256(full)>> ELSE full

FullName(v) == v[1] \o <<X>> \o v[2] \o <<X, VCluster>>
HostName(v) == SafeConcatName(FullName(v))

-----------------------------------------------------------------------------
(* The mapper and its recorder.                                              *)

HasHostObject(T, p) == \E t \in T : t[2] = p
HasVirtualObject(T, v) == \E t \in T : t[1] = v
HostToVirtualFromStore(p) == (CHOOSE t \in table : t[2] = p)[1]

\* checkNameConflict.
Conflicts(T, t) == \E u \in T : u # t /\ (u[1] = t[1] \/ u[2] = t[2])

VirtualToHost(v) ==
    IF HasVirtualObject(table, v) THEN (CHOOSE t \in table : t[1] = v)[2] ELSE HostName(v)

\* The object carries the marks of a copy that vCluster made, under name p.
Marked(p, o) ==
    /\ o.marker = "ours"
    /\ o.v # Nobody
    /\ o.kind # "other"
    /\ o.host \in {Unset, p}

\* Trusting the marker label alone (a faulty IsManaged).
IsManagedByMarker(p, o) == HasHostObject(table, p) \/ o.marker = "ours"

IsManaged(p, o) ==
    \/ HasHostObject(table, p)
    \/ Marked(p, o) /\ p = VirtualToHost(o.v)

\* TryToTranslateBackByAnnotations.
TranslateBack(p, o) ==
    IF o.marker \in {"ours", "none"} /\ o.kind # "other" /\ o.host \in {Unset, p} THEN o.v ELSE Nobody

HostToVirtual(p, o) == IF HasHostObject(table, p) THEN HostToVirtualFromStore(p) ELSE TranslateBack(p, o)

\* The tables that AddReferenceAndSave makes of T and the pairs new in some order,
\* where conflicts are logged.
WithRecorded(T, new) ==
    {T \cup S : S \in {R \in SUBSET new :
        /\ \A t \in R : ~Conflicts(T \cup R, t)
        /\ \A t \in new \ R : Conflicts(T \cup R, t)}}

MigrateHost(T) ==
    {<<TranslateBack(p, hobjs[p]), p>> :
        p \in {q \in DOMAIN hobjs : Marked(q, hobjs[q]) /\ ~HasHostObject(T, q)}}

MigrateVirtual(T) ==
    {<<v, HostName(v)>> : v \in {w \in naming.virtual : vobjs[w] # 0 /\ ~HasVirtualObject(T, w)}}

\* Virtual objects first (a faulty Migrate).
MigrateVirtualFirst ==
    \E T \in WithRecorded(table, MigrateVirtual(table)) : table' \in WithRecorded(T, MigrateHost(T))

Migrate ==
    \E T \in WithRecorded(table, MigrateHost(table)) : table' \in WithRecorded(T, MigrateVirtual(T))

-----------------------------------------------------------------------------
Without(f, x) == [y \in DOMAIN f \ {x} |-> f[y]]
With(f, x, y) == [z \in DOMAIN f \cup {x} |-> IF z = x THEN y ELSE f[z]]

\* The host object p becomes o, or goes.
HostPut(p, o) ==
    /\ hobjs' = With(hobjs, p, o)
    /\ hostEvents' = IF p \in DOMAIN hobjs /\ hobjs[p] = o THEN hostEvents ELSE hostEvents \cup {<<p, o>>}
HostDelete(p) ==
    /\ hobjs' = Without(hobjs, p)
    /\ hostEvents' = hostEvents \cup {<<p, hobjs[p]>>}

NamesInit ==
    /\ naming \in Settings("names", NameSetups)
    /\ vobjs = [v \in naming.virtual |-> IF v \in naming.live THEN 1 ELSE 0]
    /\ hobjs = naming.host
    /\ table = {}
    /\ started = FALSE
    /\ toSync = {} /\ asked = [v \in {} |-> Unset] /\ known = {} /\ knownHosts = {} /\ hostEvents = {}
    /\ changes = 0

\* Every object is listed when the controllers start, after the migration. Objects
\* of others whose names have come into the store are late.
StartSyncer ==
    /\ ~started
    /\ started' = TRUE
    /\ Migrate
    /\ hobjs' = [p \in DOMAIN hobjs |->
                   IF HasHostObject(table', p) /\ hobjs[p].origin = "them" THEN [hobjs[p] EXCEPT !.origin = "late"]
                   ELSE hobjs[p]]
    /\ toSync' = {v \in naming.virtual : vobjs[v] # 0}
    /\ hostEvents' = {<<p, hobjs'[p]>> : p \in DOMAIN hobjs}
    /\ UNCHANGED <<naming, vobjs, asked, known, knownHosts, changes>>

StopSyncer ==
    /\ started /\ changes < MaxChanges
    /\ started' = FALSE
    /\ toSync' = {} /\ asked' = [v \in {} |-> Unset] /\ known' = {} /\ knownHosts' = {} /\ hostEvents' = {}
    /\ changes' = changes + 1
    /\ UNCHANGED <<naming, vobjs, hobjs, table>>

enqueuePhysical ==
    /\ started
    /\ \E e \in hostEvents :
          LET v == HostToVirtual(e[1], e[2])
          IN /\ hostEvents' = hostEvents \ {e}
             /\ IF IsManaged(e[1], e[2]) /\ v \in naming.virtual
                THEN toSync' = toSync \cup {v} /\ asked' = With(asked, v, e[1])
                ELSE UNCHANGED <<toSync, asked>>
    /\ UNCHANGED <<naming, vobjs, hobjs, table, started, known, knownHosts, changes>>

-----------------------------------------------------------------------------
(* Reconcile.                                                                *)

\* HostMetadata, HostAnnotations: the copy of v under name p.
HostMetadata(v, p, origin) == Labelled("ours", v, p, vobjs[v], "same", origin)

ShouldDeleteHostObject(p, o) == o.kind = "same" /\ o.v # Nobody /\ o.host = p

\* The request is done, or comes back with its host name.
Finished(v) == toSync' = toSync \ {v} /\ asked' = Without(asked, v)
Failed == UNCHANGED <<toSync, asked>>

\* Both object caches forget the pair.
DeleteHostObject(v, p) ==
    /\ HostDelete(p)
    /\ known' = known \ {v} /\ knownHosts' = knownHosts \ {p}
    /\ Finished(v)
    /\ UNCHANGED <<vobjs, table>>

DeleteVirtualObject(v, p) ==
    /\ vobjs' = [vobjs EXCEPT ![v] = 0]
    /\ known' = known \ {v} /\ knownHosts' = knownHosts \ {p}
    /\ toSync' = toSync \cup {v} /\ asked' = Without(asked, v)
    /\ UNCHANGED <<hobjs, hostEvents, table>>

\* The copy of an earlier virtual object is deleted; any other gets the marks.
SyncBoth(v, p) ==
    IF hobjs[p].uid \notin {0, vobjs[v]} /\ hobjs[p].kind # "other"
    THEN DeleteHostObject(v, p)
    ELSE /\ HostPut(p, HostMetadata(v, p, hobjs[p].origin))
         /\ known' = known \cup {v} /\ knownHosts' = knownHosts \cup {p}
         /\ Finished(v)
         /\ UNCHANGED <<vobjs, table>>

\* If there was a copy under the name p, the virtual object goes too. Otherwise the
\* name is recorded before the copy is created, which fails without a name and
\* does nothing if there is an object of that name.
SyncNameToHost(v, p) ==
    LET q == VirtualToHost(v)
        refused == Conflicts(table, <<v, q>>)
    IN IF p \in knownHosts
       THEN DeleteVirtualObject(v, p)
       ELSE /\ table' = IF refused THEN table ELSE table \cup {<<v, q>>}
            /\ known' = known \cup {v}
            /\ IF refused THEN Failed ELSE Finished(v)
            /\ IF refused \/ q \in DOMAIN hobjs
               THEN UNCHANGED <<hobjs, hostEvents, knownHosts>>
               ELSE HostPut(q, HostMetadata(v, q, "us")) /\ knownHosts' = knownHosts \cup {q}
            /\ UNCHANGED vobjs

\* A host object that is not a known copy becomes a virtual object.
SyncNameToVirtual(v, p) ==
    IF v \in known \/ ShouldDeleteHostObject(p, hobjs[p])
    THEN DeleteHostObject(v, p)
    ELSE /\ vobjs' = [vobjs EXCEPT ![v] = changes + 2]
         /\ toSync' = toSync \cup {v} /\ asked' = Without(asked, v)
         /\ known' = known \cup {v} /\ knownHosts' = knownHosts \cup {p}
         /\ UNCHANGED <<hobjs, hostEvents, table>>

ReconcileName(v) ==
    /\ started /\ v \in toSync
    /\ LET p == IF v \in DOMAIN asked THEN asked[v] ELSE VirtualToHost(v)
           exists == p \in DOMAIN hobjs
       IN \/ exists /\ ~IsManaged(p, hobjs[p])
             /\ Finished(v) /\ UNCHANGED <<vobjs, hobjs, table, known, knownHosts, hostEvents>>
          \/ exists /\ IsManaged(p, hobjs[p]) /\ vobjs[v] # 0 /\ SyncBoth(v, p)
          \/ exists /\ IsManaged(p, hobjs[p]) /\ vobjs[v] = 0 /\ SyncNameToVirtual(v, p)
          \/ ~exists /\ vobjs[v] # 0 /\ SyncNameToHost(v, p)
          \/ ~exists /\ vobjs[v] = 0
             /\ Finished(v) /\ UNCHANGED <<vobjs, hobjs, table, known, knownHosts, hostEvents>>
    /\ UNCHANGED <<naming, started, changes>>

\* Garbage collection of the store and of the object cache.
CollectNames ==
    /\ started
    /\ \E t \in table : vobjs[t[1]] = 0 /\ t[2] \notin DOMAIN hobjs /\ table' = table \ {t}
    /\ UNCHANGED <<naming, vobjs, hobjs, started, toSync, asked, known, knownHosts, hostEvents, changes>>
CollectKnown ==
    /\ started
    /\ \/ \E p \in knownHosts \ DOMAIN hobjs :
             LET v == HostToVirtualFromStore(p)
             IN /\ HasHostObject(table, p) => vobjs[v] = 0
                /\ knownHosts' = knownHosts \ {p}
                /\ known' = IF HasHostObject(table, p) THEN known \ {v} ELSE known
       \/ \E v \in known :
             /\ vobjs[v] = 0 /\ VirtualToHost(v) \notin DOMAIN hobjs
             /\ known' = known \ {v}
             /\ UNCHANGED knownHosts
    /\ UNCHANGED <<naming, vobjs, hobjs, table, started, toSync, asked, hostEvents, changes>>

-----------------------------------------------------------------------------
(* Users of both clusters.                                                   *)

Changed == changes < MaxChanges /\ changes' = changes + 1

ChangeVirtual(v) ==
    /\ Changed
    /\ vobjs' = [vobjs EXCEPT ![v] = IF @ = 0 THEN changes + 2 ELSE 0]
    /\ toSync' = IF started THEN toSync \cup {v} ELSE toSync
    /\ UNCHANGED <<naming, hobjs, table, started, asked, known, knownHosts, hostEvents>>

\* Others create an object, some by copying what vCluster made, labels and all, if
\* the store has its name: an old object that was copied before the first migration
\* cannot be told from its copy.
Strangers ==
    {[name |-> s.name,
      object |-> IF s.copies \in DOMAIN hobjs /\ HasHostObject(table, s.copies)
                THEN [hobjs[s.copies] EXCEPT !.origin = "them"]
                ELSE s.object] :
        s \in naming.strangers}

ChangeHost ==
    /\ Changed
    /\ \/ \E s \in Strangers :
             /\ s.name \notin DOMAIN hobjs
             /\ HostPut(s.name, IF HasHostObject(table, s.name) THEN [s.object EXCEPT !.origin = "late"] ELSE s.object)
       \/ \E p \in DOMAIN hobjs : HostDelete(p)
    /\ UNCHANGED <<naming, vobjs, table, started, toSync, asked, known, knownHosts>>

-----------------------------------------------------------------------------
NamesNext ==
    \/ StartSyncer \/ StopSyncer \/ enqueuePhysical \/ CollectNames \/ CollectKnown \/ ChangeHost
    \/ \E v \in naming.virtual : ReconcileName(v) \/ ChangeVirtual(v)

NamesFairness ==
    /\ WF_nameVars(part = "names" /\ (StartSyncer \/ enqueuePhysical))
    /\ WF_nameVars(part = "names" /\ (CollectNames \/ CollectKnown))
    /\ \A v \in UNION {u.virtual : u \in NameSetups} :
         WF_nameVars(part = "names" /\ v \in naming.virtual /\ ReconcileName(v))

-----------------------------------------------------------------------------
\* The names that come up in a setting.
HostObjects ==
    [marker: {"ours", "other", "none"}, v: naming.virtual \cup {Nobody}, host: Seq(Nat), uid: 0..MaxChanges + 3,
     kind: {"none", "same", "other"}, origin: {"us", "them", "late"}]

NamesTypeOK ==
    /\ vobjs \in [naming.virtual -> 0..MaxChanges + 2]
    /\ \A p \in DOMAIN hobjs : hobjs[p] \in HostObjects
    /\ \A t \in table : t[1] \in naming.virtual /\ ~Conflicts(table, t)
    /\ toSync \cup known \cup DOMAIN asked \subseteq naming.virtual

\* Another virtual object has the same words in its name.
Shared(v) == \E w \in naming.virtual \ {v} : FullName(w) = FullName(v)

\* The syncer neither deletes nor gives away the host object of a virtual object
\* that exists (syncer.go Reconcile, "virtual object uid is different"), as long as
\* no other virtual object has the same words in its name and namespace.
HostObjectKept ==
    changes' = changes =>
        \A p \in DOMAIN hobjs :
            LET o == hobjs[p]
            IN o.origin = "us" /\ vobjs[o.v] = o.uid /\ ~Shared(o.v)
               => p \in DOMAIN hobjs' /\ hobjs'[p].v = o.v

\* The syncer does not touch host objects that it has not made, whatever labels and
\* annotations they have (single_namespace.go IsManaged), unless the store had the
\* name before the object came, or got it in a migration.
StrangersKept ==
    changes' = changes =>
        \A p \in DOMAIN hobjs :
            hobjs[p].origin = "them"
            => p \in DOMAIN hobjs' /\ [hobjs'[p] EXCEPT !.origin = "them"] = hobjs[p]

\* A virtual object never has two copies on the host, even if the first was made
\* under another name by an older version (recorder.go Migrate).
OneHostObject ==
    \A p, q \in DOMAIN hobjs :
        hobjs[p].origin = "us" /\ hobjs[q].origin = "us" /\ hobjs[p].v = hobjs[q].v => p = q

\* Every virtual object comes to have its copy, and nothing else has one, unless
\* others have an object of that name or another name has the same words
\* (syncer.go, enqueuePhysical and Reconcile).
Settled(v) ==
    IF vobjs[v] # 0
    THEN \E p \in DOMAIN hobjs : hobjs[p].v = v /\ hobjs[p].uid = vobjs[v]
    ELSE \A p \in DOMAIN hobjs : ~(hobjs[p].v = v /\ hobjs[p].origin = "us")

NamesSettle ==
    []<>(part = "names" =>
           \A v \in naming.virtual :
              Shared(v) \/ (\E s \in naming.strangers : s.name = HostName(v)) \/ Settled(v))

=============================================================================
