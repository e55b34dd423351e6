----------------------------- MODULE MappingStore -----------------------------
(***************************************************************************)
(* The mappings store of the leading vcluster process with its callers:    *)
(* the recorder that looks a name up and then records it                   *)
(* (pkg/mappings/generic/recorder.go), the migration of mappings at start  *)
(* (MigrateMappers, and the services mapper's repair of default/kubernetes *)
(* in pkg/mappings/resources/services.go), the garbage collector, the etcd *)
(* backend and process restarts.                                           *)
(*                                                                         *)
(* Every method of the store holds the store's mutex, so a method is one   *)
(* step; a caller that uses two methods takes two steps, and other callers *)
(* may run in between.                                                     *)
(***************************************************************************)
EXTENDS MappingBackend

CONSTANTS
    Owners,         \* the owning mappings found in sync contexts; may lack a side
    HostNameOf,     \* Mapper.VirtualToHost below the recorder
    VirtualNameOf,  \* Mapper.HostToVirtual below the recorder
    Kubernetes,     \* the default/kubernetes service on its expected host service
    Volatile,       \* the objects that come and go; others are absent
    Backends,       \* what an earlier process may have left in etcd
    MaxCalls        \* bound on calls in flight (the code: 10 workers per syncer)

Objects == [side: {"virtual"}, object: VirtualObjects] \cup [side: {"host"}, object: HostObjects]
VirtualObject(m) == [side |-> "virtual", object |-> Virtual(m)]
HostObject(m) == [side |-> "host", object |-> Host(m)]

ASSUME OwnersAreMappings ==
    Owners \subseteq {b \in NameMapping : ~Empty(b) /\ (b.v # None /\ b.p # None => b \in Pairs)}
ASSUME TranslatedNames ==
    /\ HostNameOf \in [VirtualObjects -> HNames \cup {None}]
    /\ VirtualNameOf \in [HostObjects -> VNames \cup {None}]
    /\ \A o \in VirtualObjects : HostNameOf[o] # None =>
          [kind |-> o[1], v |-> o[2], p |-> HostNameOf[o]] \in Pairs
    /\ \A o \in HostObjects : VirtualNameOf[o] # None =>
          [kind |-> o[1], v |-> VirtualNameOf[o], p |-> o[2]] \in Pairs
ASSUME KubernetesIsVerified == Kubernetes \in Verified
ASSUME BackendsAreSaved ==
    \A be \in Backends :
        /\ BackendOK(be)
        /\ \A k \in Keys : be[k].p = None => be[k] = NothingSaved
ASSUME VolatileAreObjects == Volatile \subseteq Objects
ASSUME BoundsAreBounds == MaxCalls \in Nat \ {0}

VARIABLES
    store,      \* the Store
    backend,    \* etcd, under MappingsPrefix
    stage,      \* how far StartControllers has come
    calls,      \* AddReferenceAndSave and Close calls in flight
    fixing,     \* the wrong default/kubernetes mapping under repair
    dropping,   \* the references to it still to be deleted
    gc,         \* the garbage collector
    present,    \* the virtual and host objects that exist
    lossy       \* whether a backend write that fails may still take effect

vars == <<store, backend, stage, calls, fixing, dropping, gc, present, lossy>>

Stages == {"migrate", "drop", "add", "migrated", "running"}
Repairing == {"drop", "add"}
Call == [name: Pairs, owner: Owners \cup Pairs, step: {"add", "save"}]
Collector == [todo: SUBSET Pairs, at: Pairs \cup {None}, step: {"next", "host", "collect"}]
NoCollection == [todo |-> {}, at |-> None, step |-> "next"]

-----------------------------------------------------------------------------
\* A failed write leaves the backend as it was, or, when only the reply was
\* lost, as if it had succeeded.
FailedWrite(written) == backend' \in {backend} \cup (IF lossy THEN {written} ELSE {})

-----------------------------------------------------------------------------
Init ==
    /\ backend \in Backends
    /\ store = Load(backend)
    /\ stage = "migrate"
    /\ calls = {}
    /\ fixing = Kubernetes
    /\ dropping = {}
    /\ gc = NoCollection
    /\ present \in SUBSET Volatile
    /\ lossy \in BOOLEAN

\* The process exits (a fatal error, a crash, leadership lost) and the next
\* leader loads the store.
StartOver(be) ==
    /\ store' = Load(be)
    /\ stage' = "migrate"
    /\ calls' = {}
    /\ fixing' = Kubernetes
    /\ dropping' = {}
    /\ gc' = NoCollection
    /\ UNCHANGED present

Restart == StartOver(backend) /\ UNCHANGED backend

Start(c) ==
    /\ Cardinality(calls) < MaxCalls
    /\ calls' = calls \cup {c}

-----------------------------------------------------------------------------
(* Callers *)

\* recorder.VirtualToHost and HostToVirtual: the store's answer if there is
\* one, else the mapper's; then RecordMapping for the owner in the context.
ResolveVirtual(o, b) ==
    LET known == VirtualToHostName(store, o)
        p == IF known # None THEN known ELSE HostNameOf[o]
    IN /\ stage = "running"
       /\ p # None
       /\ Start([name |-> [kind |-> o[1], v |-> o[2], p |-> p], owner |-> b, step |-> "add"])
       /\ UNCHANGED <<store, backend, stage, fixing, dropping, gc, present>>

ResolveHost(o, b) ==
    LET known == HostToVirtualName(store, o)
        v == IF known # None THEN known ELSE VirtualNameOf[o]
    IN /\ stage = "running"
       /\ v # None
       /\ Start([name |-> [kind |-> o[1], v |-> v, p |-> o[2]], owner |-> b, step |-> "add"])
       /\ UNCHANGED <<store, backend, stage, fixing, dropping, gc, present>>

\* recorder.Migrate: before any controller runs, every object that exists and
\* is not in the store yet is recorded as its own owner.
MigrateHost(o) ==
    LET n == [kind |-> o[1], v |-> VirtualNameOf[o], p |-> o[2]]
    IN /\ stage \in {"migrate", "migrated"} /\ calls = {}
       /\ [side |-> "host", object |-> o] \in present
       /\ HostToVirtualName(store, o) = None
       /\ n.v # None
       /\ calls' = {[name |-> n, owner |-> n, step |-> "add"]}
       /\ UNCHANGED <<store, backend, stage, fixing, dropping, gc, present>>

MigrateVirtual(o) ==
    LET n == [kind |-> o[1], v |-> o[2], p |-> HostNameOf[o]]
    IN /\ stage \in {"migrate", "migrated"} /\ calls = {}
       /\ [side |-> "virtual", object |-> o] \in present
       /\ VirtualToHostName(store, o) = None
       /\ n.p # None
       /\ calls' = {[name |-> n, owner |-> n, step |-> "add"]}
       /\ UNCHANGED <<store, backend, stage, fixing, dropping, gc, present>>

\* AddReference, the first half of AddReferenceAndSave. A conflict is an error:
\* the call ends, and during the services repair it ends the process.
AddReference(c) ==
    /\ c.step = "add"
    /\ ~NameConflict(store, c.name)
    /\ store' = AddReferenceTo(store, c.name, c.owner)
    /\ calls' = (calls \ {c}) \cup {[c EXCEPT !.step = "save"]}
    /\ UNCHANGED <<backend, stage, fixing, dropping, gc, present>>

\* Faulty variant: the name in use makes way for the new one.
RejectReferenceTakesOver(c) ==
    LET inUse == {m \in store.mappings : Conflicting(m, c.name) /\ Names(store, m) = {m}}
        m == CHOOSE m \in inUse : TRUE
    IN /\ c.step = "add"
       /\ NameConflict(store, c.name)
       /\ stage \notin Repairing
       /\ calls' = calls \ {c}
       /\ IF Cardinality(inUse) = 1 /\ store.virtualToHost[Virtual(m)].owners = {m}
                                   /\ store.hostToVirtual[Host(m)].owners = {m}
          THEN /\ store' = AddReferenceTo(RemoveMapping(store, m), c.name, c.name)
               /\ backend' = Remove(backend, m)
          ELSE UNCHANGED <<store, backend>>
       /\ UNCHANGED <<stage, fixing, dropping, gc, present>>

RejectReference(c) ==
    /\ c.step = "add"
    /\ NameConflict(store, c.name)
    /\ UNCHANGED backend
    /\ \/ /\ stage \notin Repairing
          /\ calls' = calls \ {c}
          /\ UNCHANGED <<store, stage, fixing, dropping, gc, present>>
       \/ /\ stage \in Repairing
          /\ StartOver(backend)

\* SyncContext.Close: at the end of every reconcile the owner is saved.
Close(b) ==
    /\ stage = "running"
    /\ Start([name |-> Kubernetes, owner |-> b, step |-> "save"])
    /\ UNCHANGED <<store, backend, stage, fixing, dropping, gc, present>>

\* SaveMapping.
ToSave(b) == Found(store, b) /\ store.changed[Completed(store, b)]

SaveMapping(c) ==
    LET m == Completed(store, c.owner)
    IN /\ c.step = "save"
       /\ IF ToSave(c.owner)
          THEN /\ backend' = Put(backend, store, m)
               /\ store' = [store EXCEPT !.changed[m] = FALSE]
          ELSE UNCHANGED <<backend, store>>
       /\ calls' = calls \ {c}
       /\ UNCHANGED <<stage, fixing, dropping, gc, present>>

\* The failed save is logged or returned; the mapping stays changed. During the
\* services repair the error ends the process.
SaveMappingFails(c) ==
    /\ c.step = "save"
    /\ ToSave(c.owner)
    /\ FailedWrite(Put(backend, store, Completed(store, c.owner)))
    /\ \/ /\ stage \notin Repairing
          /\ calls' = calls \ {c}
          /\ UNCHANGED <<store, stage, fixing, dropping, gc, present>>
       \/ /\ stage \in Repairing
          /\ StartOver(backend')

-----------------------------------------------------------------------------
(* servicesMapper.Migrate: the repair of default/kubernetes. *)

Existing ==
    [Kubernetes EXCEPT !.p = VirtualToHostName(store, Virtual(Kubernetes))]

\* Faulty variant: a wrong name that is only a reference is not noticed.
WrongKubernetesMapping == Existing \in store.mappings \ {Kubernetes}

WrongKubernetes ==
    VirtualToHostName(store, Virtual(Kubernetes)) \notin {None, Kubernetes.p}

\* DeleteMapping(existing), then the references to collect are read.
RepairDelete ==
    /\ stage = "migrate" /\ calls = {}
    /\ WrongKubernetes
    /\ IF Found(store, Existing)
       THEN /\ backend' = Remove(backend, Existing)
            /\ store' = RemoveMapping(store, Existing)
       ELSE UNCHANGED <<backend, store>>
    /\ stage' = "drop"
    /\ fixing' = Existing
    /\ dropping' = ReferencesTo(store', Virtual(Kubernetes))
    /\ UNCHANGED <<calls, gc, present>>

RepairDeleteFails ==
    /\ stage = "migrate" /\ calls = {}
    /\ WrongKubernetes
    /\ Found(store, Existing)
    /\ FailedWrite(Remove(backend, Existing))
    /\ StartOver(backend')

\* Faulty variant: DeleteReference without the save.
RepairDropUnsaved(m) ==
    /\ stage = "drop" /\ calls = {}
    /\ m \in dropping
    /\ store' = DeleteReferenceFrom(store, fixing, m)
    /\ dropping' = dropping \ {m}
    /\ UNCHANGED <<backend, stage, calls, fixing, gc, present>>

\* Faulty variant: the call may be made again for the same mapping.
RepairDropRetried(m) ==
    /\ stage = "drop" /\ calls = {}
    /\ m \in dropping
    /\ store' = DeleteReferenceFrom(store, fixing, m)
    /\ calls' = {[name |-> fixing, owner |-> m, step |-> "save"]}
    /\ UNCHANGED <<backend, stage, fixing, dropping, gc, present>>

\* DeleteReferenceAndSave(existing, reference): DeleteReference, then a save.
RepairDrop(m) ==
    /\ stage = "drop" /\ calls = {}
    /\ m \in dropping
    /\ store' = DeleteReferenceFrom(store, fixing, m)
    /\ dropping' = dropping \ {m}
    /\ calls' = {[name |-> fixing, owner |-> m, step |-> "save"]}
    /\ UNCHANGED <<backend, stage, fixing, gc, present>>

\* AddReferenceAndSave(expected, expected).
RepairAdd ==
    /\ stage = "drop" /\ calls = {} /\ dropping = {}
    /\ stage' = "add"
    /\ calls' = {[name |-> Kubernetes, owner |-> Kubernetes, step |-> "add"]}
    /\ UNCHANGED <<store, backend, fixing, dropping, gc, present>>

\* servicesMapper.Migrate returns, with or without a repair. MigrateMappers
\* calls it once; mappers of other kinds come before or after it.
RepairDone ==
    /\ calls = {}
    /\ \/ stage = "add"
       \/ stage = "migrate" /\ ~WrongKubernetes
    /\ stage' = "migrated"
    /\ fixing' = Kubernetes
    /\ UNCHANGED <<store, backend, calls, dropping, gc, present>>

\* MigrateMappers returns and the controllers start.
StartControllers ==
    /\ stage = "migrated" /\ calls = {}
    /\ stage' = "running"
    /\ UNCHANGED <<store, backend, calls, fixing, dropping, gc, present>>

-----------------------------------------------------------------------------
(* garbageCollectMappings *)

CopyMappings ==
    /\ stage = "running"
    /\ gc = NoCollection
    /\ store.mappings # {}
    /\ gc' = [gc EXCEPT !.todo = store.mappings]
    /\ UNCHANGED <<store, backend, stage, calls, fixing, dropping, present>>

\* objectExists asks for the virtual object, then for the host object, without
\* the mutex. An error other than not-found counts as existing.
CheckVirtual(m) ==
    /\ gc.step = "next" /\ m \in gc.todo
    /\ \/ gc' = [gc EXCEPT !.todo = @ \ {m}]
       \/ /\ VirtualObject(m) \notin present
          /\ gc' = [todo |-> gc.todo \ {m}, at |-> m, step |-> "host"]
    /\ UNCHANGED <<store, backend, stage, calls, fixing, dropping, present>>

CheckHost ==
    /\ gc.step = "host"
    /\ \/ gc' = [gc EXCEPT !.at = None, !.step = "next"]
       \/ /\ HostObject(gc.at) \notin present
          /\ gc' = [gc EXCEPT !.step = "collect"]
    /\ UNCHANGED <<store, backend, stage, calls, fixing, dropping, present>>

\* garbageCollectMapping: nothing is checked again under the mutex except that
\* the mapping is still in the store.
Collect ==
    /\ gc.step = "collect"
    /\ gc' = [gc EXCEPT !.at = None, !.step = "next"]
    /\ \/ /\ gc.at \in store.mappings
          /\ backend' = Remove(backend, gc.at)
          /\ store' = RemoveMapping(store, gc.at)
       \/ /\ gc.at \in store.mappings
          /\ FailedWrite(Remove(backend, gc.at))
          /\ UNCHANGED store
       \/ /\ gc.at \notin store.mappings
          /\ UNCHANGED <<backend, store>>
    /\ UNCHANGED <<stage, calls, fixing, dropping, present>>

-----------------------------------------------------------------------------
(* Objects come and go in both clusters. *)
Appear(o) ==
    /\ present' = present \cup {o}
    /\ UNCHANGED <<store, backend, stage, calls, fixing, dropping, gc>>

Disappear(o) ==
    /\ present' = present \ {o}
    /\ UNCHANGED <<store, backend, stage, calls, fixing, dropping, gc>>

Next ==
    /\ \/ \E b \in Owners :
           \/ \E o \in VirtualObjects : ResolveVirtual(o, b)
           \/ \E o \in HostObjects : ResolveHost(o, b)
           \/ Close(b)
       \/ \E o \in VirtualObjects : MigrateVirtual(o)
       \/ \E o \in HostObjects : MigrateHost(o)
       \/ \E c \in calls :
           \/ AddReference(c) \/ RejectReference(c)
           \/ SaveMapping(c) \/ SaveMappingFails(c)
       \/ RepairDelete \/ RepairDeleteFails
       \/ \E m \in dropping : RepairDrop(m)
       \/ RepairAdd \/ RepairDone \/ StartControllers
       \/ CopyMappings \/ CheckHost \/ Collect
       \/ \E m \in gc.todo : CheckVirtual(m)
       \/ \E o \in Volatile : Appear(o) \/ Disappear(o)
       \/ Restart
    /\ UNCHANGED lossy

Spec == Init /\ [][Next]_vars

-----------------------------------------------------------------------------
(* What the callers have to get right. *)

WrongHost(n) == Virtual(n) = Virtual(Kubernetes) /\ n # Kubernetes

\* AddReference checks the recorded name for conflicts but not the owner it
\* creates. So an owner that comes with both names must never collide with a
\* name that is recorded, unless the repair has removed that one.
OwnersAgree ==
    \A b \in Owners \cap Pairs :
        /\ ~WrongHost(b)
        /\ \A n \in Pairs : Conflicting(b, n) => WrongHost(n)

\* The mapper below the recorder knows only the expected host service.
KubernetesTranslated ==
    /\ HostNameOf[Virtual(Kubernetes)] \in {None, Kubernetes.p}
    /\ \A o \in HostObjects : o[1] = Kubernetes.kind /\ VirtualNameOf[o] = Kubernetes.v => o = Host(Kubernetes)

\* An earlier process left no conflicting names.
BackendsAgree == \A be \in Backends : Sound(be)

-----------------------------------------------------------------------------
(* Type correctness of the store, the backend and the callers. *)
TypeOK ==
    /\ store \in Store
    /\ backend \in [Keys -> Saved]
    /\ \A key \in Keys : backend[key].p # None => SavedPair(key, backend[key]) \in Pairs
    /\ stage \in Stages
    /\ calls \subseteq Call
    /\ fixing \in Pairs
    /\ dropping \subseteq Pairs
    /\ gc \in Collector
    /\ gc.step # "next" => gc.at \in Pairs
    /\ present \subseteq Volatile

\* The two lookup maps are exactly the names of the mappings in the store, in
\* both directions: an entry lists the mappings that use the name and no
\* other, and answers with the other side of that name (addNameToMaps,
\* removeNameFromMaps). No two mappings disagree on a name.
LookupsExact == OwnersExact(store) /\ AnswersExact(store)

\* A restart brings back no name the process has dropped: whatever etcd holds
\* is in memory too, except for the reference being deleted right now
\* (DeleteReferenceAndSave writes after it has changed the memory).
RestartAddsNothing ==
    LET next == Load(backend) IN
    /\ next.mappings \subseteq store.mappings
    /\ \A m \in next.mappings :
        next.references[m] \ store.references[m] \subseteq
            (IF stage = "drop" THEN {fixing} ELSE {})

\* A restart loses only what is marked as changed: a mapping SaveMapping
\* would skip is in etcd exactly as it is in memory, if no write takes effect
\* that has been reported as failed.
CleanIsPersisted ==
    \A m \in store.mappings : ~store.changed[m] =>
        backend[Virtual(m)] = [p |-> m.p, refs |-> store.references[m]]
ReliablyPersisted == ~lossy => CleanIsPersisted

\* Once the controllers run, no mapping names another host service for
\* default/kubernetes, whatever the repair met and wherever it was
\* interrupted (servicesMapper.Migrate).
KubernetesRepaired ==
    stage = "running" =>
        \A m \in store.mappings : \A n \in Names(store, m) : ~WrongHost(n)

\* DeleteReference allocates a slice of capacity len(References)-1, which
\* panics when there are none: it is never called on such a mapping.
DeleteReferenceHasSome ==
    stage = "drop" =>
        \A m \in dropping : m \in store.mappings => store.references[m] # {}
=============================================================================
