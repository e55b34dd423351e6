--------------------------- MODULE ResourceSyncers ---------------------------
(***************************************************************************)
(* What the resource syncers (pkg/controllers/resources) do with one       *)
(* object: SyncToHost when only the virtual object exists, Sync when both  *)
(* do, SyncToVirtual when only the host object does. Each is a function of *)
(* the event the sync controller hands over; its result is a plan, the API *)
(* calls it makes in order (the first that fails ends the plan) and        *)
(* whether the object is requeued afterwards.                              *)
(*                                                                         *)
(* An object keeps the parts the syncers treat differently: data stands    *)
(* for a map merged in both directions (the data of config maps and        *)
(* secrets, the annotations of the others), labels for the labels, spec    *)
(* for the fields with one fixed direction or copied as a whole, status    *)
(* for the status. owner is the uid annotation the host copy carries; made *)
(* says the syncer created the object; mark is the annotation a kind uses  *)
(* as a flag; fin says that finalizers or a grace period keep a deleted    *)
(* object; ip is the cluster IP of a service.                              *)
(***************************************************************************)
EXTENDS Bidirectional, Sequences

CONSTANTS None, Keys

Both == {"virtual", "host"}

External == "ExternalName"

(***************************************************************************)
(* Plans.                                                                  *)
(***************************************************************************)
Plan(todo, again, host) == [todo |-> todo, again |-> again, host |-> host]

Nothing(e) == Plan(<<>>, FALSE, e.p)

Requeue(e) == Plan(<<>>, TRUE, e.p)

(* missing: a delete that finds nothing is no error. cached: the call goes *)
(* through the patcher, which also keeps the object cache.                 *)
Delete(side, grace, uid) ==
    [op |-> "delete", side |-> side, part |-> "main", obj |-> None,
     cached |-> TRUE, missing |-> TRUE, grace |-> grace, uid |-> uid]

DeleteDirectly(side, missing) ==
    [Delete(side, TRUE, 0) EXCEPT !.cached = FALSE, !.missing = missing]

Create(side, obj, cached) ==
    [op |-> "create", side |-> side, part |-> "main", obj |-> obj,
     cached |-> cached, missing |-> FALSE, grace |-> TRUE, uid |-> 0]

Update(side, part, obj, cached) ==
    [op |-> "update", side |-> side, part |-> part, obj |-> obj,
     cached |-> cached, missing |-> FALSE, grace |-> TRUE, uid |-> 0]

(* NewSyncerPatcher and Patch: the virtual object first, then the host     *)
(* object, of each the object first and then its status; an empty patch    *)
(* makes no call.                                                          *)
Differs(call, base) ==
    IF call.part = "status" THEN call.obj.status # base.status
    ELSE [call.obj EXCEPT !.status = base.status] # base

Patch(e, w) ==
    LET calls == << Update("virtual", "main", w.virtual, TRUE),
                    Update("virtual", "status", w.virtual, TRUE),
                    Update("host", "main", w.host, TRUE),
                    Update("host", "status", w.host, TRUE) >>
        Needed(c) == Differs(c, IF c.side = "virtual" THEN e.v ELSE e.p)
    IN  Plan(SelectSeq(calls, Needed), FALSE, w.host)

DeleteHost(e) == Plan(<<Delete("host", TRUE, 0)>>, FALSE, e.p)

DeleteVirtual(e) == Plan(<<Delete("virtual", TRUE, 0)>>, FALSE, e.p)

(* HostMetadata and VirtualMetadata. *)
HostMetadata(v) ==
    [v EXCEPT !.uid = 0, !.rv = 0, !.del = FALSE, !.fin = FALSE, !.owner = v.uid,
              !.made = TRUE, !.mark = FALSE]

\* Faulty variant: the owner annotation is copied to the virtual object.
VirtualMetadataWithOwner(p) ==
    [p EXCEPT !.uid = 0, !.rv = 0, !.del = FALSE, !.fin = FALSE, !.made = FALSE,
              !.mark = FALSE]

VirtualMetadata(p) ==
    [p EXCEPT !.uid = 0, !.rv = 0, !.del = FALSE, !.fin = FALSE, !.owner = 0,
              !.made = FALSE, !.mark = FALSE]

CreateHost(e, obj, hasStatus) ==
    Plan(<<Create("host", [obj EXCEPT !.status = 0], TRUE)>>
         \o (IF hasStatus /\ obj.status # 0 THEN <<Update("host", "status", obj, TRUE)>>
             ELSE <<>>), FALSE, e.p)

CreateVirtual(e, obj, hasStatus) ==
    Plan(<<Create("virtual", [obj EXCEPT !.status = 0], TRUE)>>
         \o (IF hasStatus /\ obj.status # 0 THEN <<Update("virtual", "status", obj, TRUE)>>
             ELSE <<>>), FALSE, e.p)

ShouldDeleteHostObject(p) == p.del \/ p.owner # 0

(***************************************************************************)
(* The parts a Sync brings together.                                       *)
(***************************************************************************)
Pieces(e) == Pair(e.v, e.p)

Labels(e, w) ==
    LET l == MapsBidirectional(e.vOld.labels, e.v.labels, e.pOld.labels, e.p.labels)
    IN  Pair([w.virtual EXCEPT !.labels = l.virtual], [w.host EXCEPT !.labels = l.host])

Annotations(e, w) ==
    LET d == MapsBidirectional(e.vOld.data, e.v.data, e.pOld.data, e.p.data)
    IN  Pair([w.virtual EXCEPT !.data = d.virtual],
             [w.host EXCEPT !.data = d.host, !.owner = e.v.uid])

Meta(e, w) == Labels(e, Annotations(e, w))

Data(e, w) ==
    LET d == MergeBidirectional(e.vOld.data, e.v.data, e.pOld.data, e.p.data)
    IN  Pair([w.virtual EXCEPT !.data = d.virtual],
             [w.host EXCEPT !.data = d.host, !.owner = e.v.uid])

SpecBoth(e, w) ==
    LET s == CopyBidirectional(e.vOld.spec, e.v.spec, e.pOld.spec, e.p.spec)
    IN  Pair([w.virtual EXCEPT !.spec = s.virtual], [w.host EXCEPT !.spec = s.host])

SpecDown(w) == Pair(w.virtual, [w.host EXCEPT !.spec = w.virtual.spec])

StatusUp(w) == Pair([w.virtual EXCEPT !.status = w.host.status], w.host)

EverythingUp(w) ==
    Pair([w.virtual EXCEPT !.data = w.host.data, !.labels = w.host.labels,
                           !.spec = w.host.spec, !.status = w.host.status], w.host)

(* The common answers to a missing host object and a missing virtual one. *)
GoneOnHost(e) == e.pOld # None \/ e.v.del

Recreate(e, hasStatus) ==
    IF GoneOnHost(e) THEN DeleteVirtual(e) ELSE CreateHost(e, HostMetadata(e.v), hasStatus)

Import(e, hasStatus) ==
    IF e.vOld # None \/ ShouldDeleteHostObject(e.p) THEN DeleteHost(e)
    ELSE CreateVirtual(e, VirtualMetadata(e.p), hasStatus)

(***************************************************************************)
(* Config maps and secrets: wanted while a pod (or an ingress) uses them.  *)
(***************************************************************************)
ConfigMapSyncToHost(e) == IF ~e.wanted THEN Nothing(e) ELSE Recreate(e, FALSE)

ConfigMapSync(e) ==
    IF ~e.wanted THEN DeleteHost(e) ELSE Patch(e, Labels(e, Data(e, Pieces(e))))

ConfigMapSyncToVirtual(e) ==
    IF e.vOld = None /\ ~ShouldDeleteHostObject(e.p) /\ ~e.wanted THEN Nothing(e)
    ELSE Import(e, FALSE)

SecretSyncToHost(e) == IF ~e.wanted THEN Nothing(e) ELSE Recreate(e, FALSE)

SecretSync(e) ==
    IF ~e.wanted THEN DeleteHost(e) ELSE Patch(e, Labels(e, Data(e, Pieces(e))))

SecretSyncToVirtual(e) ==
    IF e.vOld = None /\ ~ShouldDeleteHostObject(e.p) /\ ~e.wanted THEN Nothing(e)
    ELSE Import(e, FALSE)

(***************************************************************************)
(* Kinds whose specification is the virtual one.                           *)
(***************************************************************************)
NetworkPolicySyncToHost(e) == Recreate(e, FALSE)

NetworkPolicySync(e) == Patch(e, Meta(e, SpecDown(Pieces(e))))

NetworkPolicySyncToVirtual(e) == DeleteHost(e)

PodDisruptionBudgetSyncToHost(e) == Recreate(e, FALSE)

PodDisruptionBudgetSync(e) == Patch(e, Meta(e, SpecDown(Pieces(e))))

PodDisruptionBudgetSyncToVirtual(e) == DeleteHost(e)

EndpointsSyncToHost(e) ==
    IF e.pOld # None THEN DeleteVirtual(e) ELSE CreateHost(e, HostMetadata(e.v), FALSE)

EndpointsSync(e) == Patch(e, Meta(e, SpecDown(Pieces(e))))

EndpointsSyncToVirtual(e) == DeleteHost(e)

EndpointSliceSyncToHost(e) ==
    IF e.pOld # None THEN DeleteVirtual(e) ELSE CreateHost(e, HostMetadata(e.v), FALSE)

EndpointSliceSync(e) == Patch(e, Meta(e, SpecDown(Pieces(e))))

EndpointSliceSyncToVirtual(e) == DeleteHost(e)

ServiceAccountSyncToHost(e) == Recreate(e, FALSE)

ServiceAccountSync(e) == Patch(e, Meta(e, Pieces(e)))

ServiceAccountSyncToVirtual(e) == Import(e, FALSE)

StorageClassSyncToHost(e) == Recreate(e, FALSE)

StorageClassSync(e) == Patch(e, SpecBoth(e, Meta(e, Pieces(e))))

StorageClassSyncToVirtual(e) == DeleteHost(e)

(* wanted: the ingress class passes the configured selector. *)
IngressSyncToHost(e) == IF ~e.wanted THEN Nothing(e) ELSE Recreate(e, TRUE)

IngressSync(e) ==
    IF ~e.wanted THEN Nothing(e) ELSE Patch(e, Meta(e, SpecDown(StatusUp(Pieces(e)))))

IngressSyncToVirtual(e) == Import(e, TRUE)

(***************************************************************************)
(* Namespaces: annotations and labels go down only, replacing those of the *)
(* host; a namespace found on the host is imported, marked first.          *)
(***************************************************************************)
NamespaceSyncToHost(e) == Recreate(e, TRUE)

NamespaceSync(e) ==
    Patch(e, Pair(e.v, [e.p EXCEPT !.data = e.v.data, !.labels = e.v.labels,
                                   !.owner = e.v.uid]))

NamespaceSyncToVirtual(e) ==
    LET marked == [e.p EXCEPT !.mark = TRUE]
        create == CreateVirtual(e, VirtualMetadata(e.p), TRUE)
    IN  IF e.vOld # None \/ e.p.del
        THEN IF e.p.mark THEN Nothing(e) ELSE DeleteHost(e)
        ELSE IF e.p.mark THEN create
        ELSE [create EXCEPT !.todo = <<Update("host", "main", marked, FALSE)>> \o @]

(***************************************************************************)
(* Priority classes, by direction; wanted: the host selector matches.      *)
(***************************************************************************)
PriorityClassSyncToHost(e) ==
    IF ~e.toHost \/ (e.fromHost /\ e.pOld # None) THEN DeleteVirtual(e)
    ELSE CreateHost(e, HostMetadata(e.v), FALSE)

PriorityClassSync(e) ==
    IF ~e.wanted THEN DeleteVirtual(e)
    ELSE IF e.fromHost THEN Patch(e, EverythingUp(Pieces(e)))
    ELSE Patch(e, SpecDown(Meta(e, Pieces(e))))

PriorityClassSyncToVirtual(e) ==
    IF ~e.wanted THEN Nothing(e)
    ELSE IF ~e.fromHost \/ (e.vOld # None /\ e.toHost) \/ ShouldDeleteHostObject(e.p)
         THEN DeleteHost(e)
    ELSE CreateVirtual(e, VirtualMetadata(e.p), FALSE)

(***************************************************************************)
(* Services. mark is the annotation that blocks deletion while the API     *)
(* proxy creates the pair; blocked: the host service is younger than two   *)
(* minutes.                                                                *)
(***************************************************************************)
ServiceSyncToHost(e) ==
    IF GoneOnHost(e) THEN DeleteVirtual(e)
    ELSE CreateHost(e, [HostMetadata(e.v) EXCEPT !.ip = 0], TRUE)

isSwitchingFromExternalName(p, v) == v.type = External /\ p.type # v.type /\ p.ip # 0

recreateService(e) ==
    << DeleteDirectly("virtual", TRUE),
       Create("virtual", [e.v EXCEPT !.uid = 0, !.rv = 0, !.ip = e.p.ip], FALSE) >>

(* The selector goes up only if the host selector alone changed. *)
Selector(e, w) ==
    IF e.vOld.spec = e.v.spec /\ e.pOld.spec # e.p.spec
    THEN Pair([w.virtual EXCEPT !.spec = e.p.spec], w.host)
    ELSE Pair(w.virtual, [w.host EXCEPT !.spec = e.v.spec])

ServiceSync(e) ==
    LET t == CopyBidirectional(e.vOld.type, e.v.type, e.pOld.type, e.p.type)
        w == Selector(e, Meta(e, StatusUp(Pieces(e))))
    IN  IF isSwitchingFromExternalName(e.p, e.v) THEN Requeue(e)
        ELSE IF e.v.ip # e.p.ip THEN Plan(recreateService(e), TRUE, e.p)
        ELSE Patch(e, Pair([w.virtual EXCEPT !.type = t.virtual],
                           [w.host EXCEPT !.type = t.host, !.mark = FALSE]))

\* Faulty variant: the blocking annotation counts for ever.
ServiceSyncToVirtualBlocked(e) ==
    IF e.p.mark THEN Requeue(e) ELSE Import(e, TRUE)

ServiceSyncToVirtual(e) ==
    IF e.p.mark /\ e.blocked THEN Requeue(e) ELSE Import(e, TRUE)

(***************************************************************************)
(* Volumes. blocked: the host claim is being restored, or the virtual      *)
(* volume is locked. e.grace: the grace periods of the two deletions       *)
(* differ.                                                                 *)
(***************************************************************************)
Deleting(e) ==
    IF ~e.v.del THEN <<Delete("virtual", TRUE, 0)>>
    ELSE IF e.grace THEN <<Delete("virtual", TRUE, e.v.uid)>> ELSE <<>>

DeleteHostExactly(e) == Plan(<<Delete("host", TRUE, e.p.uid)>>, FALSE, e.p)

PersistentVolumeClaimSyncToHost(e) ==
    IF e.blocked THEN Requeue(e)
    ELSE IF ~e.wanted THEN Nothing(e)
    ELSE IF GoneOnHost(e) THEN Plan(<<Delete("virtual", FALSE, 0)>>, FALSE, e.p)
    ELSE CreateHost(e, HostMetadata(e.v), TRUE)

PersistentVolumeClaimSync(e) ==
    IF ~e.wanted THEN Nothing(e)
    ELSE IF e.blocked THEN Requeue(e)
    ELSE IF e.p.del THEN Plan(Deleting(e), FALSE, e.p)
    ELSE IF e.v.del THEN DeleteHostExactly(e)
    ELSE Patch(e, Meta(e, SpecDown(StatusUp(Pieces(e)))))

PersistentVolumeClaimSyncToVirtual(e) == Import(e, TRUE)

(* Take the finalizers away first; the object is deleted the next time. *)
RemoveFinalizers(e) ==
    Plan(<<Update("virtual", "main", [e.v EXCEPT !.fin = FALSE], FALSE)>>, FALSE, e.p)

PersistentVolumeSyncToHost(e) ==
    IF ~e.wanted THEN Nothing(e)
    ELSE IF GoneOnHost(e) \/ e.v.made
         THEN IF e.v.fin THEN RemoveFinalizers(e) ELSE DeleteVirtual(e)
    ELSE CreateHost(e, HostMetadata(e.v), TRUE)

PersistentVolumeSync(e) ==
    IF ~e.wanted THEN Nothing(e)
    ELSE IF e.blocked THEN Requeue(e)
    ELSE IF e.v.del THEN IF e.p.del THEN Requeue(e) ELSE [DeleteHost(e) EXCEPT !.again = TRUE]
    ELSE Patch(e, Meta(e, StatusUp(SpecBoth(e, Pieces(e)))))

PersistentVolumeSyncToVirtual(e) ==
    IF e.p.made THEN DeleteHost(e)
    ELSE CreateVirtual(e, [VirtualMetadata(e.p) EXCEPT !.made = TRUE], TRUE)

(* Finalizers and status follow the host while the pair is being deleted. *)
DeletionProgress(e) ==
    (IF e.v.fin # e.p.fin
     THEN <<Update("virtual", "main", [e.v EXCEPT !.fin = e.p.fin], FALSE)>> ELSE <<>>)
    \o (IF e.v.status # e.p.status
        THEN <<Update("virtual", "status", [e.v EXCEPT !.status = e.p.status], FALSE)>>
        ELSE <<>>)

VolumeSnapshotSyncToHost(e) ==
    IF GoneOnHost(e)
    THEN Plan((IF e.v.fin THEN RemoveFinalizers(e).todo ELSE <<>>)
              \o <<Delete("virtual", TRUE, 0)>>, FALSE, e.p)
    ELSE CreateHost(e, HostMetadata(e.v), TRUE)

VolumeSnapshotSync(e) ==
    LET w == Meta(e, SpecDown(StatusUp(Pieces(e))))
    IN  IF e.p.del THEN Plan(Deleting(e) \o DeletionProgress(e), FALSE, e.p)
        ELSE IF e.v.del THEN DeleteHostExactly(e)
        ELSE Patch(e, [w EXCEPT !.virtual.fin = e.p.fin])

VolumeSnapshotSyncToVirtual(e) == DeleteHost(e)

VolumeSnapshotContentSyncToHost(e) ==
    IF GoneOnHost(e) \/ e.v.made
    THEN IF e.v.fin THEN RemoveFinalizers(e) ELSE DeleteVirtual(e)
    ELSE CreateHost(e, HostMetadata(e.v), TRUE)

VolumeSnapshotContentSync(e) ==
    LET w == Meta(e, StatusUp(Pieces(e)))
        host == IF e.v.made THEN w.host ELSE [w.host EXCEPT !.spec = e.v.spec]
    IN  IF e.v.del
        THEN Plan((IF e.p.del THEN <<>> ELSE <<Delete("host", TRUE, 0)>>)
                  \o DeletionProgress(e), TRUE, e.p)
        ELSE IF ~e.wanted THEN Nothing(e)
        ELSE Patch(e, Pair([w.virtual EXCEPT !.fin = TRUE], host))

VolumeSnapshotContentSyncToVirtual(e) ==
    IF ~e.wanted THEN Nothing(e)
    ELSE CreateVirtual(e, [VirtualMetadata(e.p) EXCEPT !.made = TRUE], TRUE)

(***************************************************************************)
(* Pods. wanted: the classes the pod names are allowed and it is valid.    *)
(* blocked: its node is not there yet.                                     *)
(***************************************************************************)
PodSyncToHost(e) ==
    IF ~e.wanted THEN Nothing(e)
    ELSE IF GoneOnHost(e) \/ e.v.status # 0
         THEN Plan(<<Delete("virtual", FALSE, 0)>>, FALSE, e.p)
    ELSE IF e.blocked THEN Requeue(e)
    ELSE CreateHost(e, HostMetadata(e.v), TRUE)

PodSync(e) ==
    IF ~e.wanted THEN Nothing(e)
    ELSE IF e.p.del
         THEN Plan(Deleting(e) \o SelectSeq(DeletionProgress(e),
                                            LAMBDA c : c.part = "status"), FALSE, e.p)
    ELSE IF e.v.del THEN DeleteHostExactly(e)
    ELSE IF e.blocked THEN Requeue(e)
    ELSE Patch(e, Meta(e, SpecDown(StatusUp(Pieces(e)))))

PodSyncToVirtual(e) == Import(e, TRUE)

(***************************************************************************)
(* Kinds that only follow the host, with direct calls and no object cache. *)
(* wanted: the selector matches, the node exists.                          *)
(***************************************************************************)
Follow(e) == Plan(<<DeleteDirectly("virtual", FALSE)>>, FALSE, e.p)

Mirror(e) == Plan(<<Create("virtual", VirtualMetadata(e.p), FALSE)>>, FALSE, e.p)

CSIDriverSyncToHost(e) == Follow(e)

CSIDriverSync(e) == Patch(e, EverythingUp(Pieces(e)))

CSIDriverSyncToVirtual(e) == Mirror(e)

CSIStorageCapacitySyncToHost(e) == Follow(e)

CSIStorageCapacitySync(e) ==
    IF ~e.wanted THEN Follow(e) ELSE Patch(e, EverythingUp(Pieces(e)))

CSIStorageCapacitySyncToVirtual(e) == IF ~e.wanted THEN Nothing(e) ELSE Mirror(e)

IngressClassSyncToHost(e) == Follow(e)

IngressClassSync(e) ==
    IF ~e.wanted THEN DeleteVirtual(e) ELSE Patch(e, EverythingUp(Pieces(e)))

IngressClassSyncToVirtual(e) == IF ~e.wanted THEN Nothing(e) ELSE Mirror(e)

RuntimeClassSyncToHost(e) == Follow(e)

RuntimeClassSync(e) ==
    IF ~e.wanted THEN DeleteVirtual(e) ELSE Patch(e, EverythingUp(Pieces(e)))

RuntimeClassSyncToVirtual(e) == IF ~e.wanted THEN Nothing(e) ELSE Mirror(e)

HostStorageClassSyncToHost(e) == Follow(e)

HostStorageClassSync(e) ==
    IF ~e.wanted THEN DeleteVirtual(e) ELSE Patch(e, EverythingUp(Pieces(e)))

HostStorageClassSyncToVirtual(e) == IF ~e.wanted THEN Nothing(e) ELSE Mirror(e)

VolumeSnapshotClassSyncToHost(e) == Follow(e)

VolumeSnapshotClassSync(e) == Patch(e, EverythingUp(Pieces(e)))

VolumeSnapshotClassSyncToVirtual(e) == Mirror(e)

(* Nodes and CSI nodes: only virtual objects the syncer marked are deleted. *)
NodeSyncToHost(e) == IF e.v.made THEN Follow(e) ELSE Nothing(e)

NodeSync(e) ==
    IF ~e.wanted THEN Follow(e)
    ELSE Patch(e, [EverythingUp(Pieces(e)) EXCEPT !.virtual.made = TRUE])

(* Only the metadata at first; the node is filled in, and marked, by the   *)
(* Sync that follows.                                                      *)
NodeSyncToVirtual(e) ==
    IF ~e.wanted THEN Nothing(e)
    ELSE Plan(<<Create("virtual", [VirtualMetadata(e.p) EXCEPT !.spec = 0, !.status = 0],
                       FALSE)>>, TRUE, e.p)

CSINodeSyncToHost(e) == IF e.v.made THEN Follow(e) ELSE Nothing(e)

(* The two objects share one label map: the mark set on the virtual one    *)
(* reaches the host object too, unless that has no labels at all.          *)
CSINodeSync(e) ==
    LET w == EverythingUp(Pieces(e))
    IN  IF ~e.wanted THEN Follow(e)
        ELSE Patch(e, Pair([w.virtual EXCEPT !.made = TRUE],
                           [w.host EXCEPT !.made = @ \/ ~IsNil(e.p.labels)]))

CSINodeSyncToVirtual(e) ==
    IF ~e.wanted THEN Nothing(e)
    ELSE Plan(<<Create("virtual", [VirtualMetadata(e.p) EXCEPT !.made = e.p.made], FALSE)>>,
              FALSE, e.p)

EventSyncToHost(e) == Nothing(e)

EventSync(e) == Patch(e, EverythingUp(Pieces(e)))

EventSyncToVirtual(e) == IF e.blocked THEN Nothing(e) ELSE Mirror(e)

(* The generic syncer of config maps, secrets and custom resources from    *)
(* the host. blocked: the virtual namespace is missing or terminating.     *)
FromHostSyncToHost(e) == IF e.pOld = None THEN Nothing(e) ELSE Follow(e)

FromHostSync(e) ==
    LET patch == Patch(e, EverythingUp(Pieces(e)))
    IN  [patch EXCEPT !.todo = SelectSeq(@, LAMBDA c : c.side = "virtual")]

FromHostSyncToVirtual(e) ==
    IF e.vOld # None /\ e.p.del THEN DeleteVirtual(e)
    ELSE IF e.blocked THEN Requeue(e)
    ELSE CreateVirtual(e, VirtualMetadata(e.p), FALSE)

(***************************************************************************)
(* The syncer registered for a kind.                                       *)
(***************************************************************************)
IsPriorityClass(k) == k \in {"priorityClassToHost", "priorityClassFromHost",
                             "priorityClassBoth"}

SyncToHost(kind, e) ==
    CASE kind = "configMap" -> ConfigMapSyncToHost(e)
      [] kind = "secret" -> SecretSyncToHost(e)
      [] kind = "networkPolicy" -> NetworkPolicySyncToHost(e)
      [] kind = "podDisruptionBudget" -> PodDisruptionBudgetSyncToHost(e)
      [] kind = "endpoints" -> EndpointsSyncToHost(e)
      [] kind = "endpointSlice" -> EndpointSliceSyncToHost(e)
      [] kind = "serviceAccount" -> ServiceAccountSyncToHost(e)
      [] kind = "storageClass" -> StorageClassSyncToHost(e)
      [] kind = "ingress" -> IngressSyncToHost(e)
      [] kind = "namespace" -> NamespaceSyncToHost(e)
      [] IsPriorityClass(kind) -> PriorityClassSyncToHost(e)
      [] kind = "service" -> ServiceSyncToHost(e)
      [] kind = "persistentVolumeClaim" -> PersistentVolumeClaimSyncToHost(e)
      [] kind = "persistentVolume" -> PersistentVolumeSyncToHost(e)
      [] kind = "volumeSnapshot" -> VolumeSnapshotSyncToHost(e)
      [] kind = "volumeSnapshotContent" -> VolumeSnapshotContentSyncToHost(e)
      [] kind = "pod" -> PodSyncToHost(e)
      [] kind = "csiDriver" -> CSIDriverSyncToHost(e)
      [] kind = "csiStorageCapacity" -> CSIStorageCapacitySyncToHost(e)
      [] kind = "ingressClass" -> IngressClassSyncToHost(e)
      [] kind = "runtimeClass" -> RuntimeClassSyncToHost(e)
      [] kind = "hostStorageClass" -> HostStorageClassSyncToHost(e)
      [] kind = "volumeSnapshotClass" -> VolumeSnapshotClassSyncToHost(e)
      [] kind = "node" -> NodeSyncToHost(e)
      [] kind = "csiNode" -> CSINodeSyncToHost(e)
      [] kind = "event" -> EventSyncToHost(e)
      [] kind = "fromHost" -> FromHostSyncToHost(e)

Sync(kind, e) ==
    CASE kind = "configMap" -> ConfigMapSync(e)
      [] kind = "secret" -> SecretSync(e)
      [] kind = "networkPolicy" -> NetworkPolicySync(e)
      [] kind = "podDisruptionBudget" -> PodDisruptionBudgetSync(e)
      [] kind = "endpoints" -> EndpointsSync(e)
      [] kind = "endpointSlice" -> EndpointSliceSync(e)
      [] kind = "serviceAccount" -> ServiceAccountSync(e)
      [] kind = "storageClass" -> StorageClassSync(e)
      [] kind = "ingress" -> IngressSync(e)
      [] kind = "namespace" -> NamespaceSync(e)
      [] IsPriorityClass(kind) -> PriorityClassSync(e)
      [] kind = "service" -> ServiceSync(e)
      [] kind = "persistentVolumeClaim" -> PersistentVolumeClaimSync(e)
      [] kind = "persistentVolume" -> PersistentVolumeSync(e)
      [] kind = "volumeSnapshot" -> VolumeSnapshotSync(e)
      [] kind = "volumeSnapshotContent" -> VolumeSnapshotContentSync(e)
      [] kind = "pod" -> PodSync(e)
      [] kind = "csiDriver" -> CSIDriverSync(e)
      [] kind = "csiStorageCapacity" -> CSIStorageCapacitySync(e)
      [] kind = "ingressClass" -> IngressClassSync(e)
      [] kind = "runtimeClass" -> RuntimeClassSync(e)
      [] kind = "hostStorageClass" -> HostStorageClassSync(e)
      [] kind = "volumeSnapshotClass" -> VolumeSnapshotClassSync(e)
      [] kind = "node" -> NodeSync(e)
      [] kind = "csiNode" -> CSINodeSync(e)
      [] kind = "event" -> EventSync(e)
      [] kind = "fromHost" -> FromHostSync(e)

SyncToVirtual(kind, e) ==
    CASE kind = "configMap" -> ConfigMapSyncToVirtual(e)
      [] kind = "secret" -> SecretSyncToVirtual(e)
      [] kind = "networkPolicy" -> NetworkPolicySyncToVirtual(e)
      [] kind = "podDisruptionBudget" -> PodDisruptionBudgetSyncToVirtual(e)
      [] kind = "endpoints" -> EndpointsSyncToVirtual(e)
      [] kind = "endpointSlice" -> EndpointSliceSyncToVirtual(e)
      [] kind = "serviceAccount" -> ServiceAccountSyncToVirtual(e)
      [] kind = "storageClass" -> StorageClassSyncToVirtual(e)
      [] kind = "ingress" -> IngressSyncToVirtual(e)
      [] kind = "namespace" -> NamespaceSyncToVirtual(e)
      [] IsPriorityClass(kind) -> PriorityClassSyncToVirtual(e)
      [] kind = "service" -> ServiceSyncToVirtual(e)
      [] kind = "persistentVolumeClaim" -> PersistentVolumeClaimSyncToVirtual(e)
      [] kind = "persistentVolume" -> PersistentVolumeSyncToVirtual(e)
      [] kind = "volumeSnapshot" -> VolumeSnapshotSyncToVirtual(e)
      [] kind = "volumeSnapshotContent" -> VolumeSnapshotContentSyncToVirtual(e)
      [] kind = "pod" -> PodSyncToVirtual(e)
      [] kind = "csiDriver" -> CSIDriverSyncToVirtual(e)
      [] kind = "csiStorageCapacity" -> CSIStorageCapacitySyncToVirtual(e)
      [] kind = "ingressClass" -> IngressClassSyncToVirtual(e)
      [] kind = "runtimeClass" -> RuntimeClassSyncToVirtual(e)
      [] kind = "hostStorageClass" -> HostStorageClassSyncToVirtual(e)
      [] kind = "volumeSnapshotClass" -> VolumeSnapshotClassSyncToVirtual(e)
      [] kind = "node" -> NodeSyncToVirtual(e)
      [] kind = "csiNode" -> CSINodeSyncToVirtual(e)
      [] kind = "event" -> EventSyncToVirtual(e)
      [] kind = "fromHost" -> FromHostSyncToVirtual(e)
=============================================================================
