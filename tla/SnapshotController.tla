-------------------------- MODULE SnapshotController --------------------------
(***************************************************************************)
(* The snapshot controller (pkg/snapshot/controller.go, controllerbase.go, *)
(* controllerdeleting.go), the clients that create its requests            *)
(* (pkg/snapshot/request.go), the storage it uploads to and the CSI        *)
(* controller whose resources it manages.                                  *)
(*                                                                         *)
(* A request is a ConfigMap with a Secret of the same name. One worker     *)
(* reconciles them one at a time (MaxConcurrentReconciles is 1). It reads  *)
(* the ConfigMap from the cache of its client, works on a copy, and        *)
(* patches the ConfigMap at the end: run is a reconciliation between two   *)
(* such points. The steps on one PVC are atomic; clients, the CSI          *)
(* controller and crashes come between them.                               *)
(***************************************************************************)
EXTENDS VolumeSnapshotter, Integers, FiniteSetsExt

CONSTANTS
    Creates,        \* requests that create a snapshot
    Deletes,        \* requests that delete one
    URLs,           \* places snapshots are saved at
    PVCs,           \* bound claims, numbered in the order the API lists them
    URL,            \* the URL of each request
    Created,        \* its creation timestamp, set by its client
    Environments,   \* the environments to explore
    Gone            \* a ConfigMap that has been removed

Requests == Creates \cup Deletes
Idle == None

\* The requests that are made and those that include volumes, the claims there
\* are and the deletion policies of their classes; whether API calls may fail,
\* the cache may lag behind the API server, requests appear in the order of their
\* timestamps, and users may delete requests.
ASSUME EnvironmentsAreSwitches ==
    Environments \subseteq
        [requests: SUBSET Requests, withVolumes: SUBSET Creates, claims: SUBSET PVCs,
         policies: SUBSET Policies, failures: BOOLEAN, stale: BOOLEAN, inOrder: BOOLEAN,
         userDeletes: BOOLEAN]
\* A cache that lags behind is explored for requests without volumes.
ASSUME VolumesUnlagged == \A e \in Environments : e.stale => e.withVolumes = {}
ASSUME RequestsAreDistinct == Creates \cap Deletes = {}
ASSUME RequestsHaveURLs == URL \in [Requests -> URLs]
ASSUME RequestsAreDated == Created \in [Requests -> Int]
ASSUME PVCsAreNumbered == PVCs \subseteq Nat /\ IsFiniteSet(PVCs)
ASSUME HandlesNameClaims == Handles = Creates \X PVCs
ASSUME GoneIsNotNone == Gone # None

VARIABLES
    drafts,     \* requests whose client has created the Secret only
    cms,        \* the request ConfigMaps
    cache,      \* what the client of the controller has cached of them
    secrets,    \* the requests whose Secret exists
    backups,    \* the snapshot saved at each URL
    run,        \* the reconciliation the worker is in
    res,        \* VolumeSnapshots and contents, by request and PVC
    storage,    \* snapshots in the storage backend
    uploads,    \* truncated uploads that go on after their reconciliation
    asked,      \* history: snapshots some client has asked to delete
    uploaded    \* history: requests that uploaded all of their snapshot

vars == <<env, drafts, cms, cache, secrets, backups, run, res, storage, uploads, asked, uploaded>>
csi == <<res, storage>>
history == <<asked, uploaded>>

\* The JSON in the ConfigMap, and the ConfigMap around it.
Data == [phase: RequestPhases, volumes: BOOLEAN, vphase: VolumePhases,
         requests: SUBSET PVCs, snapshots: [PVCs -> SnapshotStatus \cup {None}]]
ConfigMaps == [data: Data, finalizer: BOOLEAN, deleting: BOOLEAN]
ASSUME NoneIsNoConfigMap == None \notin ConfigMaps /\ Gone \notin ConfigMaps
Runs == [req: Requests, before: Data, data: Data, todo: SUBSET PVCs]
Backups == [by: Creates, data: Data, whole: BOOLEAN]

NoSnapshots == [p \in PVCs |-> None]

Exists(r) == cms[r] \notin {None, Gone}
Cached(r) == cache[r] \notin {None, Gone}
Phase(r) == cms[r].data.phase

\* What a write leaves in the cache at once.
Caches == cache' = IF env.stale THEN cache ELSE cms'

Init ==
    /\ env \in Environments
    /\ drafts = [r \in Requests |-> None]
    /\ cms = [r \in Requests |-> None]
    /\ cache = cms
    /\ secrets = {}
    /\ backups = [u \in URLs |-> None]
    /\ run = Idle
    /\ res = [r \in Requests |-> [p \in PVCs |-> NoResources]]
    /\ storage = {}
    /\ uploads = {}
    /\ asked = {}
    /\ uploaded = {}

-----------------------------------------------------------------------------
(* The clients: CreateSnapshotRequestResources, DeleteSnapshotRequestResources *)
(* and kubectl delete.                                                        *)

\* What the client will submit; a deletion is made from the snapshot it reads.
Draft(r) ==
    IF r \in Creates
    THEN [phase |-> "NotStarted", volumes |-> r \in env.withVolumes,
          vphase |-> "NotStarted", requests |-> {}, snapshots |-> NoSnapshots]
    ELSE [backups[URL[r]].data EXCEPT !.phase = "Deleting"]

CreateSecret(r) ==
    /\ r \in env.requests
    /\ cms[r] = None
    /\ drafts[r] = None
    /\ r \in Deletes => backups[URL[r]] # None
    /\ drafts' = [drafts EXCEPT ![r] = Draft(r)]
    /\ secrets' = secrets \cup {r}
    /\ asked' = asked \cup ({Draft(r).snapshots[p].handle : p \in Draft(r).requests} \ {None})
    /\ UNCHANGED <<env, cms, cache, backups, run, csi, uploads, uploaded>>

CreateConfigMap(r) ==
    /\ drafts[r] # None
    /\ env.inOrder => \A o \in env.requests : Created[o] < Created[r] => cms[o] # None
    /\ cms' = [cms EXCEPT ![r] = [data |-> drafts[r], finalizer |-> FALSE, deleting |-> FALSE]]
    /\ drafts' = [drafts EXCEPT ![r] = None]
    /\ Caches
    /\ UNCHANGED <<env, secrets, backups, run, csi, uploads, history>>

Removed(cm) == IF cm.finalizer THEN [cm EXCEPT !.deleting = TRUE] ELSE Gone

DeleteConfigMap(r) ==
    /\ env.userDeletes
    /\ Exists(r)
    /\ ~cms[r].deleting
    /\ cms' = [cms EXCEPT ![r] = Removed(@)]
    /\ Caches
    /\ UNCHANGED <<env, drafts, secrets, backups, run, csi, uploads, history>>

DeleteSecret(r) ==
    /\ env.userDeletes
    /\ Exists(r)
    /\ r \in secrets
    /\ secrets' = secrets \ {r}
    /\ UNCHANGED <<env, drafts, cms, cache, backups, run, csi, uploads, history>>

Sync(r) ==
    /\ cache[r] # cms[r]
    /\ cache' = [cache EXCEPT ![r] = cms[r]]
    /\ UNCHANGED <<env, drafts, cms, secrets, backups, run, csi, uploads, history>>

-----------------------------------------------------------------------------
(* The controller: Reconcile and what it calls.                              *)

\* A request that Reconcile takes past the deletion and finalizer checks.
Reconcilable(r) ==
    /\ run = Idle
    /\ Cached(r)
    /\ ~cache[r].deleting
    /\ cache[r].finalizer \/ RequestDone(cache[r].data.phase)

\* removeFinalizer, on a ConfigMap the controller has seen with or without one.
Unlocked(cm, seen) ==
    IF ~seen.finalizer \/ cm \in {None, Gone} THEN cm
    ELSE IF cm.deleting THEN Gone ELSE [cm EXCEPT !.finalizer = FALSE]

\* reconcileDeletedRequest: the Secret first, then the finalizer.
ReconcileDeleted(r) ==
    /\ run = Idle
    /\ Cached(r)
    /\ cache[r].deleting
    /\ secrets' = secrets \ {r}
    /\ \/ cms' = [cms EXCEPT ![r] = Unlocked(@, cache[r])]
       \/ env.failures /\ cms' = cms
    /\ Caches
    /\ UNCHANGED <<env, drafts, backups, run, csi, uploads, history>>

AddFinalizer(r) ==
    /\ run = Idle
    /\ Cached(r)
    /\ ~cache[r].deleting
    /\ ~RequestDone(cache[r].data.phase)
    /\ ~cache[r].finalizer
    /\ Exists(r) /\ ~cms[r].deleting
    /\ cms' = [cms EXCEPT ![r].finalizer = TRUE]
    /\ Caches
    /\ UNCHANGED <<env, drafts, secrets, backups, run, csi, uploads, history>>

\* Canceling a request that has gone too far (a faulty ShouldCancel).
ShouldCancelAlways(r, o) ==
    /\ o # r
    /\ URL[o] = URL[r]
    /\ Created[o] <= Created[r]
    /\ cache[o].data.phase \notin {"Canceling", "Canceled"}

\* Not canceling a request that is uploading (a faulty ShouldCancel).
ShouldCancelVolumes(r, o) ==
    /\ o # r
    /\ URL[o] = URL[r]
    /\ Created[o] <= Created[r]
    /\ cache[o].data.phase \in {"NotStarted", "CreatingVolumeSnapshots"}

ShouldCancel(r, o) ==
    /\ o # r
    /\ URL[o] = URL[r]
    /\ Created[o] <= Created[r]
    /\ cache[o].data.phase \in {"NotStarted", "CreatingVolumeSnapshots", "CreatingEtcdBackup"}

\* A request that waits for the canceled ones too (a faulty StillCanceling).
StillCanceled ==
    {o \in Requests : Cached(o) /\ cache[o].data.phase \in {"Canceling", "Canceled"}}

Previous(r) == {o \in Requests : Cached(o) /\ ShouldCancel(r, o)}
StillCanceling == {o \in Requests : Cached(o) /\ cache[o].data.phase = "Canceling"}

\* cancelPreviousRequests patches them one by one and stops at an error. Names
\* are random, so those it has patched by then may be any of them.
CancelPrevious(r) ==
    /\ Reconcilable(r)
    /\ cache[r].data.phase = "NotStarted"
    /\ \E done \in SUBSET Previous(r) :
          /\ done # {}
          /\ done = Previous(r) \/ env.failures
          /\ cms' = [o \in Requests |->
                       IF o \in done /\ Exists(o)
                       THEN [cms[o] EXCEPT !.data = [cache[o].data EXCEPT !.phase = "Canceling"]]
                       ELSE cms[o]]
    /\ Caches
    /\ UNCHANGED <<env, drafts, secrets, backups, run, csi, uploads, history>>

\* The rest of Reconcile works on a copy of the request and is about to patch
\* the ConfigMap, or has PVCs to go through first.
Working(r, data, todo) == [req |-> r, before |-> cache[r].data, data |-> data, todo |-> todo]
InFailure(data) == [data EXCEPT !.phase = "Failed"]

\* reconcileNewRequest and reconcileDeleting.
StartRequest(r) ==
    LET data == cache[r].data
        first == IF data.phase = "NotStarted"
                 THEN IF data.volumes THEN "CreatingVolumeSnapshots" ELSE "CreatingEtcdBackup"
                 ELSE IF data.volumes THEN "DeletingVolumeSnapshots" ELSE "DeletingEtcdBackup"
    IN /\ Reconcilable(r)
       /\ data.phase \in {"NotStarted", "Deleting"}
       /\ data.phase = "NotStarted" => Previous(r) = {} /\ StillCanceling = {}
       /\ run' = Working(r, [data EXCEPT !.phase = first,
                                         !.requests = IF data.phase = "NotStarted" THEN {} ELSE @], {})
       /\ UNCHANGED <<env, drafts, cms, cache, secrets, backups, csi, uploads, history>>

\* Taking the phase over as it is (a faulty FollowVolumes).
FollowVolumesBlindly(data) ==
    [data EXCEPT !.phase = IF data.vphase \in {"PartiallyFailed", "Completed"}
                           THEN "CreatingEtcdBackup" ELSE data.vphase]

\* The second half of reconcileVolumeSnapshots: the request follows its volumes.
FollowVolumes(data) ==
    CASE data.vphase \in {"Canceling", "Deleting", "InProgress"} -> data
      [] data.vphase \in {"PartiallyFailed", "Completed"} -> [data EXCEPT !.phase = "CreatingEtcdBackup"]
      [] data.vphase = "Canceled" -> [data EXCEPT !.phase = "Canceled"]
      [] data.vphase = "Deleted" -> [data EXCEPT !.phase = RequestNext(@)]
      [] OTHER -> InFailure(data)

\* The phase of the volumes when Reconcile hands them to the volume snapshotter.
Entered(data) ==
    CASE ~data.volumes -> data
      [] data.volumes /\ data.phase = "Canceling" -> [data EXCEPT !.vphase = "Canceling"]
      [] data.volumes /\ data.phase = "DeletingVolumeSnapshots" -> [data EXCEPT !.vphase = "Deleting"]
      [] OTHER -> data

\* The volume snapshotter up to its loop over the PVCs: the runs it may lead to.
\* reconcileNotStarted takes the PVCs that are bound, found and supported.
VolumeRuns(r, data) ==
    CASE ~data.volumes -> {Working(r, [data EXCEPT !.phase = RequestNext(@)], {})}
      [] data.volumes /\ data.vphase = "NotStarted" ->
            {Working(r, [data EXCEPT !.vphase = "InProgress", !.requests = claims,
                                     !.snapshots = NoSnapshots], {}) : claims \in SUBSET env.claims}
            \cup Faults({Working(r, InFailure(data), {})})
      [] data.volumes /\ data.vphase = "InProgress" /\ data.requests = {} ->
            {Working(r, FollowVolumes([data EXCEPT !.vphase = "Completed"]), {})}
      [] data.volumes /\ IsDeleting(data.vphase) /\ data.requests = {} ->
            {Working(r, FollowVolumes([data EXCEPT !.vphase = VolumeNext(@)]), {})}
      [] data.volumes /\ (IsDeleting(data.vphase) \/ data.vphase = "InProgress") /\ data.requests # {} ->
            {Working(r, data, data.requests)}
      [] OTHER -> {Working(r, FollowVolumes(data), {})}

ReconcileVolumes(r) ==
    /\ Reconcilable(r)
    /\ cache[r].data.phase \in {"CreatingVolumeSnapshots", "Canceling", "DeletingVolumeSnapshots"}
    /\ run' \in VolumeRuns(r, Entered(cache[r].data))
    /\ UNCHANGED <<env, drafts, cms, cache, secrets, backups, csi, uploads, history>>

\* What the volume snapshotter returns after its loop.
Concluded(data) ==
    FollowVolumes([data EXCEPT !.vphase =
        IF IsDeleting(@) THEN DeletedPhase(data.requests, data.snapshots, @)
        ELSE CreatedPhase(data.requests, data.snapshots)])

\* One PVC of the loop; an error ends it.
VolumeStep ==
    /\ run # Idle /\ run.todo # {}
    /\ LET r == run.req
           p == Min(run.todo)
           rest == run.todo \ {p}
           status == run.data.snapshots[p]
           effects == IF IsDeleting(run.data.vphase)
                      THEN DeleteStep(res[r][p], status, run.data.vphase)
                      ELSE CreateStep(res[r][p], status)
       IN \E e \in effects :
            LET data == [run.data EXCEPT !.snapshots[p] = e.status]
            IN /\ res' = [res EXCEPT ![r][p] = e.res]
               /\ run' = IF e.error
                         THEN [run EXCEPT !.data = [InFailure(data) EXCEPT !.vphase = "Failed"],
                                          !.todo = {}]
                         ELSE [run EXCEPT !.data = IF rest = {} THEN Concluded(data) ELSE data,
                                          !.todo = rest]
    /\ UNCHANGED <<env, drafts, cms, cache, secrets, backups, storage, uploads, history>>

\* The end of reconcileCreatingEtcdBackup.
BackedUp(data) ==
    [data EXCEPT !.phase = IF ~data.volumes THEN "Completed"
                           ELSE IF data.vphase \in {"Completed", "PartiallyFailed"} THEN data.vphase
                           ELSE "Failed"]

\* reconcileCreatingEtcdBackup. writeSnapshot closes the archive and the pipe
\* when it returns early and does not wait for the upload, which may then still
\* end well with part of the keys.
CreateEtcdBackup(r) ==
    LET data == cache[r].data
        saved(whole) == [by |-> r, data |-> data, whole |-> whole]
    IN /\ Reconcilable(r)
       /\ data.phase = "CreatingEtcdBackup"
       /\ \/ /\ r \in secrets
             /\ backups' = [backups EXCEPT ![URL[r]] = saved(TRUE)]
             /\ uploaded' = uploaded \cup {r}
             /\ run' = Working(r, BackedUp(data), {})
             /\ UNCHANGED uploads
          \/ /\ r \notin secrets
             /\ run' = Working(r, InFailure(data), {})
             /\ UNCHANGED <<backups, uploads, uploaded>>
          \/ /\ env.failures
             /\ r \in secrets
             /\ uploads' \in {uploads, uploads \cup {saved(FALSE)}}
             /\ run' = Working(r, InFailure(data), {})
             /\ UNCHANGED <<backups, uploaded>>
       /\ UNCHANGED <<env, drafts, cms, cache, secrets, csi, asked>>

\* The goroutine of an upload that nobody waits for.
FinishUpload ==
    \E b \in uploads :
        /\ backups' = [backups EXCEPT ![URL[b.by]] = b]
        /\ uploads' = uploads \ {b}
        /\ UNCHANGED <<env, drafts, cms, cache, secrets, run, csi, history>>

DeleteEtcdBackup(r) ==
    LET data == cache[r].data
        without == [backups EXCEPT ![URL[r]] = None]
    IN /\ Reconcilable(r)
       /\ data.phase = "DeletingEtcdBackup"
       /\ \/ /\ r \in secrets
             /\ backups' = without
             /\ run' = Working(r, [data EXCEPT !.phase = RequestNext(@)], {})
          \/ /\ r \notin secrets
             /\ run' = Working(r, InFailure(data), {})
             /\ UNCHANGED backups
          \/ /\ env.failures
             /\ r \in secrets
             /\ backups' \in {backups, without}
             /\ run' = Working(r, InFailure(data), {})
       /\ UNCHANGED <<env, drafts, cms, cache, secrets, csi, uploads, history>>

\* Removing the finalizer before the Secret (a faulty ReconcileDone).
ReconcileDoneUnlocks(r) ==
    /\ Reconcilable(r)
    /\ RequestDone(cache[r].data.phase) \/ cache[r].data.phase = "Deleted"
    /\ cms' = [cms EXCEPT ![r] = Unlocked(@, cache[r])]
    /\ secrets' = IF cache[r].finalizer THEN secrets ELSE secrets \ {r}
    /\ Caches
    /\ UNCHANGED <<env, drafts, backups, run, csi, uploads, history>>

\* reconcileDoneRequest: the Secret, after a day the ConfigMap, and then the
\* finalizer. After an error Reconcile records the request as failed, in a patch
\* that also carries the finalizer if its removal was what failed.
ReconcileDone(r) ==
    LET data == cache[r].data
        expired == IF Exists(r) THEN Removed(cms[r]) ELSE cms[r]
        failed(cm) == IF cm \in {None, Gone} THEN cm ELSE [cm EXCEPT !.data = InFailure(data)]
    IN /\ Reconcilable(r)
       /\ RequestDone(data.phase) \/ data.phase = "Deleted"
       /\ \/ /\ secrets' = secrets \ {r}
             /\ \E cm \in {cms[r], expired} : cms' = [cms EXCEPT ![r] = Unlocked(cm, cache[r])]
          \/ /\ env.failures
             /\ secrets' \in {secrets, secrets \ {r}}
             /\ \E cm \in {cms[r], failed(cms[r])} : cms' = [cms EXCEPT ![r] = cm]
          \/ /\ env.failures
             /\ secrets' = secrets \ {r}
             /\ \E cm \in {expired, failed(expired), Unlocked(failed(cms[r]), cache[r]),
                           Unlocked(failed(expired), cache[r])} :
                   cms' = [cms EXCEPT ![r] = cm]
       /\ Caches
       /\ UNCHANGED <<env, drafts, backups, run, csi, uploads, history>>

\* updateRequest: a merge patch, which writes the request only if it changed.
Save ==
    /\ run # Idle /\ run.todo = {}
    /\ cms' = IF run.data # run.before /\ Exists(run.req)
              THEN [cms EXCEPT ![run.req].data = run.data] ELSE cms
    /\ run' = Idle
    /\ Caches
    /\ UNCHANGED <<env, drafts, secrets, backups, csi, uploads, history>>

\* The process stops, with its uploads, or the patch fails.
Crash ==
    /\ env.failures
    /\ run # Idle
    /\ run' = Idle
    /\ uploads' \in {uploads, {}}
    /\ UNCHANGED <<env, drafts, cms, cache, secrets, backups, csi, history>>

-----------------------------------------------------------------------------
(* The CSI snapshot controller and driver (external).                        *)

\* The content of a VolumeSnapshot, as the CSI controller finds it.
Owned(r, p) == Content(res[r][p], ContentOf(res[r][p]))

BindContent(r, p) ==
    /\ res[r][p].vs # None
    /\ res[r][p].vs.source = "claim" /\ ~res[r][p].vs.bound /\ ~res[r][p].vs.deleting
    /\ \E policy \in env.policies :
         res' = [res EXCEPT ![r][p].vs.bound = TRUE,
                            ![r][p].dynamic = NamedContent(None, policy)]
    /\ UNCHANGED <<env, drafts, cms, cache, secrets, backups, run, storage, uploads, history>>

TakeSnapshot(r, p) ==
    LET content == res[r][p].dynamic
    IN /\ content # None
       /\ content.state # "ready" /\ ~content.deleting
       /\ \/ /\ res' = [res EXCEPT ![r][p].dynamic.state = "ready",
                                   ![r][p].dynamic.handle = <<r, p>>]
             /\ storage' = storage \cup {<<r, p>>}
          \/ /\ content.state = "unset"
             /\ res' = [res EXCEPT ![r][p].dynamic.state = "error"]
             /\ UNCHANGED storage
       /\ UNCHANGED <<env, drafts, cms, cache, secrets, backups, run, uploads, history>>

ReportState(r, p) ==
    /\ res[r][p].vs # None /\ res[r][p].vs.source = "claim"
    /\ Owned(r, p) # None
    /\ res[r][p].vs.state # Owned(r, p).state
    /\ res' = [res EXCEPT ![r][p].vs.state = Owned(r, p).state]
    /\ UNCHANGED <<env, drafts, cms, cache, secrets, backups, run, storage, uploads, history>>

DeleteContent(r, p) ==
    /\ res[r][p].vs # None /\ res[r][p].vs.deleting
    /\ Owned(r, p) # None
    /\ Owned(r, p).policy = "Delete" /\ ~Owned(r, p).deleting
    /\ res' = [res EXCEPT ![r][p][ContentOf(res[r][p])].deleting = TRUE]
    /\ UNCHANGED <<env, drafts, cms, cache, secrets, backups, run, storage, uploads, history>>

RemoveContent(r, p) ==
    \E name \in {"dynamic", "named"} :
        LET content == res[r][p][name]
        IN /\ content # None /\ content.deleting
           /\ res' = [res EXCEPT ![r][p][name] = None]
           /\ storage' = IF content.policy = "Delete" THEN storage \ {content.handle} ELSE storage
           /\ UNCHANGED <<env, drafts, cms, cache, secrets, backups, run, uploads, history>>

\* The finalizer of a VolumeSnapshot keeps it until a content to delete is gone.
RemoveSnapshot(r, p) ==
    /\ res[r][p].vs # None /\ res[r][p].vs.deleting
    /\ Owned(r, p) # None => Owned(r, p).policy = "Retain"
    /\ res' = [res EXCEPT ![r][p].vs = None]
    /\ UNCHANGED <<env, drafts, cms, cache, secrets, backups, run, storage, uploads, history>>

-----------------------------------------------------------------------------
Client(r) == CreateSecret(r) \/ CreateConfigMap(r) \/ DeleteConfigMap(r) \/ DeleteSecret(r)
Reconcile(r) ==
    \/ ReconcileDeleted(r) \/ AddFinalizer(r) \/ CancelPrevious(r) \/ StartRequest(r)
    \/ ReconcileVolumes(r) \/ CreateEtcdBackup(r) \/ DeleteEtcdBackup(r) \/ ReconcileDone(r)
CSI(r, p) ==
    \/ BindContent(r, p) \/ TakeSnapshot(r, p) \/ ReportState(r, p)
    \/ DeleteContent(r, p) \/ RemoveContent(r, p) \/ RemoveSnapshot(r, p)

Next ==
    \/ \E r \in Requests : Client(r) \/ Sync(r) \/ Reconcile(r)
    \/ VolumeStep \/ Save \/ FinishUpload \/ Crash
    \/ \E r \in Requests, p \in PVCs : CSI(r, p)

Spec == Init /\ [][Next]_vars

\* The work queue hands every request it holds to the worker in its turn, again
\* after each change and each RequeueAfter; what is begun is ended unless the
\* process stops; clients and the CSI controller go on. A request that is done is
\* not certain to be reconciled again after its day, so its expiry is not fair.
Due(r) == Reconcile(r) /\ (cms'[r] = Gone => cache[r].deleting)

FairSpec ==
    /\ Spec
    /\ WF_vars(VolumeStep) /\ WF_vars(Save)
    /\ \A r \in Requests : WF_vars(CreateConfigMap(r)) /\ SF_vars(Due(r))
    /\ \A r \in Requests, p \in PVCs : WF_vars(CSI(r, p))

-----------------------------------------------------------------------------
\* The types of the state: the phases are phases of their kind, and what the
\* controller works on is what it may write back.
TypeOK ==
    /\ env \in Environments
    /\ drafts \in [Requests -> Data \cup {None}]
    /\ {cms, cache} \subseteq [Requests -> ConfigMaps \cup {None, Gone}]
    /\ secrets \subseteq Requests
    /\ backups \in [URLs -> Backups \cup {None}]
    /\ run \in Runs \cup {Idle}
    /\ res \in [Requests -> [PVCs -> Resources]]
    /\ storage \subseteq Handles
    /\ asked \subseteq Handles
    /\ uploads \subseteq Backups
    /\ uploaded \subseteq Creates

InPhases(r, phases) == Exists(r) /\ Phase(r) \in phases
Started == {"CreatingVolumeSnapshots", "CreatingEtcdBackup"}

\* A creating request that has started has no earlier request for its URL left
\* that it should have canceled (cancelPreviousRequests, and its assumption that
\* "the current request has already started, previous requests should be
\* already canceled"), when requests appear in the order of their timestamps.
PreviousCanceled ==
    env.inOrder => \A r, o \in Creates :
        (URL[r] = URL[o] /\ Created[o] < Created[r] /\ InPhases(r, Started))
        => ~InPhases(o, Started \cup {"NotStarted"})

\* The storage snapshots that a saved snapshot refers to are there until some
\* client asks for their deletion, whatever fails or crashes: the clean-up after
\* the creation, cancellation, and deletion policies never lose them
\* (cleanupVolumeSnapshotResource, updateAndDeleteVolumeSnapshotResource).
SavedVolumesKept ==
    \A u \in URLs : backups[u] # None =>
        \A p \in backups[u].data.requests :
            backups[u].data.snapshots[p].phase = "Completed" =>
                backups[u].data.snapshots[p].handle \in storage \cup asked

\* A deletion request that has reached its last phases has removed from the
\* storage every snapshot that it was to delete (reconcileDeleting,
\* deleteVolumeSnapshot).
DeletedIsGone ==
    \A r \in Deletes : InPhases(r, {"DeletingEtcdBackup", "Deleted"}) =>
        \A p \in cms[r].data.requests :
            cms[r].data.snapshots[p].phase # "Failed" =>
                cms[r].data.snapshots[p].handle \notin storage

\* A PVC whose snapshot is recorded as Completed has no VolumeSnapshot any more
\* that could be deleted with its snapshot (reconcileInProgress waits for
\* cleanupVolumeSnapshotResource).
CompletedCleansUp ==
    \A r \in Creates : Exists(r) =>
        \A p \in PVCs :
            (cms[r].data.snapshots[p] # None /\ cms[r].data.snapshots[p].phase = "Completed")
            => res[r][p].vs = None

\* A request only becomes Completed or PartiallyFailed after it has uploaded a
\* whole snapshot (reconcileCreatingEtcdBackup), whatever was tried before.
CompletedIsSaved ==
    \A r \in Creates :
        (Exists(r) /\ cms'[r] # Gone /\ Phase(r) # cms'[r].data.phase
           /\ cms'[r].data.phase \in {"Completed", "PartiallyFailed"})
        => r \in uploaded

\* A request is only canceled for the sake of another one that is not, so that
\* of several requests for a URL one goes on (ShouldCancel, also when they were
\* created at the same time).
CanceledIsReplaced ==
    \A r \in Creates : InPhases(r, {"Canceling", "Canceled"}) =>
        \E o \in Creates :
            /\ URL[o] = URL[r] /\ Created[o] >= Created[r]
            /\ cms[o] # None
            /\ ~InPhases(o, {"Canceling", "Canceled"})

\* A request that is done stays so: the only other phase it can get is Failed,
\* when its own clean-up fails (Reconcile, ShouldCancel), as long as the
\* controller reads its own writes.
DoneIsFinal ==
    ~env.stale => \A r \in Requests :
        (Exists(r) /\ RequestDone(Phase(r)) /\ cms'[r] # Gone)
        => cms'[r].data.phase \in {Phase(r), "Failed"}

\* A request that has been submitted ends, or its ConfigMap is deleted.
RequestsFinish ==
    \A r \in Requests :
        Exists(r) ~> (~Exists(r) \/ RequestDone(Phase(r)) \/ Phase(r) = "Deleted")

\* When a request is done its Secret, which holds the storage credentials, goes
\* (reconcileDoneRequest).
SecretsRemoved ==
    \A r \in Requests :
        (Exists(r) /\ (RequestDone(Phase(r)) \/ Phase(r) = "Deleted")) ~> (r \notin secrets)

\* A deletion request that is done is not locked again: "Not done? Add the
\* finalizer if it's not already set!" (Reconcile, addFinalizer).
DeletedStaysUnlocked ==
    [][\A r \in Deletes :
         (InPhases(r, {"Deleted"}) /\ cms'[r] # Gone) => (cms'[r].finalizer => cms[r].finalizer)]_vars

\* What is saved has been uploaded to the end, as GetSnapshots takes it to be
\* when it shows a saved request as Completed or PartiallyFailed.
SavedSnapshotsWhole == \A u \in URLs : backups[u] # None => backups[u].whole

\* Of the requests for one URL, a request that goes on has none before it that it
\* should have canceled, and a canceled one has another in its place.
OneRequestGoesOn == PreviousCanceled /\ CanceledIsReplaced

\* What a request records about its volumes is so: nothing is left of the
\* resources of a completed snapshot, nor of a snapshot that was deleted.
RecordedIsDone == CompletedCleansUp /\ DeletedIsGone

\* A request gets a phase in which it has ended only for what it has done, and keeps
\* it (Reconcile, reconcileCreatingEtcdBackup).
EndedForGood == [][CompletedIsSaved /\ DoneIsFinal]_vars

=============================================================================
