--------------------------- MODULE RestoreController ---------------------------
(***************************************************************************)
(* The restore controller (pkg/snapshot/restorecontroller.go,              *)
(* controllerbase.go), the PVC syncer that waits for it                    *)
(* (pkg/controllers/resources/persistentvolumeclaims/syncer.go), and the   *)
(* CSI controller and provisioner both work with.                          *)
(*                                                                         *)
(* A restore request is a ConfigMap with a Secret of the same name, which  *)
(* the restore pod leaves (RestoreClient). One worker reconciles requests  *)
(* one at a time: it reads the ConfigMap from the cache, works on a copy,  *)
(* and patches the ConfigMap at the end. run is a reconciliation between   *)
(* two such points; the steps on one PVC are atomic.                       *)
(***************************************************************************)
EXTENDS VolumeRestorer, Integers, FiniteSetsExt

CONSTANTS
    Restores,   \* names of restore requests
    PVCs,       \* claims of the snapshot, numbered in its order
    Gone        \* a ConfigMap that has been removed

ASSUME RestoresAreFinite == IsFiniteSet(Restores)
ASSUME PVCsAreNumbered == PVCs \subseteq Int /\ IsFiniteSet(PVCs)
ASSUME HandlesAreClaims == Handles = PVCs
ASSUME GoneIsNotNone == Gone # None

VARIABLES
    requests,   \* the request ConfigMaps
    cache,      \* what the host client has cached of them
    secrets,    \* the requests whose Secret exists
    run,        \* the reconciliation the worker is in
    res,        \* VolumeSnapshots and contents, by request and PVC
    claims,     \* the claims in the cluster that has the volumes
    virtual,    \* PVCs of the virtual cluster (shared nodes: synced to claims)
    backend     \* snapshots in the storage backend

restoring == <<requests, cache, secrets, run, res, claims, virtual, backend>>

\* The JSON in the ConfigMap, and the ConfigMap around it.
RestorePhases == {"NotStarted", "RestoringVolumes", "Completed", "PartiallyFailed", "Failed"}
Data == [phase: RestorePhases, vphase: VolumePhases, pvcs: [PVCs -> VolumePhases \cup {None}]]
ConfigMaps == [data: Data, finalizer: BOOLEAN, deleting: BOOLEAN]
Runs == [req: Restores, before: Data, data: Data, todo: SUBSET PVCs]
Claims == [from: Restores \cup {"old", "empty"}, bound: BOOLEAN]

Exists(r) == requests[r] \notin {None, Gone}
Cached(r) == cache[r] \notin {None, Gone}
Done(phase) == phase \in {"Completed", "PartiallyFailed", "Failed"}
Caches == cache' = IF env.stale THEN cache ELSE requests'

RestoringInit ==
    /\ requests = [r \in Restores |-> None]
    /\ cache = requests
    /\ secrets = {}
    /\ run = None
    /\ res = [r \in Restores |-> [p \in PVCs |-> NoResources]]
    /\ claims = [p \in PVCs |-> IF p \in env.existing THEN PVC("old", TRUE) ELSE None]
    /\ virtual = {}
    /\ backend = PVCs

\* Starting with the volumes (a faulty NewRestoreRequest).
NewRestoreRequestStarted(snapshots) ==
    [phase |-> "InProgress", vphase |-> "InProgress",
     pvcs |-> [p \in PVCs |-> IF snapshots[p] = "Completed" THEN "InProgress" ELSE None]]

\* NewRestoreRequest: only the volumes whose snapshot is Completed.
NewRestoreRequest(snapshots) ==
    [phase |-> "NotStarted", vphase |-> "NotStarted",
     pvcs |-> [p \in PVCs |-> IF snapshots[p] = "Completed" THEN "NotStarted" ELSE None]]

Requested(data) == {p \in PVCs : data.pvcs[p] # None}

-----------------------------------------------------------------------------
(* Reconcile and what it calls.                                              *)

Removed(cm) == IF cm.finalizer THEN [cm EXCEPT !.deleting = TRUE] ELSE Gone

Unlocked(cm, seen) ==
    IF ~seen.finalizer \/ cm \in {None, Gone} THEN cm
    ELSE IF cm.deleting THEN Gone ELSE [cm EXCEPT !.finalizer = FALSE]

\* A user deletes a request.
DeleteRequest(r) ==
    /\ env.userDeletes
    /\ Exists(r) /\ ~requests[r].deleting
    /\ requests' = [requests EXCEPT ![r] = Removed(@)]
    /\ Caches
    /\ UNCHANGED <<secrets, run, res, claims, virtual, backend>>

Observe(r) ==
    /\ cache[r] # requests[r]
    /\ cache' = [cache EXCEPT ![r] = requests[r]]
    /\ UNCHANGED <<requests, secrets, run, res, claims, virtual, backend>>

\* reconcileDeletedRequest: the Secret first, then the finalizer.
ReconcileDeleted(r) ==
    /\ run = None /\ Cached(r) /\ cache[r].deleting
    /\ \/ /\ secrets' = secrets \ {r}
          /\ requests' = [requests EXCEPT ![r] = Unlocked(@, cache[r])]
       \/ /\ env.failures
          /\ secrets' \in {secrets, secrets \ {r}}
          /\ requests' = requests
    /\ Caches
    /\ UNCHANGED <<run, res, claims, virtual, backend>>

AddFinalizer(r) ==
    /\ run = None /\ Cached(r) /\ ~cache[r].deleting
    /\ ~Done(cache[r].data.phase)
    /\ ~cache[r].finalizer
    /\ Exists(r) /\ ~requests[r].deleting
    /\ requests' = [requests EXCEPT ![r].finalizer = TRUE]
    /\ Caches
    /\ UNCHANGED <<secrets, run, res, claims, virtual, backend>>

Reconcilable(r) ==
    /\ run = None /\ Cached(r) /\ ~cache[r].deleting
    /\ cache[r].finalizer \/ Done(cache[r].data.phase)

Working(r, data, todo) == [req |-> r, before |-> cache[r].data, data |-> data, todo |-> todo]

\* The request follows its volumes.
FollowVolumes(data) ==
    [data EXCEPT !.phase =
        CASE data.vphase = "InProgress" -> @
          [] data.vphase \in {"Skipped", "Completed"} -> "Completed"
          [] data.vphase \in {"Failed", "PartiallyFailed"} -> data.vphase]

Concluded(data) ==
    FollowVolumes([data EXCEPT !.vphase = RestoredPhase({data.pvcs[p] : p \in Requested(data)})])

\* reconcileNewRequest, or the volume restorer up to its loop over the PVCs.
StartRestore(r) ==
    LET data == cache[r].data
        begun == [data EXCEPT !.vphase = "InProgress"]
    IN /\ Reconcilable(r)
       /\ \/ /\ data.phase = "NotStarted"
             /\ run' = Working(r, [data EXCEPT !.phase = "RestoringVolumes"], {})
          \/ /\ data.phase = "RestoringVolumes"
             /\ run' = IF Requested(data) = {} THEN Working(r, Concluded(begun), {})
                       ELSE Working(r, begun, Requested(data))
       /\ UNCHANGED <<requests, cache, secrets, res, claims, virtual, backend>>

\* One PVC of the loop.
RestoreVolume ==
    /\ run # None /\ run.todo # {}
    /\ LET r == run.req
           p == Min(run.todo)
           rest == run.todo \ {p}
       IN \E e \in RestoreStep(r, res[r][p], claims[p], run.data.pvcs[p], p) :
            LET data == [run.data EXCEPT !.pvcs[p] = e.phase]
            IN /\ res' = [res EXCEPT ![r][p] = e.res]
               /\ claims' = [claims EXCEPT ![p] = e.claim]
               /\ run' = [run EXCEPT !.data = IF rest = {} THEN Concluded(data) ELSE data,
                                     !.todo = rest]
    /\ UNCHANGED <<requests, cache, secrets, virtual, backend>>

\* updateRequest: a merge patch, which writes the request only if it changed.
SaveRestore ==
    /\ run # None /\ run.todo = {}
    /\ requests' = IF run.data # run.before /\ Exists(run.req)
                   THEN [requests EXCEPT ![run.req].data = run.data] ELSE requests
    /\ run' = None
    /\ Caches
    /\ UNCHANGED <<secrets, res, claims, virtual, backend>>

\* The process stops, or the patch fails.
LoseRestore ==
    /\ env.failures
    /\ run # None
    /\ run' = None
    /\ UNCHANGED <<requests, cache, secrets, res, claims, virtual, backend>>

\* reconcileDoneRequest: the Secret, after a day the ConfigMap, and then the
\* finalizer. After an error Reconcile records the request as failed.
ReconcileDone(r) ==
    LET expired == IF Exists(r) THEN Removed(requests[r]) ELSE requests[r]
        failed(cm) == IF cm \in {None, Gone} THEN cm
                      ELSE [cm EXCEPT !.data = [cache[r].data EXCEPT !.phase = "Failed"]]
    IN /\ Reconcilable(r)
       /\ Done(cache[r].data.phase)
       /\ \/ /\ secrets' = secrets \ {r}
             /\ \E cm \in {requests[r], expired} :
                   requests' = [requests EXCEPT ![r] = Unlocked(cm, cache[r])]
          \/ /\ env.failures
             /\ secrets' \in {secrets, secrets \ {r}}
             /\ \E cm \in {requests[r], failed(requests[r])} : requests' = [requests EXCEPT ![r] = cm]
          \/ /\ env.failures
             /\ secrets' = secrets \ {r}
             /\ \E cm \in {expired, failed(expired), Unlocked(failed(requests[r]), cache[r]),
                           Unlocked(failed(expired), cache[r])} :
                   requests' = [requests EXCEPT ![r] = cm]
       /\ Caches
       /\ UNCHANGED <<run, res, claims, virtual, backend>>

-----------------------------------------------------------------------------
(* The PVC syncer.                                                           *)

\* Taking a request that has not started for one that is done (a faulty
\* isHostVolumeRestoreInProgress).
isHostVolumeRestoreStarted(p) ==
    \E r \in Restores : Cached(r) /\ cache[r].data.pvcs[p] = "InProgress"

\* It looks at the claim in every request the host client has cached.
isHostVolumeRestoreInProgress(p) ==
    \E r \in Restores :
        /\ Cached(r)
        /\ LET phase == cache[r].data.pvcs[p]
           IN /\ phase # None
              /\ ~(CleaningUp(phase) \/ phase \in {"Completed", "Skipped", "Failed"})

\* SyncToHost for a PVC the host does not have.
SyncClaim(p) ==
    /\ ~env.private
    /\ p \in virtual
    /\ claims[p] = None
    /\ ~isHostVolumeRestoreInProgress(p)
    /\ claims' = [claims EXCEPT ![p] = PVC("empty", FALSE)]
    /\ UNCHANGED <<requests, cache, secrets, run, res, virtual, backend>>

-----------------------------------------------------------------------------
(* The CSI snapshot controller, driver and provisioner (external).           *)

SetContentState(r, p) ==
    LET content == res[r][p].named
    IN /\ content # None
       /\ content.state # "ready" /\ ~content.deleting
       /\ \/ res' = [res EXCEPT ![r][p].named.state = "ready"]
          \/ /\ env.csiErrors /\ content.state = "unset"
             /\ res' = [res EXCEPT ![r][p].named.state = "error"]
       /\ UNCHANGED <<requests, cache, secrets, run, claims, virtual, backend>>

SetSnapshotState(r, p) ==
    LET now == res[r][p]
    IN /\ now.vs # None /\ now.named # None
       /\ now.vs.state # now.named.state
       /\ res' = [res EXCEPT ![r][p].vs.state = now.named.state]
       /\ UNCHANGED <<requests, cache, secrets, run, claims, virtual, backend>>

RemoveContent(r, p) ==
    LET content == res[r][p].named
    IN /\ content # None /\ content.deleting
       /\ res' = [res EXCEPT ![r][p].named = None]
       /\ backend' = IF content.policy = "Delete" THEN backend \ {content.handle} ELSE backend
       /\ UNCHANGED <<requests, cache, secrets, run, claims, virtual>>

\* Deleting a VolumeSnapshot deletes a content with that policy.
RemoveSnapshot(r, p) ==
    /\ res[r][p].vs # None /\ res[r][p].vs.deleting
    /\ res' = [res EXCEPT ![r][p].vs = None,
                          ![r][p].named = IF @ # None /\ @.policy = "Delete"
                                          THEN [@ EXCEPT !.deleting = TRUE] ELSE @]
    /\ UNCHANGED <<requests, cache, secrets, run, claims, virtual, backend>>

\* A claim is provisioned from its VolumeSnapshot, which has to be there.
BindClaim(p) ==
    /\ claims[p] # None /\ ~claims[p].bound
    /\ claims[p].from \in Restores =>
         LET vs == res[claims[p].from][p].vs
         IN vs # None /\ vs.state = "ready" /\ ~vs.deleting
    /\ claims' = [claims EXCEPT ![p].bound = TRUE]
    /\ UNCHANGED <<requests, cache, secrets, run, res, virtual, backend>>

-----------------------------------------------------------------------------
ReconcileRestore(r) ==
    ReconcileDeleted(r) \/ AddFinalizer(r) \/ StartRestore(r) \/ ReconcileDone(r)

\* What runs in the syncer process.
ControllerStep ==
    \/ \E r \in Restores : ReconcileRestore(r) \/ Observe(r)
    \/ RestoreVolume \/ SaveRestore \/ LoseRestore
    \/ \E p \in PVCs : SyncClaim(p)

CSI(r, p) ==
    \/ SetContentState(r, p) \/ SetSnapshotState(r, p)
    \/ RemoveContent(r, p) \/ RemoveSnapshot(r, p)

StorageStep ==
    \/ \E r \in Restores : DeleteRequest(r) \/ \E p \in PVCs : CSI(r, p)
    \/ \E p \in PVCs : BindClaim(p)

-----------------------------------------------------------------------------
(* Properties of the restore of volumes.                                     *)

Pending(r, p) == Exists(r) /\ requests[r].data.pvcs[p] \in {"NotStarted", "InProgress"}

\* The PVC syncer never gives a PVC an empty volume while a request has yet to
\* restore that volume: isHostVolumeRestoreInProgress sees the request, however
\* old its cache is.
NoEmptyVolume ==
    \A p \in PVCs : claims[p] = None /\ claims'[p] # None /\ claims'[p].from = "empty" =>
        \A r \in Restores : ~Pending(r, p)

\* The VolumeSnapshot a claim is restored from is there until the claim is bound:
\* the clean-up waits for that. Only a request that gives up on the PVC, after an
\* error, removes it before.
SnapshotKeptWhileBinding ==
    \A p \in PVCs : claims[p] # None /\ ~claims[p].bound /\ claims[p].from \in Restores =>
        LET r == claims[p].from
            gaveUp == ~Exists(r) \/ requests[r].data.pvcs[p] \in {"FailedCleaningUp", "Failed"}
        IN ~gaveUp => res[r][p].vs # None /\ ~res[r][p].vs.deleting

\* A PVC whose restore is recorded as Completed has a bound claim made from the
\* snapshot. The VolumeSnapshot the restorer made is gone or going, and so is its
\* content, unless the clean-up was repeated after a failure: it does not find the
\* content again once the VolumeSnapshot is gone.
CompletedIsRestored ==
    \A r \in Restores, p \in PVCs :
        Exists(r) /\ requests[r].data.pvcs[p] = "Completed" =>
            /\ claims[p] # None /\ claims[p].from = r /\ claims[p].bound
            /\ res[r][p].vs # None => res[r][p].vs.deleting
            /\ res[r][p].named # None /\ ~env.failures => res[r][p].named.deleting

\* Restoring a volume never deletes the snapshot it is restored from, and every
\* snapshot of the archive can be restored again: the contents the restorer makes
\* have the policy Retain.
BackendKept == backend = PVCs

=============================================================================
