----------------------------- MODULE SnapshotSteps -----------------------------
(***************************************************************************)
(* What a request of SnapshotController can record in each of its phases,  *)
(* and what the steps of Reconcile, the handlers of the CSI resources and  *)
(* the loop over the PVCs make of it, for every choice of the constants;   *)
(* and that clients and Reconcile keep what is recorded well formed.       *)
(***************************************************************************)
EXTENDS SnapshotController, WellFoundedInduction, TLAPS

\* The phases of creating and of deleting requests, those in which a creating request has
\* not dealt with its volumes yet, those in which it can be canceled, and those of a canceled one.
CreatePhases == {"NotStarted", "CreatingVolumeSnapshots", "CreatingEtcdBackup", "Completed",
                 "PartiallyFailed", "Failed", "Canceling", "Canceled"}
DeletePhases == {"Deleting", "DeletingVolumeSnapshots", "DeletingEtcdBackup", "Deleted", "Failed"}
Early == {"NotStarted", "CreatingVolumeSnapshots"}
Active == {"NotStarted", "CreatingVolumeSnapshots", "CreatingEtcdBackup"}
Cancels == {"Canceling", "Canceled"}

\* A request does not go back to its first phases, nor is it canceled by its own reconciliation.
Advances(f, g) ==
    /\ g \in Early => f \in Early
    /\ g \in Active => f \in Active
    /\ g \in Cancels => f \in Cancels

\* Every PVC the request is about has a status, in one of the phases.
SnapshotsIn(d, phases) ==
    \A p \in d.requests : d.snapshots[p] \in SnapshotStatus /\ d.snapshots[p].phase \in phases
Snapped(d) == SnapshotsIn(d, {"Completed", "Failed"})

\* Only requests that include volumes have any.
VolumesOnly(d) ==
    /\ ~d.volumes => d.requests = {} /\ d.snapshots = NoSnapshots
    /\ d.volumes => env.withVolumes # {}

\* What a creating and what a deleting request can record.
CreateData(d) ==
    /\ d.phase \in CreatePhases
    /\ d.vphase \notin {"Deleting", "Deleted"}
    /\ d.vphase = "NotStarted" => d.snapshots = NoSnapshots
    /\ d.phase = "NotStarted" => d.vphase = "NotStarted"
    /\ d.phase = "CreatingVolumeSnapshots" => d.vphase \notin {"Canceling", "Canceled"}
    /\ d.vphase \in {"Completed", "PartiallyFailed"} => Snapped(d)
    /\ d.phase = "CreatingEtcdBackup" => Snapped(d)

DeleteData(d) ==
    /\ d.phase \in DeletePhases
    /\ SnapshotsIn(d, {"Completed", "Failed", "Deleting", "Deleted"})
    /\ d.phase \in {"DeletingEtcdBackup", "Deleted"} => SnapshotsIn(d, {"Deleted", "Failed"})

DataOf(r, d) ==
    /\ d \in Data
    /\ VolumesOnly(d)
    /\ r \in Creates => CreateData(d)
    /\ r \in Deletes => DeleteData(d)

\* What is saved has been snapshotted, PVC by PVC.
BackupOK(b) == b \in Backups /\ VolumesOnly(b.data) /\ Snapped(b.data)

\* What a client is about to submit.
DraftOK(r) ==
    drafts[r] # None =>
        /\ cms[r] = None
        /\ DataOf(r, drafts[r])
        /\ r \in Creates => drafts[r].phase = "NotStarted"

\* The reconciliation is in the loop over the PVCs and has dealt with all but todo.
LoopOK(r, d, todo) ==
    \/ /\ r \in Creates /\ d.phase = "CreatingVolumeSnapshots" /\ d.vphase = "InProgress"
       /\ \A p \in d.requests \ todo : d.snapshots[p] \in SnapshotStatus
    \/ r \in Creates /\ d.phase = "Canceling" /\ d.vphase = "Canceling"
    \/ /\ r \in Deletes /\ d.phase = "DeletingVolumeSnapshots" /\ d.vphase = "Deleting"
       /\ \A p \in d.requests \ todo : d.snapshots[p].phase \in {"Deleting", "Deleted", "Failed"}

\* What a reconciliation can be about to write.
RunOK(q) ==
    /\ DataOf(q.req, q.data)
    /\ q.todo \subseteq q.data.requests
    /\ q.todo # {} => LoopOK(q.req, q.data, q.todo)
    /\ q.req \in Creates /\ q.data.phase \in {"Completed", "PartiallyFailed"} => q.req \in uploaded
    /\ Advances(q.before.phase, q.data.phase)

\* What a deleting request has for a PVC: a pre-provisioned content at most.
Preprovisioned(x) == x.dynamic = None /\ (x.vs # None => x.vs.source = "content")

\* Everything that is recorded anywhere is well formed, also if the cache lags behind.
Recorded ==
    /\ TypeOK
    /\ \A r \in Deletes, p \in PVCs : Preprovisioned(res[r][p])
    /\ \A r \in Requests :
         /\ DraftOK(r)
         /\ Exists(r) => DataOf(r, cms[r].data)
         /\ Cached(r) => DataOf(r, cache[r].data)
    /\ \A u \in URLs : backups[u] # None => BackupOK(backups[u])
    /\ \A b \in uploads : BackupOK(b)
    /\ run # Idle => RunOK(run)

\* A controller that reads its own writes: what a reconciliation works on is what is recorded,
\* not done and locked by the finalizer, and the PVCs it still has to go through are as recorded.
Current ==
    /\ cache = cms
    /\ run # Idle =>
        /\ Exists(run.req) /\ cms[run.req].finalizer
        /\ cms[run.req].data = run.before
        /\ ~RequestDone(run.before.phase)
        /\ \A p \in run.todo : run.data.snapshots[p] = run.before.snapshots[p]
        /\ run.todo # {} => run.data.phase = run.before.phase

-----------------------------------------------------------------------------
(* What the steps of Reconcile write.                                        *)

\* The fields of the JSON of a request.
LEMMA DataFields ==
    ASSUME NEW d \in Data
    PROVE  /\ d.phase \in RequestPhases /\ d.volumes \in BOOLEAN /\ d.vphase \in VolumePhases
           /\ d.requests \subseteq PVCs /\ d.snapshots \in [PVCs -> SnapshotStatus \cup {None}]
  BY DEF Data

\* A new phase changes nothing else.
SameButPhase(d, e) ==
    /\ e.volumes = d.volumes /\ e.vphase = d.vphase
    /\ e.requests = d.requests /\ e.snapshots = d.snapshots

\* Setting the phase changes nothing else.
LEMMA Rephased ==
    ASSUME NEW d \in Data, NEW f \in RequestPhases
    PROVE  LET e == [d EXCEPT !.phase = f]
           IN e \in Data /\ e.phase = f /\ SameButPhase(d, e)
  BY DEF Data, SameButPhase

\* A request stays well formed when its phase is set to one that its volumes allow.
LEMMA RephasedOf ==
    ASSUME NEW r \in Requests, NEW d, DataOf(r, d), NEW f \in RequestPhases,
           r \in Creates => /\ f \in CreatePhases \ {"NotStarted"}
                            /\ f = "CreatingVolumeSnapshots" => d.vphase \notin {"Canceling", "Canceled"}
                            /\ f = "CreatingEtcdBackup" => Snapped(d),
           r \in Deletes => /\ f \in DeletePhases
                            /\ f \in {"DeletingEtcdBackup", "Deleted"} => SnapshotsIn(d, {"Deleted", "Failed"})
    PROVE  DataOf(r, [d EXCEPT !.phase = f])
  <1> DEFINE e == [d EXCEPT !.phase = f]
  <1>1. e \in Data /\ e.phase = f /\ SameButPhase(d, e)
    BY Rephased DEF DataOf
  <1> HIDE DEF e
  <1>2. VolumesOnly(e)
    BY <1>1 DEF DataOf, VolumesOnly, SameButPhase
  <1>3. r \in Creates => CreateData(e)
    BY <1>1 DEF DataOf, CreateData, Snapped, SnapshotsIn, SameButPhase
  <1>4. r \in Deletes => DeleteData(e)
    BY <1>1 DEF DataOf, DeleteData, SnapshotsIn, SameButPhase
  <1> QED BY <1>1, <1>2, <1>3, <1>4 DEF DataOf, e

\* Recording a failure (Reconcile) keeps a request well formed.
LEMMA FailedOf ==
    ASSUME NEW r \in Requests, NEW d, DataOf(r, d)
    PROVE  /\ DataOf(r, InFailure(d))
           /\ InFailure(d).phase = "Failed" /\ SameButPhase(d, InFailure(d))
  BY Zenon, RephasedOf, Rephased, RequestsAreDistinct
     DEF InFailure, RequestPhases, CreatePhases, DeletePhases, Requests, DataOf

\* What Reconcile hands to the volume snapshotter is well formed and has the phase of the request.
LEMMA EnteredOf ==
    ASSUME NEW r \in Requests, NEW d, DataOf(r, d),
           d.phase \in {"CreatingVolumeSnapshots", "Canceling", "DeletingVolumeSnapshots"}
    PROVE  /\ DataOf(r, Entered(d))
           /\ Entered(d).phase = d.phase /\ Entered(d).volumes = d.volumes
           /\ Entered(d).requests = d.requests /\ Entered(d).snapshots = d.snapshots
           /\ d.volumes /\ d.phase = "Canceling" => Entered(d).vphase = "Canceling"
           /\ d.volumes /\ d.phase = "DeletingVolumeSnapshots" => Entered(d).vphase = "Deleting"
  <1> DEFINE e == Entered(d)
  <1>1. /\ e \in Data /\ e.phase = d.phase /\ e.volumes = d.volumes
        /\ e.requests = d.requests /\ e.snapshots = d.snapshots
        /\ \/ e.vphase = d.vphase /\ (d.volumes => d.phase = "CreatingVolumeSnapshots")
           \/ d.volumes /\ d.phase = "Canceling" /\ e.vphase = "Canceling"
           \/ d.volumes /\ d.phase = "DeletingVolumeSnapshots" /\ e.vphase = "Deleting"
    BY DEF DataOf, Data, Entered, VolumePhases
  <1> HIDE DEF e
  <1>2. VolumesOnly(e)
    BY <1>1 DEF DataOf, VolumesOnly
  <1>3. r \in Creates => CreateData(e)
    BY <1>1 DEF DataOf, CreateData, CreatePhases, Snapped, SnapshotsIn
  <1>4. r \in Deletes => DeleteData(e)
    BY <1>1 DEF DataOf, DeleteData, SnapshotsIn
  <1> QED BY <1>1, <1>2, <1>3, <1>4 DEF DataOf, e

\* The second half of reconcileVolumeSnapshots changes only the phase, and takes the request on.
LEMMA FollowedOf ==
    ASSUME NEW r \in Requests, NEW d, DataOf(r, d),
           r \in Creates => d.phase \in {"CreatingVolumeSnapshots", "Canceling"},
           d.phase = "Canceling" => d.vphase \in {"Canceling", "Canceled"},
           r \in Deletes => /\ d.phase = "DeletingVolumeSnapshots" /\ d.vphase \in {"Deleting", "Deleted"}
                            /\ d.vphase = "Deleted" => SnapshotsIn(d, {"Deleted", "Failed"})
    PROVE  /\ DataOf(r, FollowVolumes(d)) /\ SameButPhase(d, FollowVolumes(d))
           /\ FollowVolumes(d).phase \in {d.phase, "CreatingEtcdBackup", "Canceled", "Failed", "DeletingEtcdBackup"}
           /\ Advances(d.phase, FollowVolumes(d).phase)
  <1> DEFINE e == FollowVolumes(d)
  <1>0. d \in Data /\ d.vphase \in VolumePhases /\ d.phase \in RequestPhases
    BY DataFields DEF DataOf
  <1>1. CASE r \in Creates
    <2>1. d.vphase \notin {"Deleting", "Deleted"} /\ (d.vphase \in {"Completed", "PartiallyFailed"} => Snapped(d))
      BY <1>1 DEF DataOf, CreateData
    <2>2. /\ e \in Data /\ SameButPhase(d, e)
          /\ e.phase \in {d.phase, "CreatingEtcdBackup", "Canceled", "Failed"}
          /\ e.phase = "CreatingEtcdBackup" => d.vphase \in {"Completed", "PartiallyFailed"}
      BY <1>0, <1>1, <2>1 DEF FollowVolumes, InFailure, Data, SameButPhase, RequestPhases
    <2> HIDE DEF e
    <2>3. VolumesOnly(e) /\ CreateData(e)
      BY <1>1, <2>1, <2>2 DEF DataOf, VolumesOnly, CreateData, CreatePhases, Snapped, SnapshotsIn, SameButPhase
    <2>4. Advances(d.phase, e.phase)
      <3>1. d.phase = "CreatingVolumeSnapshots" => d.vphase \notin {"Canceling", "Canceled"}
        BY <1>1 DEF DataOf, CreateData
      <3>2. e.phase = "Canceled" => d.vphase = "Canceled"
        BY <1>0, <1>1, <2>1 DEF e, FollowVolumes, InFailure, Data
      <3> QED BY <1>1, <2>2, <3>1, <3>2 DEF Advances, Early, Active, Cancels
    <2> QED BY <1>1, <2>2, <2>3, <2>4, RequestsAreDistinct DEF DataOf, e
  <1>2. CASE r \in Deletes
    <2>2. /\ e \in Data /\ SameButPhase(d, e)
          /\ e.phase = d.phase \/ (d.vphase = "Deleted" /\ e.phase = "DeletingEtcdBackup")
      <3>1. CASE d.vphase = "Deleting"
        BY <1>0, <3>1 DEF FollowVolumes, SameButPhase
      <3>2. CASE d.vphase = "Deleted"
        <4>1. e = [d EXCEPT !.phase = "DeletingEtcdBackup"]
          BY <1>2, <3>2 DEF FollowVolumes, RequestNext
        <4> HIDE DEF e
        <4> QED BY <1>0, <3>2, <4>1 DEF Data, RequestPhases, SameButPhase
      <3> QED BY <1>2, <3>1, <3>2
    <2> HIDE DEF e
    <2>3. VolumesOnly(e) /\ DeleteData(e)
      BY <1>2, <2>2 DEF DataOf, VolumesOnly, DeleteData, DeletePhases, SnapshotsIn, SameButPhase
    <2>4. Advances(d.phase, e.phase)
      BY <1>2, <2>2 DEF Advances, Early, Active, Cancels
    <2> QED BY <1>2, <2>2, <2>3, <2>4, RequestsAreDistinct DEF DataOf, e
  <1> QED BY <1>1, <1>2 DEF Requests

\* The parts of a reconciliation.
LEMMA WorkingFields ==
    ASSUME NEW r, NEW d, NEW t
    PROVE  LET q == Working(r, d, t)
           IN q.req = r /\ q.before = cache[r].data /\ q.data = d /\ q.todo = t
  BY DEF Working

\* A reconciliation that has no PVCs to go through.
LEMMA WorkingOf ==
    ASSUME NEW r \in Requests, cache[r] \in ConfigMaps, NEW d, DataOf(r, d),
           r \in Creates /\ d.phase \in {"Completed", "PartiallyFailed"} => r \in uploaded,
           Advances(cache[r].data.phase, d.phase)
    PROVE  Working(r, d, {}) \in Runs /\ RunOK(Working(r, d, {}))
  <1>1. Working(r, d, {}) \in Runs
    BY DEF Working, Runs, ConfigMaps, DataOf
  <1>2. RunOK(Working(r, d, {}))
    BY WorkingFields DEF RunOK
  <1> QED BY <1>1, <1>2

\* The volume snapshotter, up to its loop, leads to well-formed reconciliations that keep the
\* statuses of the PVCs.
LEMMA VolumeRunsOf ==
    ASSUME NEW r \in Requests, TypeOK, cache[r] \in ConfigMaps, DataOf(r, cache[r].data),
           cache[r].data.phase \in {"CreatingVolumeSnapshots", "Canceling", "DeletingVolumeSnapshots"},
           NEW q \in VolumeRuns(r, Entered(cache[r].data))
    PROVE  /\ q \in Runs /\ RunOK(q) /\ q.req = r /\ q.before = cache[r].data
           /\ q.data.snapshots = cache[r].data.snapshots
           /\ r \in Deletes => q.data.requests = cache[r].data.requests
           /\ q.todo # {} => q.data.phase = cache[r].data.phase
  <1> DEFINE d == Entered(cache[r].data)
  <1>1. /\ DataOf(r, d) /\ d.snapshots = cache[r].data.snapshots /\ d.phase = cache[r].data.phase
        /\ d.requests = cache[r].data.requests
        /\ d.volumes /\ d.phase = "Canceling" => d.vphase = "Canceling"
        /\ d.volumes /\ d.phase = "DeletingVolumeSnapshots" => d.vphase = "Deleting"
    BY EnteredOf
  <1> HIDE DEF d
  <1>2. d \in Data /\ d.requests \subseteq PVCs /\ d.vphase \in VolumePhases /\ d.phase \in RequestPhases
    BY <1>1, DataFields DEF DataOf
  <1>3. /\ r \in Creates => d.phase \in {"CreatingVolumeSnapshots", "Canceling"}
        /\ r \in Deletes => d.phase = "DeletingVolumeSnapshots"
    BY <1>1 DEF DataOf, CreateData, DeleteData, CreatePhases, DeletePhases
  <1>4. CASE ~d.volumes
    <2>1. q = Working(r, [d EXCEPT !.phase = RequestNext(d.phase)], {})
      BY <1>4 DEF VolumeRuns, d
    <2>2. d.requests = {}
      BY <1>1, <1>4 DEF DataOf, VolumesOnly
    <2>3. RequestNext(d.phase) \in {"CreatingEtcdBackup", "Canceled", "DeletingEtcdBackup"}
      BY <1>3 DEF RequestNext, Requests
    <2>4. /\ r \in Creates => RequestNext(d.phase) \in {"CreatingEtcdBackup", "Canceled"}
          /\ r \in Deletes => RequestNext(d.phase) = "DeletingEtcdBackup"
      BY <1>3 DEF RequestNext
    <2> DEFINE f == RequestNext(d.phase)
               e == [d EXCEPT !.phase = f]
    <2> HIDE DEF f
    <2>5. DataOf(r, e)
      BY Zenon, <1>1, <2>2, <2>3, <2>4, RephasedOf
         DEF f, RequestPhases, CreatePhases, DeletePhases, Snapped, SnapshotsIn
    <2>6. e.phase = f /\ SameButPhase(d, e)
      BY <1>2, <2>3 DEF f, SameButPhase, Data, RequestPhases
    <2>7. q = Working(r, e, {})
      BY <2>1 DEF f
    <2> HIDE DEF e
    <2>a. Advances(d.phase, e.phase)
      <3>1. f = IF d.phase = "CreatingVolumeSnapshots" THEN "CreatingEtcdBackup"
                ELSE IF d.phase = "Canceling" THEN "Canceled" ELSE "DeletingEtcdBackup"
        BY <1>3 DEF f, RequestNext, Requests
      <3> QED BY <1>3, <2>6, <3>1 DEF Advances, Early, Active, Cancels
    <2>8. q \in Runs /\ RunOK(q)
      BY <1>1, <2>3, <2>5, <2>6, <2>7, <2>a, WorkingOf DEF f
    <2> QED BY <1>1, <2>6, <2>7, <2>8, WorkingFields DEF SameButPhase
  <1>5. CASE d.volumes /\ d.vphase = "NotStarted"
    <2>1. r \in Creates /\ d.phase = "CreatingVolumeSnapshots" /\ d.snapshots = NoSnapshots
      BY <1>1, <1>3, <1>5 DEF Requests, DataOf, CreateData
    <2>2. \/ q = Working(r, InFailure(d), {})
          \/ \E claims \in SUBSET env.claims :
                q = Working(r, [d EXCEPT !.vphase = "InProgress", !.requests = claims,
                                         !.snapshots = NoSnapshots], {})
      <3>1. VolumeRuns(r, d)
              = {Working(r, [d EXCEPT !.vphase = "InProgress", !.requests = claims,
                                      !.snapshots = NoSnapshots], {}) : claims \in SUBSET env.claims}
                \cup Faults({Working(r, InFailure(d), {})})
        BY Zenon, <1>5 DEF VolumeRuns, IsDeleting
      <3>2. q \in VolumeRuns(r, d)
        BY DEF d
      <3> QED BY Zenon, <3>1, <3>2 DEF Faults
    <2>3. CASE q = Working(r, InFailure(d), {})
      <3>1. DataOf(r, InFailure(d)) /\ InFailure(d).phase = "Failed" /\ SameButPhase(d, InFailure(d))
        BY <1>1, FailedOf
      <3>2. Advances(cache[r].data.phase, "Failed")
        BY DEF Advances, Early, Active, Cancels
      <3>3. Advances(cache[r].data.phase, InFailure(d).phase)
        BY <3>1, <3>2
      <3>4. Working(r, InFailure(d), {}) \in Runs /\ RunOK(Working(r, InFailure(d), {}))
        BY <3>1, <3>3, WorkingOf
      <3> QED BY <1>1, <2>1, <2>3, <3>1, <3>4, WorkingFields, RequestsAreDistinct DEF SameButPhase
    <2>4. ASSUME NEW claims \in SUBSET env.claims,
                 q = Working(r, [d EXCEPT !.vphase = "InProgress", !.requests = claims,
                                          !.snapshots = NoSnapshots], {})
          PROVE  /\ q \in Runs /\ RunOK(q) /\ q.req = r /\ q.before = cache[r].data
                 /\ q.data.snapshots = d.snapshots /\ q.todo = {}
      <3> DEFINE e == [d EXCEPT !.vphase = "InProgress", !.requests = claims, !.snapshots = NoSnapshots]
      <3>1. claims \subseteq PVCs
        BY EnvironmentsAreSwitches DEF TypeOK
      <3>2. /\ e \in Data /\ e.phase = d.phase /\ e.volumes = d.volumes /\ e.vphase = "InProgress"
            /\ e.snapshots = d.snapshots
        BY Zenon, <1>2, <2>1, <3>1 DEF Data, VolumePhases
      <3> HIDE DEF e
      <3>3. DataOf(r, e)
        BY <1>1, <1>5, <2>1, <3>2, RequestsAreDistinct DEF DataOf, CreateData, VolumesOnly
      <3>4. q = Working(r, e, {})
        BY <2>4 DEF e
      <3>5. q \in Runs /\ RunOK(q)
        <4>1. Advances(cache[r].data.phase, e.phase)
          BY <1>1, <3>2 DEF Advances, Early, Active, Cancels
        <4> QED BY Zenon, <1>1, <2>1, <3>2, <3>3, <3>4, <4>1, WorkingOf
      <3> QED BY <3>2, <3>4, <3>5, WorkingFields
    <2> QED BY Zenon, <1>1, <2>1, <2>2, <2>3, <2>4, RequestsAreDistinct
  <1>6. CASE /\ d.volumes /\ d.requests # {}
             /\ IsDeleting(d.vphase) \/ d.vphase = "InProgress"
    <2>1. q = Working(r, d, d.requests)
      <3>1. d.vphase # "NotStarted"
        BY <1>6 DEF IsDeleting
      <3> QED BY <1>6, <3>1 DEF VolumeRuns, d
    <2>2. /\ r \in Creates => \/ d.phase = "CreatingVolumeSnapshots" /\ d.vphase = "InProgress"
                              \/ d.phase = "Canceling" /\ d.vphase = "Canceling"
          /\ r \in Deletes => d.vphase = "Deleting"
      BY <1>1, <1>3, <1>6 DEF IsDeleting, DataOf, CreateData
    <2>3. q.req = r /\ q.before = cache[r].data /\ q.data = d /\ q.todo = d.requests
      BY <2>1, WorkingFields
    <2>4. q \in Runs
      BY <1>2, <2>1 DEF Working, Runs, ConfigMaps
    <2>5. LoopOK(r, d, d.requests)
      BY <1>3, <2>2 DEF LoopOK, Requests
    <2>6. RunOK(q)
      <3>1. Advances(q.before.phase, q.data.phase)
        BY <1>1, <2>3 DEF Advances, Early, Active, Cancels
      <3> QED BY <1>1, <1>3, <2>3, <2>5, <3>1 DEF RunOK
    <2> QED BY <1>1, <1>6, <2>3, <2>4, <2>6
  <1>7. CASE /\ d.volumes /\ d.requests = {}
             /\ IsDeleting(d.vphase) \/ d.vphase = "InProgress"
    <2> DEFINE v == IF d.vphase = "InProgress" THEN "Completed" ELSE VolumeNext(d.vphase)
               e == [d EXCEPT !.vphase = v]
    <2>1. v \in {"Completed", "Canceled", "Deleted"}
      BY <1>7 DEF IsDeleting, VolumeNext
    <2>2. /\ r \in Creates => v \in {"Completed", "Canceled"}
          /\ r \in Creates /\ d.phase = "CreatingVolumeSnapshots" => v = "Completed"
          /\ r \in Deletes => v = "Deleted"
      BY <1>1, <1>3, <1>7 DEF IsDeleting, VolumeNext, DataOf, CreateData
    <2> HIDE DEF v
    <2>3. /\ e \in Data /\ e.vphase = v /\ e.phase = d.phase /\ e.volumes = d.volumes
          /\ e.requests = d.requests /\ e.snapshots = d.snapshots
      BY <1>2, <2>1 DEF Data, VolumePhases
    <2>4. q = Working(r, FollowVolumes(e), {})
      <3>1. q = Working(r, FollowVolumes([d EXCEPT !.vphase = v]), {})
        BY Zenon, <1>7 DEF VolumeRuns, d, v, IsDeleting
      <3> QED BY <3>1
    <2> HIDE DEF e
    <2>5. DataOf(r, e)
      BY <1>1, <1>3, <1>7, <2>2, <2>3
         DEF DataOf, VolumesOnly, CreateData, DeleteData, Snapped, SnapshotsIn, CreatePhases
    <2>6. SnapshotsIn(e, {"Deleted", "Failed"})
      BY <1>7, <2>3 DEF SnapshotsIn
    <2>7. /\ DataOf(r, FollowVolumes(e)) /\ SameButPhase(e, FollowVolumes(e))
          /\ FollowVolumes(e).phase \in {e.phase, "CreatingEtcdBackup", "Canceled", "Failed", "DeletingEtcdBackup"}
          /\ Advances(e.phase, FollowVolumes(e).phase)
      <3>1. e.phase = "Canceling" => e.vphase \in {"Canceling", "Canceled"}
        BY <1>1, <1>7, <2>3 DEF v, VolumeNext
      <3> QED BY <1>3, <2>2, <2>3, <2>5, <2>6, <3>1, FollowedOf
    <2>8. q \in Runs /\ RunOK(q)
      BY <1>1, <1>3, <2>3, <2>4, <2>7, WorkingOf
    <2> QED BY <1>1, <2>3, <2>4, <2>7, <2>8, WorkingFields DEF SameButPhase
  <1>8. CASE d.volumes /\ d.vphase # "NotStarted" /\ ~IsDeleting(d.vphase) /\ d.vphase # "InProgress"
    <2>1. q = Working(r, FollowVolumes(d), {})
      BY <1>8 DEF VolumeRuns, d
    <2>2. r \in Creates
      BY <1>1, <1>3, <1>8 DEF Requests, IsDeleting
    <2>3. /\ DataOf(r, FollowVolumes(d)) /\ SameButPhase(d, FollowVolumes(d))
          /\ FollowVolumes(d).phase \in {d.phase, "CreatingEtcdBackup", "Canceled", "Failed", "DeletingEtcdBackup"}
          /\ Advances(d.phase, FollowVolumes(d).phase)
      <3>1. d.phase # "Canceling"
        BY <1>1, <1>8 DEF IsDeleting
      <3> QED BY <1>1, <1>3, <2>2, <3>1, FollowedOf, RequestsAreDistinct
    <2>4. q \in Runs /\ RunOK(q)
      BY <1>1, <1>3, <2>1, <2>2, <2>3, WorkingOf
    <2> QED BY <1>1, <2>1, <2>3, <2>4, WorkingFields DEF SameButPhase
  <1> QED BY <1>2, <1>4, <1>5, <1>6, <1>7, <1>8 DEF Data

-----------------------------------------------------------------------------
(* What the handlers do to the resources of one PVC.                         *)

\* updateAndDeleteVolumeSnapshotResource corrects the deletion policy or, once it is right,
\* deletes the resources.
LEMMA UpdateOutcome ==
    ASSUME NEW x, NEW name, NEW policy, NEW o \in UpdateAndDelete(x, name, policy)
    PROVE  /\ o.result \in {"inProgress", "error"}
           /\ \/ o.res = x
              \/ /\ Content(x, name) # None /\ ~Content(x, name).deleting
                 /\ Content(x, name).policy # policy
                 /\ o.res = [x EXCEPT ![name].policy = policy]
              \/ /\ Content(x, name) = None \/ Content(x, name).deleting \/ Content(x, name).policy = policy
                 /\ \/ o.res = DeletedSnapshot(x)
                    \/ o.res = DeletedContent(DeletedSnapshot(x), name, x.vs)
  BY DEF UpdateAndDelete, Faults, Outcome

\* cleanupVolumeSnapshotResource is complete only without a VolumeSnapshot.
LEMMA CleanupOutcome ==
    ASSUME NEW x, NEW o \in CleanupVolumeSnapshot(x)
    PROVE  \/ o.res = x /\ o.result = "error"
           \/ o.res = x /\ o.result = "complete" /\ x.vs = None
           \/ x.vs # None /\ o \in UpdateAndDelete(x, ContentOf(x), "Retain")
  BY DEF CleanupVolumeSnapshot, Faults, Outcome

\* deleteVolumeSnapshot recreates what it needs, deletes, or finds nothing left.
LEMMA DeleteOutcome ==
    ASSUME NEW x, NEW h, NEW recreate \in BOOLEAN, NEW o \in DeleteVolumeSnapshot(x, h, recreate)
    PROVE  LET name == IF recreate THEN "named" ELSE ContentOf(x)
           IN \/ o.res = x /\ o.result = "error"
              \/ recreate /\ (x.named = None \/ x.vs = None) /\ o \in Recreate(x, h)
              \/ ~recreate /\ o.res = x /\ o.result = "complete" /\ x.vs = None /\ Content(x, name) = None
              \/ /\ recreate => x.named # None /\ x.vs # None
                 /\ o \in UpdateAndDelete(x, name, "Delete")
  BY DEF DeleteVolumeSnapshot, Faults, Outcome

\* Recreating the resources of a snapshot only adds what is missing.
LEMMA RecreateOutcome ==
    ASSUME NEW x \in Resources, NEW h \in Handles \cup {None}, NEW o \in Recreate(x, h)
    PROVE  /\ o.res \in Resources /\ o.result \in {"inProgress", "error"}
           /\ o.res.dynamic = x.dynamic
           /\ x.vs # None => o.res.vs = x.vs
           /\ o.res.vs \in {x.vs, ContentSnapshot}
           /\ x.named # None => o.res.named = x.named
           /\ o.res.named \in {x.named, NamedContent(h, "Delete")}
           /\ o.result = "inProgress" => o.res.vs # None /\ o.res.named # None
  <1>1. ContentSnapshot \in VolumeSnapshots /\ NamedContent(h, "Delete") \in Contents
    BY DEF ContentSnapshot, NamedContent, VolumeSnapshots, Contents, Policies, States
  <1>2. ContentSnapshot # None /\ NamedContent(h, "Delete") # None
    BY <1>1, NoneIsNoResource
  <1> QED BY <1>1, <1>2 DEF Recreate, Faults, Outcome, Resources

\* Deleting the resources marks them and changes nothing else.
LEMMA DeletedFields ==
    ASSUME NEW x \in Resources, NEW name \in {None, "dynamic", "named"},
           NEW y, y = DeletedSnapshot(x) \/ y = DeletedContent(DeletedSnapshot(x), name, x.vs)
    PROVE  /\ y \in Resources
           /\ x.vs = None <=> y.vs = None
           /\ x.vs # None => y.vs = [x.vs EXCEPT !.deleting = TRUE]
           /\ \/ y.dynamic = x.dynamic
              \/ /\ name = "dynamic" /\ x.dynamic # None /\ (x.dynamic.policy = "Retain" \/ x.vs = None)
                 /\ y.dynamic = [x.dynamic EXCEPT !.deleting = TRUE]
           /\ \/ y.named = x.named
              \/ /\ name = "named" /\ x.named # None /\ (x.named.policy = "Retain" \/ x.vs = None)
                 /\ y.named = [x.named EXCEPT !.deleting = TRUE]
  <1> DEFINE h == DeletedSnapshot(x)
  <1>1. /\ h \in Resources /\ h.dynamic = x.dynamic /\ h.named = x.named
        /\ x.vs = None <=> h.vs = None
        /\ x.vs # None => h.vs = [x.vs EXCEPT !.deleting = TRUE]
    BY Zenon, NoneIsNoResource DEF DeletedSnapshot, Resources, VolumeSnapshots
  <1>2. CASE y = h
    BY <1>1, <1>2
  <1> HIDE DEF h
  <1>3. ASSUME y # h, name = "dynamic" PROVE y = [h EXCEPT !.dynamic.deleting = TRUE] /\ x.dynamic # None /\ (x.dynamic.policy = "Retain" \/ x.vs = None)
    BY <1>1, <1>3, NoneIsNoName DEF DeletedContent, Content, h, Resources
  <1>4. ASSUME y # h, name = "named" PROVE y = [h EXCEPT !.named.deleting = TRUE] /\ x.named # None /\ (x.named.policy = "Retain" \/ x.vs = None)
    BY <1>1, <1>4, NoneIsNoName DEF DeletedContent, Content, h, Resources
  <1>5. ASSUME y # h PROVE name # None
    BY <1>5 DEF DeletedContent, Content, h
  <1>6. CASE y # h /\ name = "dynamic"
    <2>1. h.dynamic \in Contents /\ h.vs \in VolumeSnapshots \cup {None} /\ h.named \in Contents \cup {None}
      BY <1>1, <1>3, <1>6 DEF Resources
    <2>2. y = [h EXCEPT !.dynamic = [h.dynamic EXCEPT !.deleting = TRUE]]
      BY <1>3, <1>6
    <2>3. [h.dynamic EXCEPT !.deleting = TRUE] \in Contents
      BY Zenon, <2>1 DEF Contents
    <2>4. y \in Resources /\ y.vs = h.vs /\ y.named = h.named /\ y.dynamic = [h.dynamic EXCEPT !.deleting = TRUE]
      BY Zenon, <1>1, <2>2, <2>3 DEF Resources
    <2> QED BY <1>1, <1>3, <1>6, <2>4
  <1>7. CASE y # h /\ name = "named"
    <2>1. h.named \in Contents /\ h.vs \in VolumeSnapshots \cup {None} /\ h.dynamic \in Contents \cup {None}
      BY <1>1, <1>4, <1>7 DEF Resources
    <2>2. y = [h EXCEPT !.named = [h.named EXCEPT !.deleting = TRUE]]
      BY <1>4, <1>7
    <2>3. [h.named EXCEPT !.deleting = TRUE] \in Contents
      BY Zenon, <2>1 DEF Contents
    <2>4. y \in Resources /\ y.vs = h.vs /\ y.dynamic = h.dynamic /\ y.named = [h.named EXCEPT !.deleting = TRUE]
      BY Zenon, <1>1, <2>2, <2>3 DEF Resources
    <2> QED BY <1>1, <1>4, <1>7, <2>4
  <1> QED BY <1>2, <1>5, <1>6, <1>7

\* What updateAndDelete may do to a content, and when it deletes the VolumeSnapshot.
Deletable(c, policy) == c = None \/ c.deleting \/ c.policy = policy
Handled(c, c2, vs, policy) ==
    /\ c # None
    /\ \/ ~c.deleting /\ c2 = [c EXCEPT !.policy = policy]
       \/ /\ c.policy = "Retain" \/ vs = None
          /\ Deletable(c, policy)
          /\ c2 = [c EXCEPT !.deleting = TRUE]

\* What updateAndDeleteVolumeSnapshotResource leaves of a content keeps its snapshot.
LEMMA HandledType ==
    ASSUME NEW c \in Contents \cup {None}, NEW c2, NEW vs, NEW policy \in Policies, Handled(c, c2, vs, policy)
    PROVE  /\ c \in Contents /\ c2 \in Contents /\ c2 # None
           /\ c2.state = c.state /\ c2.handle = c.handle
           /\ c2.policy \in {c.policy, policy} /\ c2.deleting \in {c.deleting, TRUE}
           /\ c2.deleting => c.deleting \/ (c2.policy = c.policy /\ (c.policy = "Retain" \/ vs = None))
  BY Zenon, NoneIsNoResource DEF Handled, Contents

\* updateAndDeleteVolumeSnapshotResource, resource by resource.
LEMMA UpdateFields ==
    ASSUME NEW x \in Resources, NEW name \in {None, "dynamic", "named"}, NEW policy \in Policies,
           NEW o \in UpdateAndDelete(x, name, policy)
    PROVE  LET y == o.res
           IN /\ y \in Resources /\ o.result \in {"inProgress", "error"}
              /\ \/ y.vs = x.vs
                 \/ /\ x.vs # None /\ y.vs # None /\ y.vs = [x.vs EXCEPT !.deleting = TRUE]
                    /\ Deletable(Content(x, name), policy)
              /\ y.dynamic = x.dynamic \/ (name = "dynamic" /\ Handled(x.dynamic, y.dynamic, x.vs, policy))
              /\ y.named = x.named \/ (name = "named" /\ Handled(x.named, y.named, x.vs, policy))
  <1> DEFINE y == o.res
  <1>1. CASE y = x
    BY Zenon, <1>1, UpdateOutcome
  <1>2. CASE /\ Content(x, name) # None /\ ~Content(x, name).deleting
             /\ y = [x EXCEPT ![name].policy = policy]
    <2>1. CASE name = "dynamic"
      <3>1. x.dynamic \in Contents /\ ~x.dynamic.deleting /\ y = [x EXCEPT !.dynamic = [x.dynamic EXCEPT !.policy = policy]]
        BY Zenon, <1>2, <2>1, NoneIsNoName DEF Content, Resources
      <3>2. [x.dynamic EXCEPT !.policy = policy] \in Contents
        BY <3>1 DEF Contents
      <3> HIDE DEF y
      <3>3. y \in Resources /\ y.vs = x.vs /\ y.named = x.named /\ y.dynamic = [x.dynamic EXCEPT !.policy = policy]
        BY <3>1, <3>2 DEF Resources
      <3>4. Handled(x.dynamic, y.dynamic, x.vs, policy)
        BY <3>1, <3>3, NoneIsNoResource DEF Handled
      <3> QED BY Zenon, <2>1, <3>3, <3>4, UpdateOutcome DEF y
    <2>2. CASE name = "named"
      <3>1. x.named \in Contents /\ ~x.named.deleting /\ y = [x EXCEPT !.named = [x.named EXCEPT !.policy = policy]]
        BY Zenon, <1>2, <2>2, NoneIsNoName DEF Content, Resources
      <3>2. [x.named EXCEPT !.policy = policy] \in Contents
        BY <3>1 DEF Contents
      <3> HIDE DEF y
      <3>3. y \in Resources /\ y.vs = x.vs /\ y.dynamic = x.dynamic /\ y.named = [x.named EXCEPT !.policy = policy]
        BY <3>1, <3>2 DEF Resources
      <3>4. Handled(x.named, y.named, x.vs, policy)
        BY <3>1, <3>3, NoneIsNoResource DEF Handled
      <3> QED BY Zenon, <2>2, <3>3, <3>4, UpdateOutcome DEF y
    <2> QED BY <1>2, <2>1, <2>2 DEF Content
  <1>3. CASE /\ Deletable(Content(x, name), policy)
             /\ y = DeletedSnapshot(x) \/ y = DeletedContent(DeletedSnapshot(x), name, x.vs)
    <2>1. /\ name = "dynamic" => Content(x, name) = x.dynamic
          /\ name = "named" => Content(x, name) = x.named
      BY NoneIsNoName DEF Content
    <2> HIDE DEF y
    <2>2. /\ y \in Resources
          /\ x.vs = None <=> y.vs = None
          /\ x.vs # None => y.vs = [x.vs EXCEPT !.deleting = TRUE]
          /\ \/ y.dynamic = x.dynamic
             \/ /\ name = "dynamic" /\ x.dynamic # None /\ (x.dynamic.policy = "Retain" \/ x.vs = None)
                /\ y.dynamic = [x.dynamic EXCEPT !.deleting = TRUE]
          /\ \/ y.named = x.named
             \/ /\ name = "named" /\ x.named # None /\ (x.named.policy = "Retain" \/ x.vs = None)
                /\ y.named = [x.named EXCEPT !.deleting = TRUE]
      BY <1>3, DeletedFields
    <2>3. y.dynamic = x.dynamic \/ (name = "dynamic" /\ Handled(x.dynamic, y.dynamic, x.vs, policy))
      BY <1>3, <2>1, <2>2 DEF Handled
    <2>4. y.named = x.named \/ (name = "named" /\ Handled(x.named, y.named, x.vs, policy))
      BY <1>3, <2>1, <2>2 DEF Handled
    <2>5. o.result \in {"inProgress", "error"}
      BY Zenon, UpdateOutcome
    <2> QED BY <1>3, <2>2, <2>3, <2>4, <2>5 DEF y
  <1>4. \/ y = x
        \/ /\ Content(x, name) # None /\ ~Content(x, name).deleting
           /\ y = [x EXCEPT ![name].policy = policy]
        \/ /\ Deletable(Content(x, name), policy)
           /\ y = DeletedSnapshot(x) \/ y = DeletedContent(DeletedSnapshot(x), name, x.vs)
    BY UpdateOutcome, ZenonT(60) DEF Deletable
  <1> QED BY <1>1, <1>2, <1>3, <1>4

\* The content that a VolumeSnapshot names.
LEMMA ContentOfName ==
    ASSUME NEW x \in Resources
    PROVE  /\ ContentOf(x) \in {None, "dynamic", "named"}
           /\ x.vs = None => ContentOf(x) = None
           /\ x.vs # None /\ x.vs.source = "content" => ContentOf(x) = "named"
           /\ x.vs # None /\ x.vs.source = "claim" =>
                ContentOf(x) = IF x.vs.bound THEN "dynamic" ELSE None
  BY DEF ContentOf

\* A status in another phase keeps its handle.
LEMMA InPhaseType ==
    ASSUME NEW s \in SnapshotStatus, NEW f \in VolumePhases
    PROVE  InPhase(s, f) \in SnapshotStatus /\ InPhase(s, f).phase = f /\ InPhase(s, f).handle = s.handle
  BY DEF InPhase, SnapshotStatus

\* The two ways InProgressPVC can go on, and what it creates.
LEMMA InProgressEffect ==
    ASSUME NEW x \in Resources, NEW s \in SnapshotStatus, NEW e \in InProgressPVC(x, s)
    PROVE  /\ e.res \in Resources /\ e.status \in SnapshotStatus
           /\ e.res = x \/ (x.vs = None /\ e.res = [x EXCEPT !.vs = ClaimSnapshot])
           /\ \/ e.status = s
              \/ e.status.phase = "FailedCleaningUp"
              \/ /\ x.dynamic # None /\ x.dynamic.state = "ready" /\ x.vs # None /\ e.res = x
                 /\ e.status = [phase |-> "CompletedCleaningUp", handle |-> x.dynamic.handle]
  <1> DEFINE failed(r) == Effect(r, InPhase(s, "FailedCleaningUp"), FALSE)
             created == [x EXCEPT !.vs = ClaimSnapshot]
             done == [phase |-> "CompletedCleaningUp", handle |-> x.dynamic.handle]
  <1>1. created \in Resources
    BY Zenon DEF Resources, ClaimSnapshot, VolumeSnapshots, States
  <1>2. Content(x, "dynamic") = x.dynamic
    BY NoneIsNoName DEF Content
  <1>3. \/ e = failed(x) \/ e = Effect(x, s, FALSE)
        \/ x.vs = None /\ e \in {Effect(created, s, FALSE), failed(created)}
        \/ /\ x.dynamic # None /\ x.dynamic.state = "ready" /\ x.vs # None
           /\ e = Effect(x, done, FALSE)
    <2> DEFINE outcomes ==
            CASE x.vs = None -> {Effect(created, s, FALSE)} \cup Faults({failed(created)})
              [] x.vs # None /\ x.vs.state = "unset" -> {Effect(x, s, FALSE)}
              [] x.vs # None /\ x.vs.state = "error" -> {failed(x)}
              [] x.vs # None /\ x.vs.state = "ready" /\ x.dynamic = None -> {failed(x)}
              [] x.vs # None /\ x.vs.state = "ready" /\ x.dynamic # None ->
                    CASE x.dynamic.state = "unset" -> {Effect(x, s, FALSE)}
                      [] x.dynamic.state = "error" -> {failed(x)}
                      [] x.dynamic.state = "ready" -> {Effect(x, done, FALSE)}
    <2>1. e \in Faults({failed(x)}) \cup outcomes
      BY Zenon, <1>2 DEF InProgressPVC
    <2>2. x.vs # None => x.vs.state \in {"unset", "ready", "error"}
      BY DEF Resources, VolumeSnapshots, States
    <2>3. x.dynamic # None => x.dynamic.state \in {"unset", "ready", "error"}
      BY DEF Resources, Contents, States
    <2> HIDE DEF failed, created, done
    <2> QED BY Zenon, <2>1, <2>2, <2>3 DEF Faults
  <1>4. x.dynamic # None => done \in SnapshotStatus
    BY DEF Resources, Contents, SnapshotStatus, VolumePhases
  <1>5. /\ InPhase(s, "FailedCleaningUp") \in SnapshotStatus
        /\ InPhase(s, "FailedCleaningUp").phase = "FailedCleaningUp"
    BY InPhaseType DEF VolumePhases
  <1> HIDE DEF created, done
  <1> QED BY <1>1, <1>3, <1>4, <1>5 DEF Effect, created, done

\* The clean-up of a PVC ends as Completed only when no VolumeSnapshot is left.
LEMMA CleanupEffect ==
    ASSUME NEW x \in Resources, NEW s \in SnapshotStatus, CleaningUp(s.phase), NEW e \in CleanupPVC(x, s)
    PROVE  /\ e.res \in Resources /\ e.status \in SnapshotStatus
           /\ e.status.handle = s.handle
           /\ e.res = x \/ \E o \in UpdateAndDelete(x, ContentOf(x), "Retain") : e.res = o.res /\ x.vs # None
           /\ \/ e.status = s
              \/ e.status.phase \in {"FailedCleaningUp", "Failed"}
              \/ s.phase = "CompletedCleaningUp" /\ e.status.phase = "Completed" /\ x.vs = None /\ e.res = x
  <1>1. PICK o \in CleanupVolumeSnapshot(x) :
           e = Effect(o.res, CASE o.result = "error" -> InPhase(s, VolumeFailed(s.phase))
                               [] o.result = "complete" -> InPhase(s, VolumeNext(s.phase))
                               [] o.result = "inProgress" -> s, FALSE)
    BY Zenon DEF CleanupPVC
  <1>2. /\ VolumeFailed(s.phase) \in {"FailedCleaningUp", "Failed"}
        /\ s.phase = "CompletedCleaningUp" => VolumeNext(s.phase) = "Completed"
        /\ s.phase = "FailedCleaningUp" => VolumeNext(s.phase) = "Failed"
        /\ s.phase \in {"CompletedCleaningUp", "FailedCleaningUp"}
    BY DEF VolumeFailed, VolumeNext, CleaningUp
  <1>3. /\ InPhase(s, VolumeFailed(s.phase)) \in SnapshotStatus
        /\ InPhase(s, VolumeFailed(s.phase)).phase = VolumeFailed(s.phase)
        /\ InPhase(s, VolumeFailed(s.phase)).handle = s.handle
        /\ InPhase(s, VolumeNext(s.phase)) \in SnapshotStatus
        /\ InPhase(s, VolumeNext(s.phase)).phase = VolumeNext(s.phase)
        /\ InPhase(s, VolumeNext(s.phase)).handle = s.handle
    BY <1>2, InPhaseType DEF VolumePhases
  <1>4. CASE o.res = x /\ o.result = "error"
    <2>1. e = Effect(x, InPhase(s, VolumeFailed(s.phase)), FALSE)
      BY <1>1, <1>4
    <2> QED BY <1>2, <1>3, <2>1 DEF Effect
  <1>5. CASE o.res = x /\ o.result = "complete" /\ x.vs = None
    <2>1. e = Effect(x, InPhase(s, VolumeNext(s.phase)), FALSE)
      BY <1>1, <1>5
    <2> QED BY <1>2, <1>3, <1>5, <2>1 DEF Effect
  <1>6. CASE x.vs # None /\ o \in UpdateAndDelete(x, ContentOf(x), "Retain")
    <2>1. o.res \in Resources /\ o.result \in {"inProgress", "error"}
      BY Zenon, <1>6, ContentOfName, UpdateFields DEF Policies
    <2>2. \/ e = Effect(o.res, InPhase(s, VolumeFailed(s.phase)), FALSE)
          \/ e = Effect(o.res, s, FALSE)
      BY Zenon, <1>1, <2>1
    <2> QED BY <1>2, <1>3, <1>6, <2>1, <2>2 DEF Effect
  <1> QED BY <1>4, <1>5, <1>6, CleanupOutcome

\* The status that reconcileInProgress goes by.
Was(s) == IF s = None \/ s.phase = "NotStarted" THEN InProgressStatus ELSE s

\* One PVC of a creation waits for the snapshot, cleans up, or is done.
LEMMA CreateEffect ==
    ASSUME NEW x \in Resources, NEW s \in SnapshotStatus \cup {None}, NEW e \in CreateStep(x, s)
    PROVE  /\ e.res \in Resources /\ e.status \in SnapshotStatus
           /\ Was(s) \in SnapshotStatus
           /\ \/ Was(s).phase = "InProgress" /\ e \in InProgressPVC(x, Was(s))
              \/ s = Was(s) /\ CleaningUp(s.phase) /\ e \in CleanupPVC(x, s)
              \/ s = Was(s) /\ e.res = x /\ e.status = s
  <1>1. Was(s) \in SnapshotStatus /\ InProgressStatus.phase = "InProgress"
    BY DEF Was, InProgressStatus, SnapshotStatus, VolumePhases
  <1>2. \/ Was(s).phase = "InProgress" /\ e \in InProgressPVC(x, Was(s))
        \/ Was(s).phase # "InProgress" /\ CleaningUp(Was(s).phase) /\ e \in CleanupPVC(x, Was(s))
        \/ Was(s).phase # "InProgress" /\ e \in {Effect(x, Was(s), FALSE), Effect(x, Was(s), TRUE)}
    BY Zenon DEF CreateStep, Was, CleaningUp
  <1>3. Was(s).phase # "InProgress" => Was(s) = s
    BY <1>1 DEF Was
  <1>4. CASE Was(s).phase = "InProgress" /\ e \in InProgressPVC(x, Was(s))
    BY Zenon, <1>1, <1>4, InProgressEffect
  <1>5. CASE Was(s).phase # "InProgress" /\ CleaningUp(Was(s).phase) /\ e \in CleanupPVC(x, Was(s))
    BY <1>1, <1>3, <1>5, CleanupEffect
  <1>6. CASE Was(s).phase # "InProgress" /\ e \in {Effect(x, Was(s), FALSE), Effect(x, Was(s), TRUE)}
    BY <1>1, <1>3, <1>6 DEF Effect
  <1> QED BY Zenon, <1>2, <1>4, <1>5, <1>6

\* One PVC of a cancellation or a deletion: nothing to do, or what deleteVolumeSnapshot returns.
LEMMA DeleteEffect ==
    ASSUME NEW x \in Resources, NEW s \in SnapshotStatus \cup {None}, NEW f \in {"Canceling", "Deleting"},
           NEW e \in DeleteStep(x, s, f)
    PROVE  LET recreate == f = "Deleting" /\ ~IsDeleting(s.phase)
           IN /\ e.res \in Resources /\ e.error \in BOOLEAN
              /\ \/ /\ s = None \/ ~(IsMaybeCreated(s.phase) \/ IsDeleting(s.phase))
                    /\ e.res = x /\ e.status = s /\ ~e.error
                 \/ /\ s \in SnapshotStatus /\ e.status \in SnapshotStatus /\ e.status.handle = s.handle
                    /\ \E o \in DeleteVolumeSnapshot(x, s.handle, recreate) :
                         /\ e.res = o.res
                         /\ o.result = "error" => e.status = s
                         /\ o.result = "complete" => e.status.phase = VolumeNext(f)
                         /\ o.result = "inProgress" => e.status.phase = f
                         /\ o.result \in {"error", "complete", "inProgress"}
                         /\ e.error <=> o.result = "error"
  <1> DEFINE recreate == f = "Deleting" /\ ~IsDeleting(s.phase)
  <1>1. CASE s = None \/ ~(IsMaybeCreated(s.phase) \/ IsDeleting(s.phase))
    <2>1. e = Effect(x, s, FALSE)
      BY Zenon, <1>1 DEF DeleteStep
    <2> QED BY <1>1, <2>1 DEF Effect
  <1>2. CASE s # None /\ (IsMaybeCreated(s.phase) \/ IsDeleting(s.phase))
    <2>1. PICK o \in DeleteVolumeSnapshot(x, s.handle, recreate) :
             e = Effect(o.res, CASE o.result = "error" -> s
                                 [] o.result = "complete" -> InPhase(s, VolumeNext(f))
                                 [] o.result = "inProgress" -> InPhase(s, f), o.result = "error")
      BY Zenon, <1>2 DEF DeleteStep
    <2>2. s \in SnapshotStatus /\ s.handle \in Handles \cup {None} /\ recreate \in BOOLEAN
      BY <1>2 DEF SnapshotStatus
    <2>3. o.res \in Resources /\ o.result \in {"error", "complete", "inProgress"}
      <3>1. (IF recreate THEN "named" ELSE ContentOf(x)) \in {None, "dynamic", "named"}
        BY ContentOfName
      <3> HIDE DEF recreate
      <3>2. \/ o.res = x /\ o.result \in {"error", "complete"}
            \/ o \in Recreate(x, s.handle)
            \/ o \in UpdateAndDelete(x, IF recreate THEN "named" ELSE ContentOf(x), "Delete")
        BY <2>2, DeleteOutcome
      <3>3. CASE o \in Recreate(x, s.handle)
        BY <2>2, <3>3, RecreateOutcome
      <3>4. CASE o \in UpdateAndDelete(x, IF recreate THEN "named" ELSE ContentOf(x), "Delete")
        <4> DEFINE name == IF recreate THEN "named" ELSE ContentOf(x)
        <4> HIDE DEF name
        <4>1. o \in UpdateAndDelete(x, name, "Delete") /\ name \in {None, "dynamic", "named"}
          BY <3>1, <3>4 DEF name
        <4> QED BY Zenon, <4>1, UpdateFields DEF Policies
      <3> QED BY <3>2, <3>3, <3>4
    <2>4. VolumeNext(f) \in {"Canceled", "Deleted"}
      BY DEF VolumeNext
    <2>5. /\ InPhase(s, VolumeNext(f)) \in SnapshotStatus /\ InPhase(s, VolumeNext(f)).phase = VolumeNext(f)
          /\ InPhase(s, VolumeNext(f)).handle = s.handle
          /\ InPhase(s, f) \in SnapshotStatus /\ InPhase(s, f).phase = f /\ InPhase(s, f).handle = s.handle
      BY <2>2, <2>4, InPhaseType DEF VolumePhases
    <2>6. /\ e.res = o.res /\ (e.error <=> o.result = "error") /\ e.error \in BOOLEAN
          /\ o.result = "error" => e.status = s
          /\ o.result = "complete" => e.status = InPhase(s, VolumeNext(f))
          /\ o.result = "inProgress" => e.status = InPhase(s, f)
      BY Zenon, <2>1, <2>3 DEF Effect
    <2>7. e.status \in SnapshotStatus /\ e.status.handle = s.handle
      BY <2>2, <2>3, <2>5, <2>6
    <2> HIDE DEF recreate
    <2> QED BY <2>2, <2>3, <2>5, <2>6, <2>7 DEF recreate
  <1> QED BY <1>1, <1>2

\* A deletion only ever makes pre-provisioned contents.
LEMMA PreprovisionedStays ==
    ASSUME NEW x \in Resources, Preprovisioned(x), NEW s \in SnapshotStatus \cup {None},
           NEW e \in DeleteStep(x, s, "Deleting")
    PROVE  Preprovisioned(e.res)
  <1> DEFINE recreate == ~IsDeleting(s.phase)
  <1>1. CASE e.res = x
    BY <1>1
  <1>2. CASE s \in SnapshotStatus /\ \E o \in DeleteVolumeSnapshot(x, s.handle, recreate) : e.res = o.res
    <2>1. PICK o \in DeleteVolumeSnapshot(x, s.handle, recreate) : e.res = o.res
      BY <1>2
    <2>2. recreate \in BOOLEAN /\ s.handle \in Handles \cup {None}
      BY <1>2 DEF SnapshotStatus
    <2> HIDE DEF recreate
    <2> DEFINE name == IF recreate THEN "named" ELSE ContentOf(x)
    <2>3. \/ o.res = x
          \/ o \in Recreate(x, s.handle)
          \/ o \in UpdateAndDelete(x, name, "Delete")
      BY <2>2, DeleteOutcome
    <2>4. name \in {None, "named"}
      BY ContentOfName DEF Preprovisioned
    <2> HIDE DEF name
    <2>5. CASE o.res = x
      BY <2>1, <2>5
    <2>6. CASE o \in Recreate(x, s.handle)
      BY <2>1, <2>2, <2>6, RecreateOutcome DEF Preprovisioned, ContentSnapshot
    <2>7. CASE o \in UpdateAndDelete(x, name, "Delete")
      <3>1. "Delete" \in Policies /\ name # "dynamic" /\ name \in {None, "dynamic", "named"}
        BY <2>4, NoneIsNoName DEF Policies
      <3>2. /\ o.res \in Resources /\ o.res.dynamic = x.dynamic
            /\ o.res.vs = x.vs \/ (x.vs # None /\ o.res.vs = [x.vs EXCEPT !.deleting = TRUE])
        BY <2>7, <3>1, UpdateFields
      <3>3. x.vs # None /\ o.res.vs = [x.vs EXCEPT !.deleting = TRUE] => o.res.vs.source = x.vs.source
        BY DEF Resources, VolumeSnapshots
      <3> QED BY <2>1, <3>2, <3>3 DEF Preprovisioned
    <2> QED BY <2>3, <2>5, <2>6, <2>7
  <1> QED BY <1>1, <1>2, DeleteEffect

-----------------------------------------------------------------------------
(* The loop over the PVCs of a request.                                      *)

\* The PVC that the loop is at is one of those it still has to go through.
LEMMA MinIn ==
    ASSUME NEW S \in SUBSET Nat, S # {}
    PROVE  Min(S) \in S
  <1> DEFINE R == OpToRel(<, Nat)
  <1>1. PICK x \in S : \A y \in S : ~(<<y, x>> \in R)
    BY NatLessThanWellFounded, WFMin, Zenon
  <1>2. \A y \in S : ~(y < x)
    BY ZenonT(30), <1>1 DEF OpToRel
  <1>3. \A y \in S : x =< y
    BY <1>2
  <1>4. \E z \in S : \A y \in S : z =< y
    BY Zenon, <1>3
  <1> QED BY ZenonT(30), <1>4 DEF Min

\* What the loop does with one PVC, the data with its new status, and that both are well formed.
Effects(d, p, x) ==
    IF IsDeleting(d.vphase) THEN DeleteStep(x, d.snapshots[p], d.vphase) ELSE CreateStep(x, d.snapshots[p])
Turned(d, p, s) == [d EXCEPT !.snapshots[p] = s]
TurnOK(r, d, d2, todo, p, e) ==
    /\ e.res \in Resources /\ e.status \in SnapshotStatus \cup {None}
    /\ DataOf(r, d2) /\ (~e.error => LoopOK(r, d2, todo \ {p}))
    /\ d2.phase = d.phase /\ d2.vphase = d.vphase /\ d2.requests = d.requests
    /\ d2.snapshots = [d.snapshots EXCEPT ![p] = e.status]

\* One PVC keeps the data of the request well formed, and the loop has done one more.
LEMMA LoopStep ==
    ASSUME NEW r \in Requests, NEW d, DataOf(r, d), NEW todo \in SUBSET d.requests, LoopOK(r, d, todo),
           NEW p \in todo, NEW x \in Resources, NEW e \in Effects(d, p, x)
    PROVE  TurnOK(r, d, Turned(d, p, e.status), todo, p, e)
  <1> DEFINE s == d.snapshots[p]
             d2 == Turned(d, p, e.status)
  <1>1. /\ d \in Data /\ d.requests \subseteq PVCs /\ p \in PVCs
        /\ d.snapshots \in [PVCs -> SnapshotStatus \cup {None}] /\ s \in SnapshotStatus \cup {None}
    BY DataFields DEF DataOf
  <1>2. d.volumes
    BY DEF DataOf, VolumesOnly
  <1>3. ASSUME e.status \in SnapshotStatus \cup {None}
        PROVE  /\ d2 \in Data /\ d2.phase = d.phase /\ d2.vphase = d.vphase /\ d2.requests = d.requests
               /\ d2.volumes = d.volumes /\ d2.snapshots = [d.snapshots EXCEPT ![p] = e.status]
    BY <1>1, <1>3 DEF Data, Turned
  <1>4. CASE r \in Creates /\ d.phase = "CreatingVolumeSnapshots" /\ d.vphase = "InProgress"
    <2>1. e \in CreateStep(x, s)
      BY <1>4 DEF IsDeleting, Effects
    <2>2. e.res \in Resources /\ e.status \in SnapshotStatus
      BY <1>1, <2>1, CreateEffect
    <2> HIDE DEF d2
    <2>3. DataOf(r, d2)
      BY Zenon, <1>2, <1>3, <1>4, <2>2, RequestsAreDistinct DEF DataOf, VolumesOnly, CreateData
    <2>4. LoopOK(r, d2, todo \ {p})
      BY <1>1, <1>3, <1>4, <2>2, RequestsAreDistinct DEF LoopOK
    <2> QED BY <1>3, <2>2, <2>3, <2>4 DEF d2, TurnOK
  <1>5. CASE r \in Creates /\ d.phase = "Canceling" /\ d.vphase = "Canceling"
    <2>1. e \in DeleteStep(x, s, "Canceling")
      BY <1>5 DEF IsDeleting, Effects
    <2>2. e.res \in Resources /\ e.status \in SnapshotStatus \cup {None}
      BY <1>1, <2>1, DeleteEffect
    <2> HIDE DEF d2
    <2>3. DataOf(r, d2)
      BY Zenon, <1>2, <1>3, <1>5, <2>2, RequestsAreDistinct DEF DataOf, VolumesOnly, CreateData
    <2>4. LoopOK(r, d2, todo \ {p})
      BY <1>3, <1>5, <2>2 DEF LoopOK
    <2> QED BY <1>3, <2>2, <2>3, <2>4 DEF d2, TurnOK
  <1>6. CASE r \in Deletes /\ d.phase = "DeletingVolumeSnapshots" /\ d.vphase = "Deleting"
    <2>1. e \in DeleteStep(x, s, "Deleting")
      BY <1>6 DEF IsDeleting, Effects
    <2>2. s \in SnapshotStatus /\ s.phase \in {"Completed", "Failed", "Deleting", "Deleted"} /\ s # None
      BY <1>6, NoneIsNoStatus DEF DataOf, DeleteData, SnapshotsIn
    <2>3. /\ e.res \in Resources /\ e.status \in SnapshotStatus
          /\ e.status.phase \in {"Completed", "Failed", "Deleting", "Deleted"}
          /\ ~e.error => e.status.phase \in {"Failed", "Deleting", "Deleted"}
      BY <1>1, <2>1, <2>2, DeleteEffect DEF VolumeNext, IsMaybeCreated, IsDeleting
    <2> HIDE DEF d2
    <2>4. DataOf(r, d2)
      BY Zenon, <1>1, <1>2, <1>3, <1>6, <2>3, RequestsAreDistinct DEF DataOf, VolumesOnly, DeleteData, SnapshotsIn
    <2>5. ~e.error => LoopOK(r, d2, todo \ {p})
      <3>1. ASSUME ~e.error, LoopOK(r, d, todo)
            PROVE  \A q \in d.requests \ (todo \ {p}) : d2.snapshots[q].phase \in {"Deleting", "Deleted", "Failed"}
        BY <1>1, <1>3, <1>6, <2>3, <3>1, RequestsAreDistinct DEF LoopOK
      <3> QED BY <1>3, <1>6, <2>3, <3>1 DEF LoopOK
    <2> QED BY <1>3, <2>3, <2>4, <2>5 DEF d2, TurnOK
  <1> QED BY <1>4, <1>5, <1>6 DEF LoopOK

\* What the volume snapshotter returns after its loop is well formed and takes the request on.
LEMMA ConcludedOf ==
    ASSUME NEW r \in Requests, NEW d, DataOf(r, d), d.requests # {}, LoopOK(r, d, {})
    PROVE  /\ DataOf(r, Concluded(d))
           /\ Concluded(d).snapshots = d.snapshots /\ Concluded(d).requests = d.requests
           /\ Concluded(d).phase \in {d.phase, "CreatingEtcdBackup", "Canceled", "Failed", "DeletingEtcdBackup"}
           /\ Advances(d.phase, Concluded(d).phase)
  <1> DEFINE v == IF IsDeleting(d.vphase) THEN DeletedPhase(d.requests, d.snapshots, d.vphase)
                  ELSE CreatedPhase(d.requests, d.snapshots)
             e == [d EXCEPT !.vphase = v]
  <1>0. d \in Data /\ d.requests \subseteq PVCs
    BY DataFields DEF DataOf
  <1>1. Concluded(d) = FollowVolumes(e)
    BY DEF Concluded
  <1>2. ASSUME v \in VolumePhases
        PROVE  /\ e \in Data /\ e.vphase = v /\ e.phase = d.phase /\ e.volumes = d.volumes
               /\ e.requests = d.requests /\ e.snapshots = d.snapshots
    BY <1>0, <1>2 DEF Data
  <1>3. CASE r \in Creates /\ d.phase = "CreatingVolumeSnapshots" /\ d.vphase = "InProgress"
    <2>1. \A p \in d.requests : d.snapshots[p] \in SnapshotStatus
      BY <1>3, RequestsAreDistinct DEF LoopOK
    <2>2. /\ v \in {"InProgress", "PartiallyFailed", "Completed", "Failed"}
          /\ v \in {"PartiallyFailed", "Completed"} => \A p \in d.requests : d.snapshots[p].phase \in {"Completed", "Failed"}
      BY Zenon, <1>3 DEF IsDeleting, CreatedPhase
    <2> HIDE DEF v
    <2>3. v \in VolumePhases
      BY <2>2 DEF VolumePhases
    <2> HIDE DEF e
    <2>4. DataOf(r, e)
      BY <1>2, <1>3, <2>1, <2>2, <2>3, RequestsAreDistinct
         DEF DataOf, VolumesOnly, CreateData, Snapped, SnapshotsIn
    <2> QED BY <1>1, <1>2, <1>3, <2>3, <2>4, FollowedOf, RequestsAreDistinct DEF SameButPhase
  <1>4. CASE r \in Creates /\ d.phase = "Canceling" /\ d.vphase = "Canceling"
    <2>2. v \in {"Canceling", "Canceled"}
      BY <1>4 DEF IsDeleting, DeletedPhase, VolumeNext
    <2> HIDE DEF v
    <2>3. v \in VolumePhases
      BY <2>2 DEF VolumePhases
    <2> HIDE DEF e
    <2>4. DataOf(r, e)
      BY <1>2, <1>4, <2>2, <2>3, RequestsAreDistinct DEF DataOf, VolumesOnly, CreateData
    <2> QED BY <1>1, <1>2, <1>4, <2>2, <2>3, <2>4, FollowedOf, RequestsAreDistinct DEF SameButPhase
  <1>5. CASE r \in Deletes /\ d.phase = "DeletingVolumeSnapshots" /\ d.vphase = "Deleting"
    <2>1. \A p \in d.requests : d.snapshots[p] \in SnapshotStatus /\ d.snapshots[p].phase \in {"Deleting", "Deleted", "Failed"}
      BY <1>5, RequestsAreDistinct DEF LoopOK, DataOf, DeleteData, SnapshotsIn
    <2>2. v = "Deleting" \/ (v = "Deleted" /\ \A p \in d.requests : d.snapshots[p].phase # "Deleting")
      BY <1>5, <2>1, NoneIsNoStatus DEF IsDeleting, DeletedPhase, VolumeNext
    <2> HIDE DEF v
    <2>3. v \in VolumePhases
      BY <2>2 DEF VolumePhases
    <2> HIDE DEF e
    <2>4. DataOf(r, e) /\ (v = "Deleted" => SnapshotsIn(e, {"Deleted", "Failed"}))
      BY <1>2, <1>5, <2>1, <2>2, <2>3, RequestsAreDistinct DEF DataOf, VolumesOnly, DeleteData, SnapshotsIn
    <2> QED BY <1>1, <1>2, <1>5, <2>2, <2>3, <2>4, FollowedOf, RequestsAreDistinct DEF SameButPhase
  <1> QED BY <1>3, <1>4, <1>5 DEF LoopOK

-----------------------------------------------------------------------------
(* What is recorded is well formed.                                          *)

\* Before any request there is nothing recorded.
LEMMA InitRecorded == Init => Recorded
  <1> SUFFICES ASSUME Init PROVE Recorded
    OBVIOUS
  <1>1. TypeOK
    <2>1. NoResources \in Resources
      BY DEF NoResources, Resources
    <2> QED BY <2>1 DEF Init, TypeOK, Idle
  <1>2. \A r \in Requests : drafts[r] = None /\ ~Exists(r) /\ ~Cached(r)
    BY DEF Init, Exists, Cached
  <1>3. \A r \in Deletes, p \in PVCs : Preprovisioned(res[r][p])
    BY DEF Init, Requests, Preprovisioned, NoResources
  <1> QED BY <1>1, <1>2, <1>3 DEF Init, Recorded, DraftOK

\* Steps that write ConfigMaps only.
LEMMA Rewritten ==
    ASSUME Recorded, NEW c \in [Requests -> ConfigMaps \cup {None, Gone}], cms' = c,
           \A o \in Requests : c[o] \notin {None, Gone} => DataOf(o, c[o].data),
           drafts' \in [Requests -> Data \cup {None}],
           \A o \in Requests : drafts'[o] # None => drafts'[o] = drafts[o] /\ c[o] = None,
           cache' \in [Requests -> ConfigMaps \cup {None, Gone}],
           \A o \in Requests : cache'[o] \in {cache[o], c[o]},
           secrets' \subseteq Requests,
           UNCHANGED <<env, backups, run, res, storage, uploads, asked, uploaded>>
    PROVE  Recorded'
  <1>2. TypeOK'
    BY DEF Recorded, TypeOK
  <1>3. \A r \in Requests : DraftOK(r)'
    BY ZenonT(30) DEF Recorded, DraftOK, DataOf, VolumesOnly
  <1>4. \A r \in Requests : (Exists(r) => DataOf(r, cms[r].data))'
    BY DEF Exists, DataOf, VolumesOnly
  <1>5. \A r \in Requests : (Cached(r) => DataOf(r, cache[r].data))'
    BY DEF Recorded, Cached, DataOf, VolumesOnly
  <1>6. /\ \A u \in URLs : (backups[u] # None => BackupOK(backups[u]))'
        /\ \A b \in uploads : BackupOK(b)'
    BY DEF Recorded, BackupOK, VolumesOnly
  <1>7. (run # Idle => RunOK(run))'
    BY Zenon DEF Recorded, RunOK, DataOf, VolumesOnly, Idle
  <1> QED BY <1>2, <1>3, <1>4, <1>5, <1>6, <1>7 DEF Recorded

\* A write that the cache sees at once or not at all.
LEMMA Written ==
    ASSUME Recorded, NEW c \in [Requests -> ConfigMaps \cup {None, Gone}], cms' = c,
           \A o \in Requests : c[o] \notin {None, Gone} => DataOf(o, c[o].data),
           \A o \in Requests : cms[o] = None => c[o] = None,
           Caches, secrets' \subseteq Requests,
           UNCHANGED <<env, drafts, backups, run, res, storage, uploads, asked, uploaded>>
    PROVE  Recorded'
  <1>1. cache' = cache \/ cache' = c
    BY DEF Caches
  <1>2. /\ drafts' \in [Requests -> Data \cup {None}]
        /\ cache' \in [Requests -> ConfigMaps \cup {None, Gone}]
    BY <1>1 DEF Recorded, TypeOK
  <1>3. \A o \in Requests : drafts'[o] # None => drafts'[o] = drafts[o] /\ c[o] = None
    BY DEF Recorded, DraftOK
  <1> QED BY <1>1, <1>2, <1>3, Rewritten

\* Steps that write no ConfigMap.
LEMMA Carried ==
    ASSUME Recorded, UNCHANGED <<env, drafts, cms, cache>>,
           uploaded \subseteq uploaded', uploaded' \subseteq Creates, secrets' \subseteq Requests,
           run' \in Runs \cup {Idle},
           run' # Idle => /\ DataOf(run'.req, run'.data)
                          /\ run'.todo \subseteq run'.data.requests
                          /\ run'.todo # {} => LoopOK(run'.req, run'.data, run'.todo)
                          /\ run'.req \in Creates /\ run'.data.phase \in {"Completed", "PartiallyFailed"}
                             => run'.req \in uploaded'
                          /\ Advances(run'.before.phase, run'.data.phase),
           backups' \in [URLs -> Backups \cup {None}],
           \A u \in URLs : backups'[u] # None => BackupOK(backups'[u]),
           uploads' \subseteq Backups, \A b \in uploads' : BackupOK(b),
           res' \in [Requests -> [PVCs -> Resources]],
           \A r \in Deletes, p \in PVCs : Preprovisioned(res'[r][p]), storage' \subseteq Handles,
           UNCHANGED asked
    PROVE  Recorded'
  <1>2. TypeOK'
    BY Zenon DEF Recorded, TypeOK
  <1>3. \A r \in Requests : DraftOK(r)'
    BY Zenon DEF Recorded, DraftOK, DataOf, VolumesOnly
  <1>4. \A r \in Requests : (Exists(r) => DataOf(r, cms[r].data))' /\ (Cached(r) => DataOf(r, cache[r].data))'
    BY Zenon DEF Recorded, Exists, Cached, DataOf, VolumesOnly
  <1>6. /\ \A u \in URLs : (backups[u] # None => BackupOK(backups[u]))'
        /\ \A b \in uploads' : BackupOK(b)'
    BY Zenon DEF BackupOK, VolumesOnly
  <1>7. (run # Idle => RunOK(run))'
    BY Zenon DEF RunOK, DataOf, VolumesOnly, Idle
  <1> QED BY Zenon, <1>2, <1>3, <1>4, <1>6, <1>7 DEF Recorded

\* What clients submit is well formed; a deletion is about the PVCs of the saved snapshot.
LEMMA DraftOf ==
    ASSUME Recorded, NEW r \in Requests, r \in Deletes => backups[URL[r]] # None
    PROVE  /\ DataOf(r, Draft(r))
           /\ r \in Creates => Draft(r).phase = "NotStarted" /\ Draft(r).requests = {}
           /\ r \in Deletes => /\ SameButPhase(backups[URL[r]].data, Draft(r))
                               /\ Snapped(Draft(r))
           /\ {Draft(r).snapshots[p].handle : p \in Draft(r).requests} \subseteq Handles \cup {None}
  <1>1. CASE r \in Creates
    <2> DEFINE e == [phase |-> "NotStarted", volumes |-> r \in env.withVolumes,
                     vphase |-> "NotStarted", requests |-> {}, snapshots |-> NoSnapshots]
    <2>1. Draft(r) = e
      BY <1>1 DEF Draft
    <2>2. NoSnapshots \in [PVCs -> SnapshotStatus \cup {None}]
      BY DEF NoSnapshots
    <2>3. e \in Data
      BY <2>2 DEF Data, RequestPhases, VolumePhases
    <2>4. VolumesOnly(e)
      BY Zenon DEF VolumesOnly
    <2>5. CreateData(e)
      BY DEF CreateData, CreatePhases, Snapped, SnapshotsIn
    <2> QED BY <1>1, <2>1, <2>3, <2>4, <2>5, RequestsAreDistinct DEF DataOf
  <1>2. CASE r \in Deletes
    <2> DEFINE b == backups[URL[r]]
    <2>1. b \in Backups /\ VolumesOnly(b.data) /\ Snapped(b.data)
      BY <1>2, RequestsHaveURLs DEF Recorded, BackupOK
    <2>2. b.data \in Data
      BY <2>1 DEF Backups
    <2>3. Draft(r) = [b.data EXCEPT !.phase = "Deleting"]
      BY <1>2, RequestsAreDistinct DEF Draft
    <2>4. Draft(r) \in Data /\ Draft(r).phase = "Deleting" /\ SameButPhase(b.data, Draft(r))
      <3>1. "Deleting" \in RequestPhases
        BY DEF RequestPhases
      <3> HIDE DEF b
      <3> QED BY <2>2, <2>3, <3>1, Rephased
    <2> HIDE DEF b
    <2>5. VolumesOnly(Draft(r)) /\ Snapped(Draft(r))
      BY <2>1, <2>4 DEF SameButPhase, VolumesOnly, Snapped, SnapshotsIn
    <2>6. DeleteData(Draft(r))
      BY <2>4, <2>5 DEF DeleteData, DeletePhases, Snapped, SnapshotsIn
    <2>7. {Draft(r).snapshots[p].handle : p \in Draft(r).requests} \subseteq Handles \cup {None}
      BY <2>5 DEF Snapped, SnapshotsIn, SnapshotStatus
    <2> QED BY <1>2, <2>4, <2>5, <2>6, <2>7, RequestsAreDistinct DEF DataOf, b
  <1> QED BY <1>1, <1>2 DEF Requests

\* Clients submit well-formed requests (CreateSnapshotRequestResources,
\* DeleteSnapshotRequestResources) and delete them.
LEMMA ClientRecorded ==
    ASSUME Recorded, NEW r \in Requests, Client(r)
    PROVE  Recorded'
  <1>0. /\ cms \in [Requests -> ConfigMaps \cup {None, Gone}]
        /\ cache \in [Requests -> ConfigMaps \cup {None, Gone}]
        /\ drafts \in [Requests -> Data \cup {None}]
    BY DEF Recorded, TypeOK
  <1>1. CASE CreateSecret(r)
    <2>1. /\ cms[r] = None /\ (r \in Deletes => backups[URL[r]] # None)
          /\ drafts' = [drafts EXCEPT ![r] = Draft(r)] /\ secrets' = secrets \cup {r}
          /\ asked' = asked \cup ({Draft(r).snapshots[p].handle : p \in Draft(r).requests} \ {None})
          /\ UNCHANGED <<env, cms, cache, backups, run, res, storage, uploads, uploaded>>
      BY <1>1 DEF CreateSecret, csi
    <2>2. DataOf(r, Draft(r)) /\ Draft(r) \in Data /\ (r \in Creates => Draft(r).phase = "NotStarted")
      BY <2>1, DraftOf DEF DataOf
    <2>3. asked' \subseteq Handles
      <3>1. {Draft(r).snapshots[p].handle : p \in Draft(r).requests} \subseteq Handles \cup {None}
        BY <2>1, DraftOf
      <3>2. asked \subseteq Handles
        BY DEF Recorded, TypeOK
      <3> HIDE DEF Draft
      <3> QED BY <2>1, <3>1, <3>2
    <2>4. TypeOK'
      BY Zenon, <1>0, <2>1, <2>2, <2>3 DEF Recorded, TypeOK
    <2>5. \A o \in Requests : DraftOK(o)'
      BY Zenon, <1>0, <2>1, <2>2 DEF Recorded, DraftOK, DataOf, VolumesOnly
    <2>6. \A o \in Requests : (Exists(o) => DataOf(o, cms[o].data))' /\ (Cached(o) => DataOf(o, cache[o].data))'
      BY Zenon, <2>1 DEF Recorded, Exists, Cached, DataOf, VolumesOnly
    <2>7. /\ \A u \in URLs : (backups[u] # None => BackupOK(backups[u]))'
          /\ \A b \in uploads' : BackupOK(b)'
      BY Zenon, <2>1 DEF Recorded, BackupOK, VolumesOnly
    <2>8. (run # Idle => RunOK(run))'
      BY Zenon, <2>1 DEF Recorded, RunOK, DataOf, VolumesOnly, Idle
    <2> QED BY <2>1, <2>4, <2>5, <2>6, <2>7, <2>8 DEF Recorded
  <1>2. CASE CreateConfigMap(r)
    <2> DEFINE cm == [data |-> drafts[r], finalizer |-> FALSE, deleting |-> FALSE]
               c == [cms EXCEPT ![r] = cm]
    <2>1. /\ drafts[r] # None /\ cms' = c /\ drafts' = [drafts EXCEPT ![r] = None] /\ Caches
          /\ UNCHANGED <<env, secrets, backups, run, res, storage, uploads, asked, uploaded>>
      BY <1>2 DEF CreateConfigMap, csi, history
    <2>2. cms[r] = None /\ DataOf(r, drafts[r]) /\ drafts[r] \in Data
      BY <2>1 DEF Recorded, DraftOK, DataOf
    <2>3. cm \in ConfigMaps /\ cm.data = drafts[r]
      BY <2>2 DEF ConfigMaps
    <2> HIDE DEF cm
    <2>4. c \in [Requests -> ConfigMaps \cup {None, Gone}]
      BY <1>0, <2>3
    <2>5. \A o \in Requests : c[o] \notin {None, Gone} => DataOf(o, c[o].data)
      BY <1>0, <2>2, <2>3 DEF Recorded, Exists
    <2>6. \A o \in Requests : drafts'[o] # None => drafts'[o] = drafts[o] /\ c[o] = None
      BY <1>0, <2>1 DEF Recorded, DraftOK
    <2>7. cache' = cache \/ cache' = c
      BY <2>1 DEF Caches
    <2>8. /\ drafts' \in [Requests -> Data \cup {None}] /\ secrets' \subseteq Requests
          /\ cache' \in [Requests -> ConfigMaps \cup {None, Gone}]
      BY <1>0, <2>1, <2>4, <2>7 DEF Recorded, TypeOK
    <2> HIDE DEF c
    <2> QED BY <2>1, <2>4, <2>5, <2>6, <2>7, <2>8, Rewritten
  <1>3. CASE DeleteConfigMap(r)
    <2> DEFINE c == [cms EXCEPT ![r] = Removed(cms[r])]
    <2>1. /\ Exists(r) /\ cms' = c /\ Caches
          /\ UNCHANGED <<env, drafts, secrets, backups, run, res, storage, uploads, asked, uploaded>>
      BY <1>3 DEF DeleteConfigMap, csi, history
    <2>2. /\ Removed(cms[r]) \in ConfigMaps \cup {Gone} /\ cms[r] \in ConfigMaps
          /\ Removed(cms[r]) # Gone => Removed(cms[r]).data = cms[r].data
      BY Zenon, <1>0, <2>1 DEF Removed, Exists, ConfigMaps
    <2>3. c \in [Requests -> ConfigMaps \cup {None, Gone}]
      BY <1>0, <2>2
    <2>4. \A o \in Requests : c[o] \notin {None, Gone} => DataOf(o, c[o].data)
      BY <1>0, <2>1, <2>2 DEF Recorded, Exists
    <2>5. \A o \in Requests : cms[o] = None => c[o] = None
      BY <1>0, <2>1 DEF Exists
    <2>6. secrets' \subseteq Requests
      BY <2>1 DEF Recorded, TypeOK
    <2> HIDE DEF c
    <2> QED BY <2>1, <2>3, <2>4, <2>5, <2>6, Written
  <1>4. CASE DeleteSecret(r)
    <2>1. /\ secrets' \subseteq secrets
          /\ UNCHANGED <<env, drafts, cms, cache, backups, run, res, storage, uploads, asked, uploaded>>
      BY <1>4 DEF DeleteSecret, csi, history
    <2> QED BY Zenon, <2>1, Carried DEF Recorded, TypeOK, RunOK
  <1> QED BY <1>1, <1>2, <1>3, <1>4 DEF Client

\* The informer brings the cache up to date.
LEMMA SyncRecorded ==
    ASSUME Recorded, NEW r \in Requests, Sync(r)
    PROVE  Recorded'
  <1>0. /\ cms \in [Requests -> ConfigMaps \cup {None, Gone}]
        /\ cache \in [Requests -> ConfigMaps \cup {None, Gone}]
    BY DEF Recorded, TypeOK
  <1>1. /\ cache' = [cache EXCEPT ![r] = cms[r]]
        /\ UNCHANGED <<env, drafts, cms, secrets, backups, run, res, storage, uploads, asked, uploaded>>
    BY DEF Sync, csi, history
  <1>2. /\ cache' \in [Requests -> ConfigMaps \cup {None, Gone}]
        /\ \A o \in Requests : cache'[o] \in {cache[o], cms[o]}
    BY <1>0, <1>1
  <1>3. /\ \A o \in Requests : cms[o] \notin {None, Gone} => DataOf(o, cms[o].data)
        /\ \A o \in Requests : drafts'[o] # None => drafts'[o] = drafts[o] /\ cms[o] = None
        /\ drafts' \in [Requests -> Data \cup {None}] /\ secrets' \subseteq Requests
    BY Zenon, <1>1 DEF Recorded, Exists, DraftOK, TypeOK
  <1> QED BY <1>0, <1>1, <1>2, <1>3, Rewritten

\* Removing the finalizer or the ConfigMap leaves its data as it is.
LEMMA UnlockedRemoved ==
    ASSUME NEW cm \in ConfigMaps \cup {None, Gone}, NEW seen
    PROVE  /\ Unlocked(cm, seen) \in ConfigMaps \cup {None, Gone}
           /\ Unlocked(cm, seen) = None <=> cm = None
           /\ Unlocked(cm, seen) \notin {None, Gone} => cm \in ConfigMaps /\ Unlocked(cm, seen).data = cm.data
           /\ cm \in ConfigMaps => /\ Removed(cm) \in ConfigMaps \cup {Gone}
                                   /\ Removed(cm) # Gone => Removed(cm).data = cm.data
  <1>1. CASE cm \in {None, Gone}
    BY <1>1, NoneIsNoConfigMap DEF Unlocked
  <1>2. CASE cm \in ConfigMaps
    BY Zenon, <1>2, NoneIsNoConfigMap, GoneIsNotNone DEF Unlocked, Removed, ConfigMaps
  <1> QED BY <1>1, <1>2

\* A request that has ended, or is to go, keeps its data or is recorded as failed.
LEMMA EndedWrites ==
    ASSUME Recorded, NEW r \in Requests, ReconcileDeleted(r) \/ ReconcileDone(r)
    PROVE  /\ \E cm \in ConfigMaps \cup {None, Gone} :
                /\ cms' = [cms EXCEPT ![r] = cm]
                /\ cm = None <=> cms[r] = None
                /\ cm \notin {None, Gone} => /\ Exists(r)
                                             /\ \/ cm.data = cms[r].data
                                                \/ ReconcileDone(r) /\ cm.data = InFailure(cache[r].data)
           /\ run = Idle /\ Cached(r) /\ secrets' \subseteq secrets /\ Caches
           /\ UNCHANGED <<env, drafts, backups, run, res, storage, uploads, asked, uploaded>>
  <1>0. /\ cms \in [Requests -> ConfigMaps \cup {None, Gone}]
        /\ cache \in [Requests -> ConfigMaps \cup {None, Gone}]
        /\ secrets \subseteq Requests
    BY Zenon DEF Recorded, TypeOK
  <1>1. CASE ReconcileDeleted(r)
    <2>1. /\ run = Idle /\ Cached(r) /\ secrets' \subseteq secrets /\ Caches
          /\ UNCHANGED <<env, drafts, backups, run, res, storage, uploads, asked, uploaded>>
          /\ cms' = [cms EXCEPT ![r] = Unlocked(cms[r], cache[r])] \/ cms' = cms
      BY <1>1 DEF ReconcileDeleted, csi, history
    <2>2. PICK cm : /\ cms' = [cms EXCEPT ![r] = cm] /\ cm \in {cms[r], Unlocked(cms[r], cache[r])}
      BY <1>0, <2>1
    <2>3. cms[r] \in ConfigMaps \cup {None, Gone}
      BY <1>0
    <2>4. /\ cm \in ConfigMaps \cup {None, Gone} /\ (cm = None <=> cms[r] = None)
          /\ cm \notin {None, Gone} => Exists(r) /\ cm.data = cms[r].data
      BY <2>2, <2>3, UnlockedRemoved, NoneIsNoConfigMap DEF Exists
    <2> QED BY Zenon, <2>1, <2>2, <2>4
  <1>2. CASE ReconcileDone(r)
    <2> DEFINE data == cache[r].data
               expired == IF Exists(r) THEN Removed(cms[r]) ELSE cms[r]
               failed(cm) == IF cm \in {None, Gone} THEN cm ELSE [cm EXCEPT !.data = InFailure(data)]
               OK(cm) == /\ cm \in ConfigMaps \cup {None, Gone} /\ (cm = None <=> cms[r] = None)
                         /\ cm \notin {None, Gone} => Exists(r) /\ cm.data \in {cms[r].data, InFailure(data)}
    <2>1. /\ run = Idle /\ Cached(r) /\ secrets' \subseteq secrets /\ Caches
          /\ UNCHANGED <<env, drafts, backups, run, res, storage, uploads, asked, uploaded>>
      BY <1>2 DEF ReconcileDone, Reconcilable, csi, history
    <2>2. \E cm \in {cms[r], Unlocked(cms[r], cache[r]), Unlocked(expired, cache[r]), failed(cms[r]), expired,
                     failed(expired), Unlocked(failed(cms[r]), cache[r]), Unlocked(failed(expired), cache[r])} :
            cms' = [cms EXCEPT ![r] = cm]
      BY <1>2 DEF ReconcileDone
    <2>3. DataOf(r, data) /\ InFailure(data) \in Data
      <3>1. DataOf(r, data)
        BY <2>1 DEF Recorded
      <3> QED BY <3>1, FailedOf DEF DataOf
    <2>4. OK(cms[r])
      BY <1>0, NoneIsNoConfigMap DEF Exists
    <2>5. OK(expired)
      <3>1. cms[r] \in ConfigMaps \cup {None, Gone}
        BY <1>0
      <3> QED BY <2>4, <3>1, UnlockedRemoved, NoneIsNoConfigMap, GoneIsNotNone DEF Exists
    <2> HIDE DEF expired
    <2>6. ASSUME NEW cm, OK(cm)
          PROVE  OK(failed(cm))
      <3>1. CASE cm \in {None, Gone}
        BY <2>6, <3>1
      <3>2. CASE cm \notin {None, Gone}
        <4>1. /\ failed(cm) = [cm EXCEPT !.data = InFailure(data)] /\ cm \in ConfigMaps
          BY <2>6, <3>2
        <4>2. failed(cm) \in ConfigMaps /\ failed(cm).data = InFailure(data)
          BY <2>3, <4>1 DEF ConfigMaps
        <4> HIDE DEF failed
        <4> QED BY <2>6, <3>2, <4>2, NoneIsNoConfigMap
      <3> QED BY <3>1, <3>2
    <2> HIDE DEF failed, data
    <2>7. ASSUME NEW cm, OK(cm)
          PROVE  OK(Unlocked(cm, cache[r]))
      BY <2>7, UnlockedRemoved, NoneIsNoConfigMap
    <2>8. /\ OK(failed(cms[r])) /\ OK(failed(expired)) /\ OK(Unlocked(cms[r], cache[r])) /\ OK(Unlocked(expired, cache[r]))
      BY Zenon, <2>4, <2>5, <2>6, <2>7
    <2>9. OK(Unlocked(failed(cms[r]), cache[r])) /\ OK(Unlocked(failed(expired), cache[r]))
      BY Zenon, <2>7, <2>8
    <2>10. \E cm : OK(cm) /\ cms' = [cms EXCEPT ![r] = cm]
      <3> HIDE DEF OK
      <3> QED BY Zenon, <2>2, <2>4, <2>5, <2>8, <2>9
    <2> QED BY Zenon, <1>2, <2>1, <2>10 DEF data
  <1> QED BY <1>1, <1>2

\* reconcileDeletedRequest and reconcileDoneRequest write well-formed requests.
LEMMA EndedRecorded ==
    ASSUME Recorded, NEW r \in Requests, ReconcileDeleted(r) \/ ReconcileDone(r)
    PROVE  Recorded'
  <1>0. cms \in [Requests -> ConfigMaps \cup {None, Gone}] /\ secrets \subseteq Requests
    BY DEF Recorded, TypeOK
  <1>1. PICK cm \in ConfigMaps \cup {None, Gone} :
            /\ cms' = [cms EXCEPT ![r] = cm]
            /\ cm = None <=> cms[r] = None
            /\ cm \notin {None, Gone} => /\ Exists(r)
                                         /\ \/ cm.data = cms[r].data
                                            \/ ReconcileDone(r) /\ cm.data = InFailure(cache[r].data)
    BY EndedWrites
  <1>2. /\ Cached(r) /\ secrets' \subseteq secrets /\ Caches
        /\ UNCHANGED <<env, drafts, backups, run, res, storage, uploads, asked, uploaded>>
    BY EndedWrites
  <1> DEFINE c == [cms EXCEPT ![r] = cm]
  <1>3. DataOf(r, InFailure(cache[r].data))
    <2>1. DataOf(r, cache[r].data)
      BY <1>2 DEF Recorded
    <2> QED BY <2>1, FailedOf
  <1>4. c \in [Requests -> ConfigMaps \cup {None, Gone}]
    BY <1>0
  <1>5. \A o \in Requests : c[o] \notin {None, Gone} => DataOf(o, c[o].data)
    BY <1>0, <1>1, <1>3 DEF Recorded, Exists
  <1>6. \A o \in Requests : cms[o] = None => c[o] = None
    BY <1>0, <1>1
  <1> HIDE DEF c
  <1>7. cms' = c
    BY <1>1 DEF c
  <1> QED BY <1>0, <1>2, <1>4, <1>5, <1>6, <1>7, Written

\* addFinalizer leaves the request as it is.
LEMMA FinalizerRecorded ==
    ASSUME Recorded, NEW r \in Requests, AddFinalizer(r)
    PROVE  Recorded'
  <1> DEFINE c == [cms EXCEPT ![r].finalizer = TRUE]
  <1>0. cms \in [Requests -> ConfigMaps \cup {None, Gone}] /\ secrets \subseteq Requests
    BY DEF Recorded, TypeOK
  <1>1. /\ Exists(r) /\ cms' = c /\ Caches
        /\ UNCHANGED <<env, drafts, secrets, backups, run, res, storage, uploads, asked, uploaded>>
    BY DEF AddFinalizer, csi, history
  <1>2. /\ c[r] \in ConfigMaps /\ c[r].data = cms[r].data
        /\ \A o \in Requests : o # r => c[o] = cms[o]
        /\ c \in [Requests -> ConfigMaps \cup {None, Gone}]
    BY Zenon, <1>0, <1>1 DEF Exists, ConfigMaps
  <1> HIDE DEF c
  <1>3. /\ \A o \in Requests : c[o] \notin {None, Gone} => DataOf(o, c[o].data)
        /\ \A o \in Requests : cms[o] = None => c[o] = None
    BY <1>1, <1>2 DEF Recorded, Exists
  <1> QED BY <1>0, <1>1, <1>2, <1>3, Written

\* Only creating requests are canceled.
LEMMA CancelWrites ==
    ASSUME Recorded, NEW r \in Requests, CancelPrevious(r)
    PROVE  /\ run = Idle /\ Caches
           /\ UNCHANGED <<env, drafts, secrets, backups, run, res, storage, uploads, asked, uploaded>>
           /\ \E done \in SUBSET Previous(r) :
                /\ cms' = [o \in Requests |->
                             IF o \in done /\ Exists(o)
                             THEN [cms[o] EXCEPT !.data = [cache[o].data EXCEPT !.phase = "Canceling"]]
                             ELSE cms[o]]
                /\ \A o \in done :
                     LET e == [cache[o].data EXCEPT !.phase = "Canceling"]
                     IN /\ o \in Creates /\ Cached(o)
                        /\ cache[o].data.phase \in {"NotStarted", "CreatingVolumeSnapshots", "CreatingEtcdBackup"}
                        /\ DataOf(o, e) /\ e \in Data /\ e.phase = "Canceling" /\ SameButPhase(cache[o].data, e)
  <1>1. /\ run = Idle /\ Caches
        /\ UNCHANGED <<env, drafts, secrets, backups, run, res, storage, uploads, asked, uploaded>>
    BY DEF CancelPrevious, Reconcilable, csi, history
  <1>2. PICK done \in SUBSET Previous(r) :
           cms' = [o \in Requests |->
                     IF o \in done /\ Exists(o)
                     THEN [cms[o] EXCEPT !.data = [cache[o].data EXCEPT !.phase = "Canceling"]]
                     ELSE cms[o]]
    BY Zenon DEF CancelPrevious
  <1>3. ASSUME NEW o \in done
        PROVE  LET e == [cache[o].data EXCEPT !.phase = "Canceling"]
               IN /\ o \in Creates /\ Cached(o)
                  /\ cache[o].data.phase \in {"NotStarted", "CreatingVolumeSnapshots", "CreatingEtcdBackup"}
                  /\ DataOf(o, e) /\ e \in Data /\ e.phase = "Canceling" /\ SameButPhase(cache[o].data, e)
    <2>1. /\ o \in Requests /\ Cached(o)
          /\ cache[o].data.phase \in {"NotStarted", "CreatingVolumeSnapshots", "CreatingEtcdBackup"}
      BY DEF Previous, ShouldCancel
    <2>2. DataOf(o, cache[o].data) /\ cache[o].data \in Data
      BY <2>1 DEF Recorded, DataOf
    <2>3. o \in Creates /\ o \notin Deletes
      BY <2>1, <2>2, RequestsAreDistinct DEF DataOf, DeleteData, DeletePhases, Requests
    <2>4. "Canceling" \in RequestPhases /\ "Canceling" \in CreatePhases \ {"NotStarted"}
      BY DEF RequestPhases, CreatePhases
    <2>5. DataOf(o, [cache[o].data EXCEPT !.phase = "Canceling"])
      BY <2>1, <2>2, <2>3, <2>4, RephasedOf
    <2> QED BY <2>1, <2>2, <2>3, <2>4, <2>5, Rephased
  <1> QED BY Zenon, <1>1, <1>2, <1>3

\* cancelPreviousRequests writes well-formed requests.
LEMMA CancelRecorded ==
    ASSUME Recorded, NEW r \in Requests, CancelPrevious(r)
    PROVE  Recorded'
  <1>0. cms \in [Requests -> ConfigMaps \cup {None, Gone}] /\ secrets \subseteq Requests
    BY DEF Recorded, TypeOK
  <1> DEFINE e(o) == [cache[o].data EXCEPT !.phase = "Canceling"]
  <1>1. PICK done \in SUBSET Previous(r) :
           /\ cms' = [o \in Requests |-> IF o \in done /\ Exists(o) THEN [cms[o] EXCEPT !.data = e(o)] ELSE cms[o]]
           /\ \A o \in done : DataOf(o, e(o)) /\ e(o) \in Data
    BY Zenon, CancelWrites
  <1>2. Caches /\ UNCHANGED <<env, drafts, secrets, backups, run, res, storage, uploads, asked, uploaded>>
    BY CancelWrites
  <1> HIDE DEF e
  <1> DEFINE c == [o \in Requests |-> IF o \in done /\ Exists(o) THEN [cms[o] EXCEPT !.data = e(o)] ELSE cms[o]]
  <1>3. ASSUME NEW o \in Requests
        PROVE  /\ c[o] \in ConfigMaps \cup {None, Gone}
               /\ c[o] \notin {None, Gone} => DataOf(o, c[o].data)
               /\ cms[o] = None => c[o] = None
    <2>1. CASE o \in done /\ Exists(o)
      <3>1. cms[o] \in ConfigMaps /\ c[o] = [cms[o] EXCEPT !.data = e(o)]
        BY <1>0, <2>1 DEF Exists
      <3>2. c[o] \in ConfigMaps /\ c[o].data = e(o)
        BY <1>1, <2>1, <3>1 DEF ConfigMaps
      <3> HIDE DEF c
      <3> QED BY <1>1, <2>1, <3>2 DEF Exists
    <2>2. CASE ~(o \in done /\ Exists(o))
      <3>1. c[o] = cms[o]
        BY <2>2
      <3> HIDE DEF c
      <3> QED BY <1>0, <3>1 DEF Recorded, Exists
    <2> QED BY <2>1, <2>2
  <1>4. c \in [Requests -> ConfigMaps \cup {None, Gone}] /\ cms' = c
    <2>1. \A o \in Requests : c[o] \in ConfigMaps \cup {None, Gone}
      BY <1>3
    <2> QED BY <1>1, <2>1
  <1> HIDE DEF c
  <1> QED BY <1>0, <1>2, <1>3, <1>4, Written

\* A reconciliation that only begins to work on a request.
LEMMA BegunRecorded ==
    ASSUME Recorded, NEW q \in Runs, RunOK(q), run' = q,
           UNCHANGED <<env, drafts, cms, cache, secrets, backups, res, storage, uploads, asked, uploaded>>
    PROVE  Recorded'
  <1>1. q # Idle => /\ DataOf(q.req, q.data) /\ q.todo \subseteq q.data.requests
                    /\ q.todo # {} => LoopOK(q.req, q.data, q.todo)
                    /\ q.req \in Creates /\ q.data.phase \in {"Completed", "PartiallyFailed"} => q.req \in uploaded
                    /\ Advances(q.before.phase, q.data.phase)
    BY Zenon DEF RunOK
  <1> QED BY Zenon, <1>1, Carried DEF Recorded, TypeOK

\* reconcileNewRequest and the first step of a deletion.
LEMMA StartedRun ==
    ASSUME Recorded, NEW r \in Requests, StartRequest(r)
    PROVE  /\ run' \in Runs /\ RunOK(run')
           /\ run'.req = r /\ run'.before = cache[r].data /\ run'.todo = {}
           /\ run'.data.snapshots = cache[r].data.snapshots
           /\ r \in Deletes => run'.data.requests = cache[r].data.requests
  <1> DEFINE d == cache[r].data
             first == IF d.phase = "NotStarted"
                      THEN IF d.volumes THEN "CreatingVolumeSnapshots" ELSE "CreatingEtcdBackup"
                      ELSE IF d.volumes THEN "DeletingVolumeSnapshots" ELSE "DeletingEtcdBackup"
             e == [d EXCEPT !.phase = first, !.requests = IF d.phase = "NotStarted" THEN {} ELSE d.requests]
  <1>1. Cached(r) /\ d.phase \in {"NotStarted", "Deleting"} /\ run' = Working(r, e, {})
    BY DEF StartRequest, Reconcilable
  <1>2. DataOf(r, d) /\ cache[r] \in ConfigMaps /\ d \in Data
    BY <1>1 DEF Recorded, TypeOK, Cached, DataOf
  <1>3. r \in Creates <=> d.phase = "NotStarted"
    BY <1>1, <1>2, RequestsAreDistinct DEF DataOf, DeleteData, CreateData, DeletePhases, CreatePhases, Requests
  <1>4. /\ e \in Data /\ e.phase = first /\ e.volumes = d.volumes /\ e.vphase = d.vphase
        /\ e.snapshots = d.snapshots /\ e.requests = IF d.phase = "NotStarted" THEN {} ELSE d.requests
    BY Zenon, <1>2 DEF Data, RequestPhases
  <1>5. Advances(d.phase, e.phase)
    BY <1>1, <1>4 DEF Advances, Early, Active, Cancels
  <1>6. DataOf(r, e)
    <2>1. CASE r \in Creates
      <3> HIDE DEF e
      <3>1. VolumesOnly(e)
        BY <1>2, <1>3, <1>4, <2>1 DEF DataOf, VolumesOnly
      <3>2. CreateData(e)
        BY <1>2, <1>3, <1>4, <2>1 DEF DataOf, CreateData, CreatePhases, Snapped, SnapshotsIn
      <3> QED BY <1>4, <2>1, <3>1, <3>2, RequestsAreDistinct DEF DataOf
    <2>2. CASE r \in Deletes
      <3> HIDE DEF e
      <3>1. d.phase # "NotStarted"
        BY <1>3, <2>2, RequestsAreDistinct
      <3>2. VolumesOnly(e)
        BY <1>2, <1>4, <3>1 DEF DataOf, VolumesOnly
      <3>3. DeleteData(e)
        BY <1>2, <1>4, <2>2, <3>1 DEF DataOf, DeleteData, DeletePhases, SnapshotsIn, VolumesOnly
      <3> QED BY <1>4, <2>2, <3>2, <3>3, RequestsAreDistinct DEF DataOf
    <2> QED BY <2>1, <2>2 DEF Requests
  <1>7. e.phase \notin {"Completed", "PartiallyFailed"}
    BY <1>4
  <1>8. r \in Deletes => e.requests = d.requests
    BY <1>3, <1>4, RequestsAreDistinct
  <1>9. e.snapshots = d.snapshots
    BY <1>4
  <1> HIDE DEF e
  <1>10. Working(r, e, {}) \in Runs /\ RunOK(Working(r, e, {}))
    BY <1>2, <1>5, <1>6, <1>7, WorkingOf
  <1>11. run'.req = r /\ run'.before = d /\ run'.data = e /\ run'.todo = {}
    BY <1>1 DEF Working
  <1> QED BY Zenon, <1>1, <1>8, <1>9, <1>10, <1>11

\* reconcileVolumeSnapshots up to its loop.
LEMMA VolumesRun ==
    ASSUME Recorded, NEW r \in Requests, ReconcileVolumes(r)
    PROVE  /\ run' \in Runs /\ RunOK(run')
           /\ run'.req = r /\ run'.before = cache[r].data
           /\ run'.data.snapshots = cache[r].data.snapshots
           /\ r \in Deletes => run'.data.requests = cache[r].data.requests
           /\ run'.todo # {} => run'.data.phase = cache[r].data.phase
  <1>1. /\ Cached(r) /\ run' \in VolumeRuns(r, Entered(cache[r].data))
        /\ cache[r].data.phase \in {"CreatingVolumeSnapshots", "Canceling", "DeletingVolumeSnapshots"}
    BY DEF ReconcileVolumes, Reconcilable
  <1>2. TypeOK /\ DataOf(r, cache[r].data) /\ cache[r] \in ConfigMaps
    BY Zenon, <1>1 DEF Recorded, TypeOK, Cached
  <1> QED BY <1>1, <1>2, VolumeRunsOf

\* The phase after the upload is that of the volumes.
LEMMA BackedUpOf ==
    ASSUME NEW r \in Creates, NEW d, DataOf(r, d), d.phase = "CreatingEtcdBackup"
    PROVE  /\ DataOf(r, BackedUp(d)) /\ SameButPhase(d, BackedUp(d))
           /\ BackedUp(d).phase \in {"Completed", "PartiallyFailed", "Failed"}
  <1> DEFINE f == IF ~d.volumes THEN "Completed"
                  ELSE IF d.vphase \in {"Completed", "PartiallyFailed"} THEN d.vphase ELSE "Failed"
  <1>1. f \in {"Completed", "PartiallyFailed", "Failed"}
    OBVIOUS
  <1>2. BackedUp(d) = [d EXCEPT !.phase = f]
    BY DEF BackedUp
  <1> HIDE DEF f
  <1>3. f \in RequestPhases /\ f \in CreatePhases \ {"NotStarted"} /\ r \in Requests /\ r \notin Deletes
    BY <1>1, RequestsAreDistinct DEF RequestPhases, CreatePhases, Requests
  <1>4. DataOf(r, BackedUp(d))
    BY <1>1, <1>2, <1>3, RephasedOf
  <1>5. d \in Data
    BY DEF DataOf
  <1> QED BY <1>1, <1>2, <1>3, <1>4, <1>5, Rephased

\* What the backup of etcd saves, and how its reconciliation goes on.
LEMMA BackupRun ==
    ASSUME Recorded, NEW r \in Requests, CreateEtcdBackup(r)
    PROVE  /\ r \in Creates /\ Cached(r) /\ cache[r].data.phase = "CreatingEtcdBackup"
           /\ run' \in Runs /\ DataOf(r, run'.data)
           /\ run'.req = r /\ run'.before = cache[r].data /\ run'.todo = {}
           /\ SameButPhase(cache[r].data, run'.data)
           /\ run'.data.phase \in {"Completed", "PartiallyFailed", "Failed"}
           /\ run'.data.phase # "Failed" => r \in uploaded'
           /\ uploaded' \in {uploaded, uploaded \cup {r}}
           /\ \E b \in Backups :
                /\ b.by = r /\ b.data = cache[r].data /\ BackupOK(b)
                /\ backups' \in {backups, [backups EXCEPT ![URL[r]] = b]}
                /\ uploads' \in {uploads, uploads \cup {b}}
           /\ UNCHANGED <<env, drafts, cms, cache, secrets, res, storage, asked>>
  <1> DEFINE d == cache[r].data
             saved(w) == [by |-> r, data |-> d, whole |-> w]
  <1>1. /\ Cached(r) /\ d.phase = "CreatingEtcdBackup"
        /\ UNCHANGED <<env, drafts, cms, cache, secrets, res, storage, asked>>
    BY Zenon DEF CreateEtcdBackup, Reconcilable, csi
  <1>2. DataOf(r, d) /\ cache[r] \in ConfigMaps /\ d \in Data
    BY <1>1 DEF Recorded, TypeOK, Cached, DataOf
  <1>3. r \in Creates
    BY <1>1, <1>2 DEF DataOf, DeleteData, DeletePhases, Requests
  <1>4. \A w \in BOOLEAN : saved(w) \in Backups /\ saved(w).by = r /\ saved(w).data = d
    BY <1>2, <1>3 DEF Backups
  <1>5. \A w \in BOOLEAN : BackupOK(saved(w))
    <2>1. VolumesOnly(d) /\ Snapped(d)
      BY Zenon, <1>1, <1>2, <1>3 DEF DataOf, CreateData
    <2> QED BY <1>4, <2>1 DEF BackupOK
  <1>6. \E w \in BOOLEAN, e \in {BackedUp(d), InFailure(d)} :
          /\ run' = Working(r, e, {})
          /\ e = InFailure(d) \/ r \in uploaded'
          /\ uploaded' \in {uploaded, uploaded \cup {r}}
          /\ backups' \in {backups, [backups EXCEPT ![URL[r]] = saved(w)]}
          /\ uploads' \in {uploads, uploads \cup {saved(w)}}
    <2> HIDE DEF saved
    <2>1. CASE /\ backups' = [backups EXCEPT ![URL[r]] = saved(TRUE)]
               /\ uploaded' = uploaded \cup {r} /\ run' = Working(r, BackedUp(d), {}) /\ UNCHANGED uploads
      BY Zenon, <2>1
    <2>2. CASE run' = Working(r, InFailure(d), {}) /\ UNCHANGED <<backups, uploads, uploaded>>
      BY Zenon, <2>2
    <2>3. CASE /\ uploads' \in {uploads, uploads \cup {saved(FALSE)}}
               /\ run' = Working(r, InFailure(d), {}) /\ UNCHANGED <<backups, uploaded>>
      BY Zenon, <2>3
    <2> QED BY Zenon, <2>1, <2>2, <2>3 DEF CreateEtcdBackup, saved
  <1>7. PICK w \in BOOLEAN, e \in {BackedUp(d), InFailure(d)} :
          /\ run' = Working(r, e, {})
          /\ e = InFailure(d) \/ r \in uploaded'
          /\ uploaded' \in {uploaded, uploaded \cup {r}}
          /\ backups' \in {backups, [backups EXCEPT ![URL[r]] = saved(w)]}
          /\ uploads' \in {uploads, uploads \cup {saved(w)}}
    BY Zenon, <1>6
  <1> HIDE DEF d, saved
  <1>8. /\ DataOf(r, e) /\ SameButPhase(d, e) /\ e.phase \in {"Completed", "PartiallyFailed", "Failed"}
        /\ e.phase # "Failed" => r \in uploaded'
    BY Zenon, <1>1, <1>2, <1>3, <1>7, BackedUpOf, FailedOf
  <1>9. /\ run' \in Runs /\ run'.req = r /\ run'.before = d /\ run'.data = e /\ run'.todo = {}
    BY <1>2, <1>7, <1>8 DEF Working, Runs, d, DataOf
  <1>10. \E b \in Backups :
           /\ b.by = r /\ b.data = d /\ BackupOK(b)
           /\ backups' \in {backups, [backups EXCEPT ![URL[r]] = b]}
           /\ uploads' \in {uploads, uploads \cup {b}}
    BY <1>4, <1>5, <1>7
  <1> QED BY Zenon, <1>1, <1>3, <1>7, <1>8, <1>9, <1>10 DEF d

\* reconcileCreatingEtcdBackup saves what the request has snapshotted, and records the end.
LEMMA BackupRecorded ==
    ASSUME Recorded, NEW r \in Requests, CreateEtcdBackup(r)
    PROVE  Recorded'
  <1>1. PICK b \in Backups :
          /\ BackupOK(b)
          /\ backups' \in {backups, [backups EXCEPT ![URL[r]] = b]}
          /\ uploads' \in {uploads, uploads \cup {b}}
    BY Zenon, BackupRun
  <1>2. /\ r \in Creates /\ run' \in Runs /\ DataOf(r, run'.data) /\ run'.req = r /\ run'.todo = {}
        /\ run'.data.phase \in {"Completed", "PartiallyFailed", "Failed"}
        /\ run'.data.phase # "Failed" => r \in uploaded'
        /\ uploaded' \in {uploaded, uploaded \cup {r}}
        /\ UNCHANGED <<env, drafts, cms, cache, secrets, res, storage, asked>>
    BY Zenon, BackupRun
  <1>3. /\ backups' \in [URLs -> Backups \cup {None}]
        /\ \A u \in URLs : backups'[u] # None => BackupOK(backups'[u])
    <2>0. /\ backups \in [URLs -> Backups \cup {None}] /\ URL[r] \in URLs
          /\ \A u \in URLs : backups[u] # None => BackupOK(backups[u])
      BY RequestsHaveURLs DEF Recorded, TypeOK
    <2>1. CASE backups' = backups
      BY <2>0, <2>1
    <2>2. CASE backups' = [backups EXCEPT ![URL[r]] = b]
      <3>1. \A u \in URLs : backups'[u] = IF u = URL[r] THEN b ELSE backups[u]
        BY <2>0, <2>2
      <3> QED BY <1>1, <2>0, <2>2, <3>1
    <2> QED BY <1>1, <2>1, <2>2
  <1>6. uploads' \subseteq Backups /\ \A c \in uploads' : BackupOK(c)
    BY <1>1 DEF Recorded, TypeOK
  <1>4. uploaded \subseteq uploaded' /\ uploaded' \subseteq Creates
    BY Zenon, <1>2 DEF Recorded, TypeOK
  <1>5. Advances(run'.before.phase, run'.data.phase)
    BY Zenon, <1>2 DEF Advances, Early, Active, Cancels
  <1> QED BY Zenon, <1>2, <1>3, <1>4, <1>5, <1>6, Carried DEF Recorded, TypeOK

\* What the deletion of the backup removes, and how its reconciliation goes on.
LEMMA DeleteBackupRun ==
    ASSUME Recorded, NEW r \in Requests, DeleteEtcdBackup(r)
    PROVE  /\ r \in Deletes /\ Cached(r)
           /\ run' \in Runs /\ RunOK(run')
           /\ run'.req = r /\ run'.before = cache[r].data /\ run'.todo = {}
           /\ SameButPhase(cache[r].data, run'.data)
           /\ backups' \in {backups, [backups EXCEPT ![URL[r]] = None]}
           /\ UNCHANGED <<env, drafts, cms, cache, secrets, res, storage, uploads, asked, uploaded>>
  <1> DEFINE d == cache[r].data
  <1>1. /\ Cached(r) /\ d.phase = "DeletingEtcdBackup"
        /\ UNCHANGED <<env, drafts, cms, cache, secrets, res, storage, uploads, asked, uploaded>>
        /\ backups' \in {backups, [backups EXCEPT ![URL[r]] = None]}
    BY DEF DeleteEtcdBackup, Reconcilable, csi, history
  <1>2. DataOf(r, d) /\ cache[r] \in ConfigMaps /\ d \in Data
    BY Zenon, <1>1 DEF Recorded, TypeOK, Cached, DataOf
  <1>3. r \in Deletes /\ r \notin Creates
    BY Zenon, <1>1, <1>2, RequestsAreDistinct DEF DataOf, CreateData, CreatePhases, Requests
  <1>4. RequestNext("DeletingEtcdBackup") = "Deleted"
    BY DEF RequestNext
  <1>5. run' \in {Working(r, [d EXCEPT !.phase = "Deleted"], {}), Working(r, InFailure(d), {})}
    BY <1>1, <1>4 DEF DeleteEtcdBackup
  <1>6. "Deleted" \in RequestPhases /\ "Deleted" \in DeletePhases /\ SnapshotsIn(d, {"Deleted", "Failed"})
    BY Zenon, <1>1, <1>2, <1>3 DEF RequestPhases, DeletePhases, DataOf, DeleteData
  <1> HIDE DEF d
  <1>7. PICK e : /\ run' = Working(r, e, {})
                 /\ DataOf(r, e) /\ SameButPhase(d, e) /\ e.phase \in {"Deleted", "Failed"}
    <2>1. LET e == [d EXCEPT !.phase = "Deleted"] IN DataOf(r, e) /\ SameButPhase(d, e) /\ e.phase = "Deleted"
      BY <1>2, <1>3, <1>6, RephasedOf, Rephased
    <2> QED BY Zenon, <1>2, <1>5, <2>1, FailedOf
  <1>8. Advances(cache[r].data.phase, e.phase)
    BY <1>7 DEF Advances, Early, Active, Cancels
  <1>9. run' \in Runs /\ RunOK(run')
    BY <1>2, <1>3, <1>7, <1>8, WorkingOf
  <1>10. run'.req = r /\ run'.before = d /\ run'.data = e /\ run'.todo = {}
    BY <1>7 DEF Working, d
  <1> QED BY Zenon, <1>1, <1>3, <1>7, <1>9, <1>10 DEF d

\* reconcileDeletingEtcdBackup keeps what is recorded well formed.
LEMMA DeleteBackupRecorded ==
    ASSUME Recorded, NEW r \in Requests, DeleteEtcdBackup(r)
    PROVE  Recorded'
  <1>1. /\ run' \in Runs /\ RunOK(run') /\ backups' \in {backups, [backups EXCEPT ![URL[r]] = None]}
        /\ UNCHANGED <<env, drafts, cms, cache, secrets, res, storage, uploads, asked, uploaded>>
    BY Zenon, DeleteBackupRun
  <1>2. /\ backups' \in [URLs -> Backups \cup {None}]
        /\ \A u \in URLs : backups'[u] # None => BackupOK(backups'[u])
    BY <1>1, RequestsHaveURLs DEF Recorded, TypeOK
  <1>3. run' # Idle => /\ DataOf(run'.req, run'.data) /\ run'.todo \subseteq run'.data.requests
                       /\ run'.todo # {} => LoopOK(run'.req, run'.data, run'.todo)
                       /\ run'.req \in Creates /\ run'.data.phase \in {"Completed", "PartiallyFailed"}
                          => run'.req \in uploaded
                       /\ Advances(run'.before.phase, run'.data.phase)
    BY Zenon, <1>1 DEF RunOK
  <1> QED BY Zenon, <1>1, <1>2, <1>3, Carried DEF Recorded, TypeOK

\* Reconcile, whatever it does with a request, keeps what is recorded well formed.
LEMMA ReconcileRecorded ==
    ASSUME Recorded, NEW r \in Requests, Reconcile(r)
    PROVE  Recorded'
  <1>1. CASE StartRequest(r)
    <2>1. UNCHANGED <<env, drafts, cms, cache, secrets, backups, res, storage, uploads, asked, uploaded>>
      BY <1>1 DEF StartRequest, csi, history
    <2>2. run' \in Runs /\ RunOK(run')
      BY <1>1, StartedRun
    <2> QED BY <2>1, <2>2, BegunRecorded
  <1>2. CASE ReconcileVolumes(r)
    <2>1. UNCHANGED <<env, drafts, cms, cache, secrets, backups, res, storage, uploads, asked, uploaded>>
      BY <1>2 DEF ReconcileVolumes, csi, history
    <2>2. run' \in Runs /\ RunOK(run')
      BY <1>2, VolumesRun
    <2> QED BY <2>1, <2>2, BegunRecorded
  <1> QED BY <1>1, <1>2, EndedRecorded, FinalizerRecorded, CancelRecorded, BackupRecorded, DeleteBackupRecorded
          DEF Reconcile

=============================================================================
