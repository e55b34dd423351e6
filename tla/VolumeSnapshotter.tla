--------------------------- MODULE VolumeSnapshotter --------------------------
(***************************************************************************)
(* What one reconciliation of the CSI volume snapshotter does to the       *)
(* resources and the status of one PVC, and to the status of all of them   *)
(* (pkg/snapshot/volumes/csi/snapshotter.go, snapshotinprogress.go,        *)
(* snapshotdeleting.go).                                                   *)
(***************************************************************************)
EXTENDS VolumeResources

SnapshotStatus == [phase: VolumePhases, handle: Handles \cup {None}]
ASSUME NoneIsNoStatus == None \notin SnapshotStatus
InProgressStatus == [phase |-> "InProgress", handle |-> None]

\* The effect on one PVC: its resources, its status, and whether the loop over
\* the PVCs returns with an error.
Effect(res, status, error) == [res |-> res, status |-> status, error |-> error]

InPhase(status, phase) == [status EXCEPT !.phase = phase]

-----------------------------------------------------------------------------
\* reconcileInProgressPVC
InProgressPVC(res, status) ==
    LET failed(r) == Effect(r, InPhase(status, "FailedCleaningUp"), FALSE)
        same == Effect(res, status, FALSE)
        created == [res EXCEPT !.vs = ClaimSnapshot]
        content == Content(res, "dynamic")
    IN Faults({failed(res)}) \cup
       (CASE res.vs = None ->
                {Effect(created, status, FALSE)} \cup Faults({failed(created)})
          [] res.vs # None /\ res.vs.state = "unset" -> {same}
          [] res.vs # None /\ res.vs.state = "error" -> {failed(res)}
          [] res.vs # None /\ res.vs.state = "ready" /\ content = None -> {failed(res)}
          [] res.vs # None /\ res.vs.state = "ready" /\ content # None ->
                CASE content.state = "unset" -> {same}
                  [] content.state = "error" -> {failed(res)}
                  [] content.state = "ready" ->
                        {Effect(res, [phase |-> "CompletedCleaningUp",
                                      handle |-> content.handle], FALSE)})

\* The clean-up branch of reconcileInProgress.
CleanupPVC(res, status) ==
    {Effect(o.res,
            CASE o.result = "error" -> InPhase(status, VolumeFailed(status.phase))
              [] o.result = "complete" -> InPhase(status, VolumeNext(status.phase))
              [] o.result = "inProgress" -> status,
            FALSE) : o \in CleanupVolumeSnapshot(res)}

\* One turn of the loop of reconcileInProgress; status is None for a PVC that
\* has none yet.
CreateStep(res, status) ==
    LET was == IF status = None \/ status.phase = "NotStarted"
               THEN InProgressStatus ELSE status
    IN CASE was.phase = "InProgress" -> InProgressPVC(res, was)
         [] CleaningUp(was.phase) -> CleanupPVC(res, was)
         [] was.phase \in {"Completed", "Failed"} -> {Effect(res, was, FALSE)}
         [] OTHER -> {Effect(res, was, TRUE)}

\* What a loop that finds nothing to delete would do (a faulty DeleteStep).
DeleteStepInPlace(res, status, phase) ==
    IF status = None \/ ~(IsMaybeCreated(status.phase) \/ IsDeleting(status.phase))
    THEN {Effect(res, status, FALSE)}
    ELSE {Effect(o.res,
                 CASE o.result = "error" -> status
                   [] o.result = "complete" -> InPhase(status, VolumeNext(phase))
                   [] o.result = "inProgress" -> InPhase(status, phase),
                 o.result = "error")
          : o \in DeleteVolumeSnapshot(res, status.handle, FALSE)}

\* One turn of the loop of reconcileDeleting; phase is "Canceling" or "Deleting".
DeleteStep(res, status, phase) ==
    IF status = None \/ ~(IsMaybeCreated(status.phase) \/ IsDeleting(status.phase))
    THEN {Effect(res, status, FALSE)}
    ELSE LET recreate == phase = "Deleting" /\ ~IsDeleting(status.phase)
         IN {Effect(o.res,
                    CASE o.result = "error" -> status
                      [] o.result = "complete" -> InPhase(status, VolumeNext(phase))
                      [] o.result = "inProgress" -> InPhase(status, phase),
                    o.result = "error")
             : o \in DeleteVolumeSnapshot(res, status.handle, recreate)}

-----------------------------------------------------------------------------
\* The phase of the volume snapshots after the loop of reconcileInProgress over
\* the PVCs of requests (there is at least one).
CreatedPhase(requests, snapshots) ==
    LET phases == {snapshots[p].phase : p \in requests}
    IN CASE \E f \in phases : f = "InProgress" \/ CleaningUp(f) -> "InProgress"
         [] phases = {"Completed", "Failed"} -> "PartiallyFailed"
         [] phases = {"Completed"} -> "Completed"
         [] OTHER -> "Failed"

\* ... and after the loop of reconcileDeleting.
DeletedPhase(requests, snapshots, phase) ==
    IF \E p \in requests : snapshots[p] # None /\ snapshots[p].phase = phase
    THEN phase ELSE VolumeNext(phase)

=============================================================================
