----------------------------- MODULE VolumeRestorer ----------------------------
(***************************************************************************)
(* What one reconciliation of the CSI volume restorer does to the claim,   *)
(* the resources and the phase of one PVC, and to the phase of all of them *)
(* (pkg/snapshot/volumes/csi/restorer.go, restoreinprogress.go).           *)
(*                                                                         *)
(* The restorer makes a pre-provisioned content and a VolumeSnapshot of it *)
(* under the name "<pvc>-<request>", waits for both, creates the claim     *)
(* from the VolumeSnapshot, waits for it to be bound, and removes both.    *)
(***************************************************************************)
EXTENDS VolumeResources

\* The claim it restores: there before ("old"), created by the PVC syncer
\* without a data source ("empty"), or restored from the VolumeSnapshot of a
\* request.
PVC(from, bound) == [from |-> from, bound |-> bound]

\* The effect on one PVC.
Restoring(res, claim, phase) == [res |-> res, claim |-> claim, phase |-> phase]

\* Content and VolumeSnapshot, whichever is missing, in this order.
PreProvision(res, claim, handle) ==
    LET withContent == IF res.named = None
                       THEN [res EXCEPT !.named = NamedContent(handle, "Retain")] ELSE res
        withSnapshot == IF res.vs = None
                        THEN [withContent EXCEPT !.vs = ContentSnapshot] ELSE withContent
    IN {Restoring(withSnapshot, claim, "InProgress")}
       \cup Faults({Restoring(r, claim, "FailedCleaningUp") : r \in {res, withContent, withSnapshot}})

\* reconcileInProgressPVC. Any error leads to FailedCleaningUp.
RestorePVC(request, res, claim, handle) ==
    LET in(phase) == {Restoring(res, claim, phase)}
        restored == PVC(request, FALSE)
    IN Faults(in("FailedCleaningUp")) \cup
       (CASE claim # None -> in("Skipped")
          [] claim = None /\ (res.named = None \/ res.vs = None) -> PreProvision(res, claim, handle)
          [] OTHER ->
                CASE res.vs.state = "unset" -> in("InProgress")
                  [] res.vs.state = "error" -> in("FailedCleaningUp")
                  [] res.vs.state = "ready" /\ res.named.state = "unset" -> in("InProgress")
                  [] res.vs.state = "ready" /\ res.named.state = "error" -> in("FailedCleaningUp")
                  [] res.vs.state = "ready" /\ res.named.state = "ready" ->
                        {Restoring(res, restored, "CompletedCleaningUp")}
                        \cup Faults({Restoring(res, restored, "FailedCleaningUp")}))

\* Not waiting for the claim to be bound (a faulty CleanupRestore).
CleanupRestoreAtOnce(res, claim, phase) ==
    {Restoring(o.res, claim, CASE o.result = "error" -> VolumeFailed(phase)
                               [] o.result = "complete" -> VolumeNext(phase)
                               [] o.result = "inProgress" -> phase)
     : o \in CleanupVolumeSnapshot(res)}

\* The clean-up branch of reconcileInProgress.
CleanupRestore(res, claim, phase) ==
    CASE phase = "CompletedCleaningUp" /\ claim = None -> {Restoring(res, claim, VolumeFailed(phase))}
      [] phase = "CompletedCleaningUp" /\ claim # None /\ ~claim.bound ->
            {Restoring(res, claim, phase)} \cup Faults({Restoring(res, claim, VolumeFailed(phase))})
      [] OTHER ->
            {Restoring(o.res, claim, CASE o.result = "error" -> VolumeFailed(phase)
                                       [] o.result = "complete" -> VolumeNext(phase)
                                       [] o.result = "inProgress" -> phase)
             : o \in CleanupVolumeSnapshot(res)}

\* One turn of the loop of reconcileInProgress.
RestoreStep(request, res, claim, phase, handle) ==
    CASE phase \in {"NotStarted", "InProgress"} -> RestorePVC(request, res, claim, handle)
      [] CleaningUp(phase) -> CleanupRestore(res, claim, phase)
      [] OTHER -> {Restoring(res, claim, phase)}

\* The phase of the volumes after the loop; without any PVC it is an error, and
\* the deferred function sets Failed.
RestoredPhase(phases) ==
    CASE \E f \in phases : f = "InProgress" \/ CleaningUp(f) -> "InProgress"
      [] "Completed" \in phases /\ "Failed" \in phases -> "PartiallyFailed"
      [] "Completed" \in phases /\ "Failed" \notin phases -> "Completed"
      [] phases \subseteq {"Failed", "Skipped"} /\ "Failed" \in phases -> "Failed"
      [] phases = {"Skipped"} -> "Skipped"
      [] OTHER -> "Failed"

=============================================================================
