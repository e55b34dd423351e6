---------------------------- MODULE SnapshotPhases ----------------------------
(***************************************************************************)
(* The phases of a snapshot request (pkg/snapshot/common.go, request.go)   *)
(* and of the volume snapshots it includes                                 *)
(* (pkg/snapshot/volumes/request.go). The empty phase is "NotStarted".     *)
(***************************************************************************)
RequestPhases ==
    {"NotStarted", "CreatingVolumeSnapshots", "CreatingEtcdBackup", "Completed",
     "PartiallyFailed", "Failed", "Canceling", "Canceled", "Deleting",
     "DeletingVolumeSnapshots", "DeletingEtcdBackup", "Deleted", "Unknown"}

VolumePhases ==
    {"NotStarted", "Skipped", "InProgress", "CompletedCleaningUp", "Completed",
     "PartiallyFailed", "Failed", "FailedCleaningUp", "Canceling", "Canceled",
     "Deleting", "Deleted", "Undefined"}

RequestNext(phase) ==
    CASE phase = "CreatingVolumeSnapshots" -> "CreatingEtcdBackup"
      [] phase = "CreatingEtcdBackup" -> "Completed"
      [] phase = "Canceling" -> "Canceled"
      [] phase = "DeletingVolumeSnapshots" -> "DeletingEtcdBackup"
      [] phase = "DeletingEtcdBackup" -> "Deleted"
      [] OTHER -> "Unknown"

RequestDone(phase) == phase \in {"Completed", "PartiallyFailed", "Failed", "Canceled"}

VolumeNext(phase) ==
    CASE phase = "NotStarted" -> "InProgress"
      [] phase = "InProgress" -> "CompletedCleaningUp"
      [] phase = "CompletedCleaningUp" -> "Completed"
      [] phase = "FailedCleaningUp" -> "Failed"
      [] phase = "Canceling" -> "Canceled"
      [] phase = "Deleting" -> "Deleted"
      [] OTHER -> "Undefined"

VolumeFailed(phase) ==
    IF phase \in {"InProgress", "CompletedCleaningUp"} THEN "FailedCleaningUp" ELSE "Failed"

CleaningUp(phase) == phase \in {"CompletedCleaningUp", "FailedCleaningUp"}

IsDeleting(phase) == phase \in {"Deleting", "Canceling"}

IsMaybeCreated(phase) ==
    phase \in {"NotStarted", "InProgress", "CompletedCleaningUp", "Completed"}

=============================================================================
