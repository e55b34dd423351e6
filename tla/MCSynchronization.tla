-------------------------- MODULE MCSynchronization --------------------------
(***************************************************************************)
(* Scenarios: which kinds, and how often users, the host cluster, failures *)
(* and restarts may act.                                                   *)
(***************************************************************************)
EXTENDS Synchronization

Never == [creates |-> 0, edits |-> 0, deletes |-> 0, switches |-> 0, hostCreates |-> 0,
          hostEdits |-> 0, hostDeletes |-> 0, failures |-> 0, lags |-> 0, crashes |-> 0,
          toggles |-> 0, cleanups |-> 0, services |-> 0, conversions |-> 0, calm |-> 0]

Of(kinds, budget) == [kind : kinds, left : {budget @@ Never}]

ToHost ==
    {"configMap", "secret", "networkPolicy", "podDisruptionBudget", "endpoints",
     "endpointSlice", "serviceAccount", "storageClass", "ingress", "namespace",
     "priorityClassToHost", "priorityClassBoth", "persistentVolumeClaim",
     "persistentVolume", "volumeSnapshot", "volumeSnapshotContent", "pod"}

(* Kinds whose syncers are line by line those of another kind. *)
Twins == {"secret", "podDisruptionBudget", "endpointSlice", "runtimeClass",
          "hostStorageClass", "volumeSnapshotClass"}

Distinct == ToHost \ Twins

(* Users act; a call fails, an informer is late, the syncer restarts. *)
Faults ==
    Of(ToHost, [creates |-> 1, edits |-> 1, deletes |-> 1, failures |-> 1, crashes |-> 1])

Late == Of(ToHost, [creates |-> 1, edits |-> 1, deletes |-> 1, lags |-> 1])

(* Users and the host act on the same object. *)
Contended ==
    Of(Distinct \ Lingering, [creates |-> 1, edits |-> 1, hostEdits |-> 1, hostDeletes |-> 1])
    \cup Of(Lingering, [creates |-> 1, edits |-> 1, hostDeletes |-> 1])
    \cup Of(Lingering, [creates |-> 1, deletes |-> 1, hostEdits |-> 1])

(* An object is deleted and created again under its name. *)
Reused ==
    Of(Distinct \cup {"service"}, [creates |-> 2, deletes |-> 1, cleanups |-> 1])
    \cup Of(Distinct \cup {"service"}, [creates |-> 2, hostDeletes |-> 1])

(* One side edits, the other does not, nothing fails. *)
Calm ==
    Of(Distinct \cup {"service"}, [creates |-> 1, edits |-> 2, calm |-> 1])
    \cup Of(Distinct \cup {"service"}, [creates |-> 1, hostEdits |-> 2, calm |-> 1])

Mirrored ==
    Of(FollowsHost, [hostCreates |-> 1, hostEdits |-> 1, hostDeletes |-> 1, failures |-> 1,
                     crashes |-> 1])
    \cup Of(FollowsHost \ Twins, [hostCreates |-> 2, hostDeletes |-> 1, edits |-> 1, lags |-> 1])

Used ==
    Of(Watching \cup Blocking, [creates |-> 1, toggles |-> 2, deletes |-> 1])
    \cup Of(Watching \cup Blocking, [hostCreates |-> 1, toggles |-> 2, hostDeletes |-> 1])

Services ==
    Of({"service"}, [services |-> 1, edits |-> 1, deletes |-> 1])
    \cup Of({"service"}, [services |-> 1, deletes |-> 1, failures |-> 1])
    \cup Of({"service"}, [services |-> 1, hostEdits |-> 1])
    \cup Of({"service"}, [services |-> 1, crashes |-> 1, lags |-> 1])
    \cup Of({"service"}, [services |-> 1, conversions |-> 1, deletes |-> 1])
    \cup Of({"service"}, [services |-> 1, switches |-> 1, deletes |-> 1])

Everything ==
    Faults \cup Late \cup Contended \cup Reused \cup Calm \cup Mirrored \cup Used \cup Services

(* A user edits a service before its first synchronisation has succeeded. *)
Reverted == Of({"service"}, [services |-> 1, edits |-> 1, failures |-> 1])
=============================================================================
