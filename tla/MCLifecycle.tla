------------------------------ MODULE MCLifecycle ------------------------------
(***************************************************************************)
(* Model checking Lifecycle: the scenarios a vCluster can be in.           *)
(***************************************************************************)
EXTENDS Lifecycle

CONSTANTS Scenarios     \* names of the scenarios of a run

\* An archive with a volume, and one of every kind of key.
Archive == <<Entry("release", 0), Entry("mapping", 0), Entry("pod", 0)>>
VolumeArchive ==
    <<Entry("release", 0), Entry("request", 0), Entry("pvc", 1), Entry("pvc", 2), Entry("pv", 1), Entry("pv", 2),
      Entry("pod", 0)>>

Scenario ==
    [kind |-> "statefulset", backing |-> "sqlite", archive |-> Archive, volumes |-> FALSE, private |-> FALSE,
     snapshots |-> [p \in PVCs |-> "Completed"], existing |-> {}, commands |-> {}, limit |-> MaxCommands,
     createRestores |-> FALSE, created |-> FALSE, sibling |-> FALSE,
     calls |-> FALSE, interrupts |-> FALSE, podFails |-> FALSE,
     failures |-> FALSE, csiErrors |-> FALSE, stale |-> FALSE, userDeletes |-> FALSE]

Volume == [Scenario EXCEPT !.archive = VolumeArchive, !.volumes = TRUE, !.commands = {"restore"}, !.limit = 1]
OneSnapshot(other) == [p \in PVCs |-> IF p = 1 THEN "Completed" ELSE other]

Environment(name) ==
    CASE name = "pause" -> [Scenario EXCEPT !.commands = {"pause", "resume", "restore"}, !.podFails = TRUE, !.backing = "etcd"]
      [] name = "deployment" -> [Scenario EXCEPT !.kind = "deployment", !.backing = "deployed", !.commands = {"pause", "resume", "restore"}]
      [] name = "interrupt" -> [Scenario EXCEPT !.commands = {"restore"}, !.limit = 2, !.podFails = TRUE, !.interrupts = TRUE, !.calls = TRUE]
      [] name = "create" -> [Scenario EXCEPT !.commands = {"create", "delete"}, !.limit = 2, !.createRestores = TRUE, !.podFails = TRUE, !.interrupts = TRUE, !.calls = TRUE]
      [] name = "fresh" -> [Scenario EXCEPT !.commands = {"create", "delete"}, !.createRestores = TRUE, !.created = TRUE]
      [] name = "recreate" -> [Scenario EXCEPT !.commands = {"create", "delete", "pause"}, !.created = TRUE, !.calls = TRUE]
      [] name = "sibling" -> [Scenario EXCEPT !.commands = {"create", "delete"}, !.created = TRUE, !.sibling = TRUE]
      [] name = "volumes" -> [Volume EXCEPT !.snapshots = OneSnapshot(None), !.stale = TRUE]
      [] name = "two" -> Volume
      [] name = "private" -> [Volume EXCEPT !.private = TRUE, !.backing = "deployed", !.kind = "deployment", !.csiErrors = TRUE,
                                            !.snapshots = OneSnapshot("Failed")]
      [] name = "deleted" -> [Volume EXCEPT !.snapshots = OneSnapshot("Failed"), !.userDeletes = TRUE, !.stale = TRUE]
      [] name = "failures" -> [Volume EXCEPT !.snapshots = OneSnapshot("Completed"), !.failures = TRUE, !.csiErrors = TRUE, !.existing = {2}]

MCInit == (env \in {Environment(s) : s \in Scenarios}) /\ Init
MCSpec == MCInit /\ [][Next]_vars /\ Fairness

=============================================================================
