------------------------------- MODULE Lifecycle -------------------------------
(***************************************************************************)
(* The commands that stop, start, restore, create and delete a vCluster    *)
(* (pkg/cli/*_helm.go, pkg/lifecycle/lifecycle.go, pkg/cli/find/find.go,   *)
(* pkg/snapshot/pod/pod.go), composed with the restore pod, the store and  *)
(* the restore controller.                                                 *)
(*                                                                         *)
(* One user runs one command after the other. A command is a sequence of   *)
(* API calls (cmd.at), any of which may fail, and it may be interrupted    *)
(* between two of them. The workload controllers run beside it.            *)
(***************************************************************************)
EXTENDS RestoreClient

CONSTANTS
    Replicas,       \* replicas of the control plane
    MaxCommands     \* bound on the commands that are run

ASSUME ReplicasArePositive == Replicas \in Nat \ {0} /\ MaxCommands \in Nat

VARIABLES
    workloads,  \* the StatefulSet or Deployments of the vCluster, by part
    leaving,    \* the workloads whose pods are left from one that was deleted
    volumes,    \* the data PVCs, by ordinal
    release,    \* whether the Helm release is deployed
    quota,      \* whether the restore resource quota exists
    namespace,  \* the namespace of the vCluster
    serving,    \* whether the control plane has started
    guests,     \* whether host pods of the vCluster run
    cmd,        \* the command that runs
    count,      \* commands so far
    last,       \* history: the last command, if it succeeded
    broken,     \* history: a command was interrupted, or failed
    revived,    \* history: a paused vCluster has been restored
    wiped       \* history: the vCluster was deleted and has not started since

cluster == <<workloads, pods, leaving, volumes, release, quota, namespace>>
history == <<count, last, broken, revived, wiped>>
vars == <<env, restoring, storage, cluster, serving, guests, cmd, history>>

Workloads == [replicas: 0..Replicas, paused: BOOLEAN, restoring: BOOLEAN, saved: 0..Replicas]
Volumes == [labelled: BOOLEAN, deleting: BOOLEAN]

\* The PVCs data-<name>-0, data-<name>-1 ... and data-<name>-etcd-0, which holds
\* the store of a deployed etcd.
Ordinals == 0..(Replicas - 1)
Etcd == -1
HasTemplate == env.kind = "statefulset" /\ Embedded
Commands == [do: {"pause", "resume", "restore", "create", "delete"}, new: BOOLEAN, isRestore: BOOLEAN,
             at: {"find", "down", "await", "guests", "pvcs", "quota", "pod", "wait", "remove", "up",
                  "release", "resume", "limit", "install", "uninstall", "undo", "unlimit", "data", "namespace"},
             todo: Seq(Parts), failed: BOOLEAN]

Deployed(n) == [replicas |-> n, paused |-> FALSE, restoring |-> FALSE, saved |-> 0]
Chart == [p \in Parts |-> IF p = "main" THEN Deployed(Replicas)
                          ELSE IF p = "etcd" /\ env.backing = "deployed" THEN Deployed(1) ELSE None]
Labelled == [labelled |-> TRUE, deleting |-> FALSE]

IsPaused(w) == w.paused \/ w.restoring
Wanted(part) == IF workloads[part] = None THEN 0 ELSE workloads[part].replicas

\* findInContext: it leaves out a StatefulSet without replicas that was not paused.
Found ==
    /\ workloads["main"] # None
    /\ env.kind = "statefulset" => workloads["main"].replicas > 0 \/ workloads["main"].paused

Init ==
    /\ RestoringInit
    /\ StorageInit
    /\ workloads = Chart
    /\ pods = [p \in Parts |-> Wanted(p)] /\ leaving = {}
    /\ volumes = [o \in Ordinals \cup {Etcd} |->
                    IF (o = Etcd /\ env.backing = "deployed") \/ (o # Etcd /\ HasTemplate)
                    THEN Labelled ELSE None]
    /\ release = TRUE /\ quota = FALSE
    /\ namespace = [exists |-> TRUE, created |-> env.created, deleting |-> FALSE]
    /\ serving = FALSE /\ guests = FALSE
    /\ cmd = None /\ count = 0 /\ last = None
    /\ broken = FALSE /\ revived = FALSE /\ wiped = FALSE

-----------------------------------------------------------------------------
(* How a command goes on.                                                    *)

Goto(at) == cmd' = [cmd EXCEPT !.at = at]
Step(at) == cmd # None /\ cmd.at = at

Begin(do) ==
    /\ cmd = None /\ count < env.limit
    /\ do \in env.commands
    /\ cmd' = [do |-> do, new |-> FALSE, isRestore |-> do = "restore",
               at |-> IF do = "create" THEN "release" ELSE "find", todo |-> <<>>, failed |-> FALSE]
    /\ count' = count + 1
    /\ last' = None
    /\ UNCHANGED <<env, restoring, storage, cluster, serving, guests, broken, revived, wiped>>

\* The command returns.
Finish(failed) ==
    /\ cmd' = None
    /\ last' = IF failed THEN None ELSE cmd.do

\* restoreVCluster returns: create then removes what it could not restore, and
\* its quota.
Restored(failed) ==
    IF cmd.new THEN cmd' = [cmd EXCEPT !.at = IF failed THEN "undo" ELSE "unlimit", !.failed = failed]
                    /\ UNCHANGED last
    ELSE Finish(failed)

\* An error: before the restore pod the vCluster is left as it is.
Abort ==
    CASE cmd.do \in {"restore", "create"} /\ cmd.at \in {"find", "down", "await", "guests", "pvcs", "quota"} ->
            Restored(TRUE)
      [] cmd.at \in {"pod", "wait"} -> cmd' = [cmd EXCEPT !.at = "remove", !.failed = TRUE] /\ UNCHANGED last
      [] cmd.at = "up" /\ cmd.isRestore -> Restored(cmd.failed)
      [] cmd.at = "resume" -> Goto("find") /\ UNCHANGED last
      [] cmd.at = "install" /\ cmd.new -> cmd' = [cmd EXCEPT !.at = "unlimit", !.failed = TRUE] /\ UNCHANGED last
      [] cmd.at = "undo" -> Goto("unlimit") /\ UNCHANGED last
      [] OTHER -> Finish(TRUE)

\* All workloads of a vCluster, in the order of PauseVCluster and ResumeVCluster.
Chain(withEtcd) ==
    IF env.kind = "statefulset" THEN <<"main">>
    ELSE <<"main", "api", "controller">> \o (IF withEtcd THEN <<"etcd">> ELSE <<>>)

ScaleDownAll == cmd' = [cmd EXCEPT !.at = "down", !.todo = Chain(~cmd.isRestore)]
ScaleUpAll == cmd' = [cmd EXCEPT !.at = "up", !.todo = Chain(TRUE)]

\* GetVCluster.
Find ==
    /\ Step("find")
    /\ IF Found
       THEN /\ CASE cmd.do = "resume" -> ScaleUpAll
                 [] cmd.do = "delete" -> Goto("uninstall")
                 [] OTHER -> ScaleDownAll
            /\ revived' = (revived \/ (cmd.isRestore /\ workloads["main"].paused))
            /\ UNCHANGED last
       ELSE Abort /\ UNCHANGED revived
    /\ UNCHANGED <<env, restoring, storage, cluster, serving, guests, count, broken, wiped>>

-----------------------------------------------------------------------------
(* PauseVCluster                                                             *)

NextPart(at) == cmd' = [cmd EXCEPT !.at = at, !.todo = Tail(@)]

\* The patch of scaleDownStatefulSet and scaleDownDeployment.
Patched(w) ==
    IF IsPaused(w) \/ w.replicas = 0 THEN w
    ELSE [w EXCEPT !.replicas = 0, !.saved = w.replicas,
                   !.paused = @ \/ ~cmd.isRestore, !.restoring = @ \/ cmd.isRestore]

ScaleDown ==
    /\ Step("down")
    /\ IF cmd.todo = <<>> THEN Goto("guests") /\ UNCHANGED <<workloads, last>>
       ELSE LET part == Head(cmd.todo)
                w == workloads[part]
            IN IF w = None
               THEN /\ IF part = "main" THEN Abort ELSE NextPart("down") /\ UNCHANGED last
                    /\ UNCHANGED workloads
               ELSE /\ workloads' = [workloads EXCEPT ![part] = Patched(w)]
                    /\ IF Patched(w) = w THEN NextPart("down") ELSE Goto("await")
                    /\ UNCHANGED last
    /\ UNCHANGED <<env, restoring, storage, pods, leaving, volumes, release, quota, namespace, serving, guests, count, broken, revived, wiped>>

\* Going on at once before a restore (a faulty AwaitScaledDown).
GoOnRestoring ==
    /\ Step("await")
    /\ cmd.isRestore \/ pods[Head(cmd.todo)] = 0 \/ Head(cmd.todo) \in leaving
    /\ NextPart("down")
    /\ UNCHANGED <<env, restoring, storage, cluster, serving, guests, history>>

\* It polls until no pod is left.
AwaitScaledDown ==
    /\ Step("await")
    /\ pods[Head(cmd.todo)] = 0 \/ Head(cmd.todo) \in leaving
    /\ NextPart("down")
    /\ UNCHANGED <<env, restoring, storage, cluster, serving, guests, history>>

\* DeletePods and DeleteMultiNamespaceVClusterWorkloads.
DeletePods ==
    /\ Step("guests")
    /\ guests' = FALSE
    /\ IF cmd.isRestore THEN Goto("pvcs") /\ UNCHANGED last ELSE Finish(FALSE)
    /\ UNCHANGED <<env, restoring, storage, cluster, serving, count, broken, revived, wiped>>

-----------------------------------------------------------------------------
(* restoreVCluster                                                           *)

\* ensurePVCs: it finds PVCs by label and creates one without labels, which fails
\* if there is one of the name.
EnsurePVCs ==
    /\ Step("pvcs")
    /\ LET listed == {o \in Ordinals : volumes[o] # None /\ volumes[o].labelled}
       IN IF HasTemplate /\ listed = {}
          THEN IF volumes[0] # None THEN Abort /\ UNCHANGED volumes
               ELSE /\ volumes' = [volumes EXCEPT ![0] = [labelled |-> FALSE, deleting |-> FALSE]]
                    /\ Goto("quota") /\ UNCHANGED last
          ELSE /\ volumes' = [o \in Ordinals \cup {Etcd} |->
                     IF HasTemplate /\ Cardinality(listed) > 1 /\ o \in listed \ {0} THEN [volumes[o] EXCEPT !.deleting = TRUE]
                     ELSE volumes[o]]
               /\ Goto("quota") /\ UNCHANGED last
    /\ UNCHANGED <<env, restoring, storage, workloads, pods, leaving, release, quota, namespace, serving, guests, count, broken, revived, wiped>>

DeleteQuota ==
    /\ Step("quota")
    /\ quota' = FALSE
    /\ Goto("pod")
    /\ UNCHANGED <<env, restoring, storage, workloads, pods, leaving, volumes, release, namespace, serving, guests, history>>

\* CreateSnapshotPod. A pod that an interrupted command left running ends before
\* the next one is created: a bound of the model, not of the code.
CreatePod ==
    /\ Step("pod") /\ ~PodRunning
    /\ pod' = NewPod(cmd.new, env.volumes /\ cmd.do = "restore")
    /\ Goto("wait")
    /\ UNCHANGED <<env, restoring, live, backup, watched, torn, cluster, serving, guests, history>>

\* A pod does not start without its volume.
Startable == HasTemplate /\ At("revision") => volumes[0] # None /\ ~volumes[0].deleting

\* Waiting for the pod to succeed (a faulty WaitForPod).
WaitForSuccess ==
    /\ Step("wait") /\ At("succeeded")
    /\ Goto("remove")
    /\ UNCHANGED <<env, restoring, storage, cluster, serving, guests, history>>

\* The pod has ended, and RunSnapshotPod looks at its exit code; or it has waited
\* too long for one that does not start.
WaitForPod ==
    /\ Step("wait")
    /\ PodRunning => ~Startable
    /\ cmd' = [cmd EXCEPT !.at = "remove", !.failed = ~At("succeeded")]
    /\ UNCHANGED <<env, restoring, storage, cluster, serving, guests, history>>

\* A pod that is deleted while it runs does not get to revert.
KilledPod ==
    /\ pod' = None
    /\ torn' = (torn \/ (PodRunning /\ Startable))

\* The deferred functions: the pod is deleted, and the vCluster scaled up.
RemovePod ==
    /\ Step("remove")
    /\ KilledPod
    /\ ScaleUpAll
    /\ UNCHANGED <<env, restoring, live, backup, watched, cluster, serving, guests, history>>

-----------------------------------------------------------------------------
(* ResumeVCluster                                                            *)

\* The patch of scaleUpStatefulSet and scaleUpDeployment.
Unpaused(w, isRestore) ==
    [w EXCEPT !.replicas = IF w.saved = 0 THEN 1 ELSE w.saved, !.saved = 0,
              !.paused = @ /\ isRestore, !.restoring = @ /\ ~isRestore]

\* A resume returns without an error; that of a restore only reports one.
Resumed(failed) ==
    CASE cmd.at = "resume" -> Goto("find") /\ UNCHANGED last
      [] cmd.at = "up" /\ cmd.isRestore -> Restored(cmd.failed)
      [] OTHER -> Finish(failed)

ScaleUp ==
    /\ Step("up") \/ Step("resume")
    /\ IF cmd.todo = <<>> THEN Resumed(FALSE) /\ UNCHANGED workloads
       ELSE LET part == Head(cmd.todo)
                w == workloads[part]
            IN IF w = None \/ ~IsPaused(w)
               THEN /\ IF part = "main" THEN Resumed(TRUE) ELSE NextPart(cmd.at) /\ UNCHANGED last
                    /\ UNCHANGED workloads
               ELSE /\ workloads' = [workloads EXCEPT ![part] = Unpaused(w, cmd.isRestore)]
                    /\ NextPart(cmd.at) /\ UNCHANGED last
    /\ UNCHANGED <<env, restoring, storage, pods, leaving, volumes, release, quota, namespace, serving, guests, count, broken, revived, wiped>>

-----------------------------------------------------------------------------
(* CreateHelm with --restore or without, and DeleteHelm                      *)

\* ensureNamespace waits for a namespace to terminate; then the release counts.
LookUpRelease ==
    /\ Step("release")
    /\ ~namespace.deleting
    /\ namespace' = IF namespace.exists THEN namespace ELSE [exists |-> TRUE, created |-> TRUE, deleting |-> FALSE]
    /\ IF release
       THEN IF env.createRestores
            THEN /\ cmd' = [cmd EXCEPT !.isRestore = TRUE, !.at = "resume", !.todo = Chain(TRUE)]
                 /\ UNCHANGED last
            ELSE Finish(TRUE)
       ELSE /\ cmd' = [cmd EXCEPT !.isRestore = env.createRestores, !.new = env.createRestores,
                                  !.at = IF env.createRestores THEN "limit" ELSE "install"]
            /\ UNCHANGED last
    /\ UNCHANGED <<env, restoring, storage, workloads, pods, leaving, volumes, release, quota, serving, guests, count, broken, revived, wiped>>

CreateQuota ==
    /\ Step("limit")
    /\ quota' = TRUE
    /\ Goto("install")
    /\ UNCHANGED <<env, restoring, storage, workloads, pods, leaving, volumes, release, namespace, serving, guests, history>>

\* helm upgrade --install.
Install ==
    /\ Step("install")
    /\ release' = TRUE
    /\ workloads' = [p \in Parts |-> IF workloads[p] = None THEN Chart[p] ELSE workloads[p]]
    /\ IF cmd.new THEN Goto("find") /\ UNCHANGED last ELSE Finish(FALSE)
    /\ UNCHANGED <<env, restoring, storage, pods, leaving, volumes, quota, namespace, serving, guests, count, broken, revived, wiped>>

\* helm delete; the pods stop later.
Uninstall ==
    /\ Step("uninstall") \/ Step("undo")
    /\ release' = FALSE
    /\ workloads' = [p \in Parts |-> None]
    /\ leaving' = {p \in Parts : pods[p] > 0}
    /\ Goto(IF cmd.at = "undo" THEN "unlimit" ELSE "data")
    /\ UNCHANGED <<env, restoring, storage, pods, volumes, quota, namespace, serving, guests, history>>

\* The deferred function of deployChart.
Unlimit ==
    /\ Step("unlimit")
    /\ quota' = FALSE
    /\ Finish(cmd.failed)
    /\ UNCHANGED <<env, restoring, storage, workloads, pods, leaving, volumes, release, namespace, serving, guests, count, broken, revived, wiped>>

\* The PVCs are left to the namespace if that will be deleted.
DeleteData ==
    /\ Step("data")
    /\ volumes' = [o \in Ordinals \cup {Etcd} |->
                     IF o \in {0, Etcd} /\ volumes[o] # None /\ ~namespace.created
                     THEN [volumes[o] EXCEPT !.deleting = TRUE] ELSE volumes[o]]
    /\ Goto("namespace")
    /\ UNCHANGED <<env, restoring, storage, workloads, pods, leaving, release, quota, namespace, serving, guests, history>>

\* A namespace vcluster created goes with the last vCluster in it.
DeleteNamespace ==
    /\ Step("namespace")
    /\ IF namespace.created /\ ~env.sibling
       THEN /\ namespace' = [namespace EXCEPT !.deleting = TRUE]
            /\ volumes' = [o \in Ordinals \cup {Etcd} |->
                              IF volumes[o] = None THEN None ELSE [volumes[o] EXCEPT !.deleting = TRUE]]
            /\ quota' = FALSE /\ guests' = FALSE
            /\ requests' = [r \in Restores |-> IF Exists(r) THEN Removed(requests[r]) ELSE requests[r]]
            /\ cache' = requests'
            /\ secrets' = {}
            /\ claims' = [p \in PVCs |-> None]
       ELSE UNCHANGED <<namespace, volumes, quota, guests, requests, cache, secrets, claims>>
    /\ Finish(FALSE)
    /\ wiped' = TRUE
    /\ UNCHANGED <<env, run, res, virtual, backend, storage, workloads, pods, leaving, release, serving, count, broken, revived>>

-----------------------------------------------------------------------------
(* What goes wrong with a command.                                           *)

\* A call of the command fails, or a wait of its times out. helm may have created
\* the workloads by then.
FailStep ==
    /\ env.calls
    /\ cmd # None
    /\ Abort
    /\ workloads' \in {workloads, IF cmd.at = "install" THEN Chart ELSE workloads}
    /\ broken' = TRUE
    /\ UNCHANGED <<env, restoring, storage, pods, leaving, volumes, release, quota, namespace, serving, guests, count, revived, wiped>>

\* The user interrupts it. The handlers delete the quota and the restore pod, but
\* in a create the first of them to be done ends the process.
Interrupt ==
    /\ env.interrupts
    /\ cmd # None
    /\ IF cmd.at = "wait" THEN KilledPod \/ (cmd.new /\ UNCHANGED <<pod, torn>>) ELSE UNCHANGED <<pod, torn>>
    /\ quota' = (quota /\ ~cmd.new)
    /\ cmd' = None /\ last' = None
    /\ broken' = TRUE
    /\ UNCHANGED <<env, restoring, live, backup, watched, workloads, pods, leaving, volumes, release, namespace, serving, guests, count, revived, wiped>>

-----------------------------------------------------------------------------
(* The workload controllers (external), and the control plane.               *)

ScalePods(p) ==
    LET n == IF p \in leaving THEN 0 ELSE Wanted(p)
        stops == p = "main" /\ n = 0
    IN /\ pods[p] # n
       /\ n > 0 => ~quota
       /\ p = "main" /\ HasTemplate => \A o \in 0..(n - 1) : volumes[o] # None /\ ~volumes[o].deleting
       /\ pods' = [pods EXCEPT ![p] = n]
       /\ leaving' = leaving \ {p}
       /\ serving' = (serving /\ ~stops)
       /\ run' = IF stops THEN None ELSE run
       /\ UNCHANGED <<env, requests, cache, secrets, res, claims, virtual, backend, storage,
                      workloads, volumes, release, quota, namespace, guests, cmd, history>>

CreateVolume(o) ==
    /\ volumes[o] = None
    /\ IF o = Etcd THEN Wanted("etcd") > 0 ELSE HasTemplate /\ o < Wanted("main")
    /\ volumes' = [volumes EXCEPT ![o] = Labelled]
    /\ UNCHANGED <<env, restoring, storage, workloads, pods, leaving, release, quota, namespace, serving, guests, cmd, history>>

\* A PVC is removed when no pod uses it any more.
RemoveVolume(o) ==
    /\ volumes[o] # None /\ volumes[o].deleting
    /\ pods[IF o = Etcd THEN "etcd" ELSE "main"] = 0
    /\ o = 0 => pod = None
    /\ volumes' = [volumes EXCEPT ![o] = None]
    /\ IF o \in {0, Etcd} THEN live' = None /\ backup' = None /\ watched' = 0
       ELSE UNCHANGED <<live, backup, watched>>
    /\ UNCHANGED <<env, restoring, pod, torn, workloads, pods, leaving, release, quota, namespace, serving, guests, cmd, history>>

RemoveNamespace ==
    /\ namespace.deleting
    /\ \A p \in Parts : pods[p] = 0
    /\ \A o \in DOMAIN volumes : volumes[o] = None
    /\ \A r \in Restores : ~Exists(r)
    /\ namespace' = [exists |-> FALSE, created |-> FALSE, deleting |-> FALSE]
    /\ UNCHANGED <<env, restoring, storage, workloads, pods, leaving, volumes, release, quota, serving, guests, cmd, history>>

StartControlPlane ==
    /\ pods["main"] > 0 /\ "main" \notin leaving /\ ~serving
    /\ StoreUp
    /\ Start
    /\ serving' = TRUE
    /\ wiped' = FALSE
    /\ UNCHANGED <<env, cluster, guests, cmd, count, last, broken, revived>>

CrashControlPlane ==
    /\ env.failures
    /\ serving
    /\ serving' = FALSE
    /\ run' = None
    /\ UNCHANGED <<env, requests, cache, secrets, res, claims, virtual, backend, storage, cluster, guests, cmd, history>>

WriteStore ==
    /\ serving /\ StoreUp /\ live # None
    /\ Write
    /\ UNCHANGED <<env, cluster, serving, guests, cmd, history>>

SyncGuests ==
    /\ serving /\ ~guests
    /\ guests' = TRUE
    /\ UNCHANGED <<env, restoring, storage, cluster, serving, cmd, history>>

-----------------------------------------------------------------------------
Command ==
    \/ Find \/ ScaleDown \/ AwaitScaledDown \/ DeletePods
    \/ EnsurePVCs \/ DeleteQuota \/ CreatePod \/ WaitForPod \/ RemovePod \/ ScaleUp
    \/ LookUpRelease \/ CreateQuota \/ Install \/ Uninstall \/ Unlimit \/ DeleteData \/ DeleteNamespace

Platform ==
    \/ \E p \in Parts : ScalePods(p)
    \/ \E o \in Ordinals \cup {Etcd} : CreateVolume(o) \/ RemoveVolume(o)
    \/ RemoveNamespace

RunPod ==
    /\ Startable
    /\ PodStep
    /\ UNCHANGED <<env, cluster, serving, guests, cmd, history>>

Controller(A) == serving /\ A /\ UNCHANGED <<env, storage, cluster, serving, guests, cmd, history>>
Storage(A) == A /\ UNCHANGED <<env, storage, cluster, serving, guests, cmd, history>>
RunController == Controller(ControllerStep)
RunStorage == Storage(StorageStep)

Next ==
    \/ \E do \in {"pause", "resume", "restore", "create", "delete"} : Begin(do)
    \/ Command \/ FailStep \/ Interrupt
    \/ Platform \/ StartControlPlane \/ CrashControlPlane \/ WriteStore \/ SyncGuests
    \/ RunPod \/ RunController \/ RunStorage

\* Everything that runs makes progress: the command that was started, the restore
\* pod, the workload controllers, the worker, its informer, the syncer of each
\* PVC, and the CSI controller. A user need not start a command.
Fairness ==
    /\ WF_vars(Command) /\ WF_vars(Platform) /\ WF_vars(StartControlPlane) /\ WF_vars(RunPod)
    /\ WF_vars(RunController)
    /\ \A r \in Restores : WF_vars(Controller(Observe(r)))
    /\ \A p \in PVCs : WF_vars(Controller(SyncClaim(p))) /\ WF_vars(Storage(BindClaim(p)))
    /\ \A r \in Restores, p \in PVCs : WF_vars(Storage(CSI(r, p)))

Spec == Init /\ [][Next]_vars /\ Fairness

-----------------------------------------------------------------------------
(* Properties.                                                               *)

\* Every variable has its type.
TypeOK ==
    /\ requests \in [Restores -> ConfigMaps \cup {None, Gone}]
    /\ cache \in [Restores -> ConfigMaps \cup {None, Gone}]
    /\ secrets \subseteq Restores
    /\ run \in Runs \cup {None}
    /\ res \in [Restores -> [PVCs -> Resources]]
    /\ claims \in [PVCs -> Claims \cup {None}]
    /\ virtual \subseteq PVCs /\ backend \subseteq PVCs
    /\ live \in Stores \cup {None} /\ backup \in Stores \cup {None}
    /\ pod \in RestorePods \cup {None}
    /\ watched \in Nat /\ torn \in BOOLEAN
    /\ workloads \in [Parts -> Workloads \cup {None}]
    /\ pods \in [Parts -> 0..Replicas] /\ leaving \subseteq Parts
    /\ volumes \in [Ordinals \cup {Etcd} -> Volumes \cup {None}]
    /\ release \in BOOLEAN /\ quota \in BOOLEAN
    /\ namespace \in [exists: BOOLEAN, created: BOOLEAN, deleting: BOOLEAN]
    /\ serving \in BOOLEAN /\ guests \in BOOLEAN
    /\ cmd \in Commands \cup {None}
    /\ count \in 0..MaxCommands /\ {broken, revived, wiped} \subseteq BOOLEAN

\* The control plane that is installed serves clients.
Serving == serving /\ "main" \notin leaving

\* A client that watches the vCluster never finds it at a revision before one it
\* has seen, whatever fails in a restore: newRestoreEtcdClient carries the
\* revision over to the new store, and puts the old one back after an error. A
\* pod that is killed can do neither, and one that works beside a control plane
\* loses what that writes (torn).
RevisionNotDecreasing == Serving /\ ~torn => live.rev >= watched

\* A control plane with an embedded store serves the store from before a restore
\* or all of the snapshot, never a part of it and never both: Run reverts before
\* the pod ends, and the vCluster is scaled up only then.
AllOrNothing ==
    LET has(kind) == \E e \in live.keys : e.kind = kind
        restorable(kind) == \E i \in DOMAIN env.archive : env.archive[i].kind = kind
    IN Serving /\ Embedded /\ ~torn =>
         /\ has("release") /\ restorable("pod") => has("pod") /\ ~has("old")
         /\ has("pod") => has("release")

\* After a restore that failed the store is what it was before, with every key
\* and at its revision (revertBackup).
FailedRestoreReverts ==
    Embedded /\ ~torn /\ At("failed") /\ ~serving => live = pod.before

\* The restore pod works on a store no control plane uses: pauseVCluster waits
\* for the pods of the vCluster to stop, and a new vCluster is held back by the
\* quota. It does not wait for the pods of a vCluster of that name which helm has
\* just deleted.
RestoreAlone == PodRunning /\ Startable /\ ~broken => pods["main"] = 0 \/ "main" \in leaving

\* ... which is not so for a vCluster that was restored while it was paused: it
\* runs and still counts as paused.
RestoreAloneUnlessRevived == ~revived => RestoreAlone

\* Only the first member has data when the pod restores it, so that the others
\* join it (ensurePVCs deletes their volumes).
OneMember ==
    HasTemplate /\ ~broken /\ ~revived /\ volumes[0] # None /\ volumes[0].labelled /\ cmd # None /\ cmd.at \in {"pod", "wait"} =>
        \A o \in Ordinals \ {0} : volumes[o] = None \/ volumes[o].deleting

\* Once a pause has returned, nothing of the vCluster runs (PauseVCluster stops
\* the syncer before it deletes what the syncer created).
PausedIsQuiet ==
    last = "pause" /\ ~broken /\ ~revived => pods["main"] = 0 /\ ~serving /\ ~guests

\* Between commands a vCluster is paused in all its workloads or in none, and has
\* the replicas it was installed with or has them saved: however pauses, resumes
\* and restores follow each other, and also when a restore failed.
ReplicasKept ==
    LET parts == {p \in Parts : workloads[p] # None /\ p \in Range(Chain(TRUE))}
    IN cmd = None /\ ~broken /\ ~revived /\ (HasTemplate => volumes[0] = None \/ volumes[0].labelled) =>
         \/ \A p \in parts : workloads[p] = Chart[p]
         \/ \A p \in parts : workloads[p] = [Chart[p] EXCEPT !.replicas = 0, !.paused = TRUE,
                                                            !.saved = Chart[p].replicas]

\* A vCluster that is installed after a delete has returned does not start with
\* the objects of the one that was deleted: DeleteHelm has deleted the volume, or
\* the namespace it is in. It leaves the volume to a namespace it created, which
\* another vCluster may keep.
FreshAfterDelete ==
    wiped /\ ~wiped' /\ ~(env.created /\ env.sibling) => OldKeys \cap live'.keys = {}

\* A restore that got as far as the pod ends with the vCluster running again,
\* whether or not the pod succeeded: restoreVCluster defers the resume. Only a
\* failure of that resume, an interrupt or the next command prevents it.
ComesBack ==
    (Step("wait") /\ ~cmd.new) ~> (serving \/ broken \/ Step("down") \/ Step("uninstall"))

\* Where no call fails, the restore controller finishes every request while the
\* control plane runs: the steps on its PVCs, the clean-up and the CSI controller
\* do not wait for each other.
RequestsFinish ==
    \A r \in Restores :
        (Exists(r) /\ serving /\ ~env.failures) ~> (~serving \/ (Exists(r) => Done(requests[r].data.phase)))

\* ... and every PVC the restored virtual cluster has then gets a bound claim,
\* either from the snapshot or, after a restore that failed, an empty one: the PVC
\* syncer does not wait for ever for a request.
ClaimsComeBack ==
    \A p \in PVCs :
        (serving /\ p \in virtual /\ ~env.failures) ~> (~serving \/ (claims[p] # None /\ claims[p].bound))

\* The store that serves clients is whole, and no older than what they have seen
\* of it (newRestoreEtcdClient, Run, revertBackup).
StoreIsWhole == RevisionNotDecreasing /\ AllOrNothing /\ FailedRestoreReverts

\* The commands leave the vCluster's workloads and volumes as the next one expects
\* them (pauseVCluster, ensurePVCs, PauseVCluster, ResumeVCluster).
CommandsHandOver == RestoreAloneUnlessRevived /\ OneMember /\ PausedIsQuiet /\ ReplicasKept

\* Restoring volumes loses neither a snapshot nor a claim, and reports only what
\* it has done (the restore handlers of the CSI volumes).
VolumesRestored == SnapshotKeptWhileBinding /\ CompletedIsRestored /\ BackendKept

\* No step hands out the wrong data: an empty volume where one is being restored,
\* or the store of a vCluster that was deleted (PVC syncer, DeleteHelm).
NoWrongData == [][NoEmptyVolume /\ FreshAfterDelete]_vars

\* A restore ends: the vCluster runs again, the requests are done, and the claims
\* are bound (restoreVCluster, the restore controller, the PVC syncer).
RestoresEnd == ComesBack /\ RequestsFinish /\ ClaimsComeBack

=============================================================================
