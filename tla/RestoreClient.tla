----------------------------- MODULE RestoreClient -----------------------------
(***************************************************************************)
(* The restore pod: RestoreClient.Run (pkg/snapshot/restoreclient.go,      *)
(* store.go). It replaces the contents of the backing store by the keys of *)
(* a snapshot archive, keeps the old store as a backup to return to after  *)
(* an error, and leaves a restore request for the volumes.                 *)
(*                                                                         *)
(* A store is its revision and its keys. Every step of the pod may fail,   *)
(* and the pod may be killed between any two.                              *)
(***************************************************************************)
EXTENDS RestoreController, SequencesExt

CONSTANTS
    Bump,       \* BumpRevision
    MaxRevision \* bound on the revisions that are explored

ASSUME BumpIsPositive == Bump \in Nat \ {0} /\ MaxRevision \in Nat

VARIABLES
    live,       \* the backing store
    backup,     \* the renamed files of an earlier one
    pod,        \* the restore pod
    pods,       \* the pods of the vCluster, by workload
    watched,    \* history: the latest revision that clients have seen
    torn        \* history: a pod was killed, could not rename the store, or had
                \* a control plane beside it

storage == <<live, backup, pod, watched, torn>>

\* The archive: release and request come first, then the keys in order. bound
\* tells whether a pod has a node or a claim a volume.
Kinds == {"release", "request", "rootca", "pvc", "pv", "pod", "mapping", "old"}
Entries == [kind: Kinds, pvc: PVCs \cup {0}, deleting: BOOLEAN, bound: BOOLEAN]
Stores == [rev: Nat, keys: SUBSET Entries]

Entry(kind, pvc) == [kind |-> kind, pvc |-> pvc, deleting |-> FALSE, bound |-> kind \in {"pod", "pvc"}]
OldKeys == {Entry("old", 0)}

\* A new database of kine has a row, a new etcd no revision.
Fresh == [rev |-> IF env.backing = "sqlite" THEN 1 ELSE 0, keys |-> {}]

Embedded == env.backing \in {"sqlite", "etcd"}
Parts == {"main", "api", "controller", "etcd"}
StoreUp == env.backing = "deployed" => pods["etcd"] > 0
RestorePods == [pc: {"revision", "backup", "create", "bump", "client", "wipe", "read", "request", "compact",
                     "succeeded", "failed"},
                new: BOOLEAN, volumes: BOOLEAN, n: Nat, latest: Nat,
                request: Restores \cup {None}, before: Stores \cup {None}]

StorageInit ==
    /\ live = [rev |-> 2, keys |-> OldKeys]
    /\ backup = None
    /\ pod = None
    /\ watched = 0
    /\ torn = FALSE

PodRunning == pod # None /\ pod.pc \notin {"succeeded", "failed"}
At(pc) == pod # None /\ pod.pc = pc
To(pc) == pod' = [pod EXCEPT !.pc = pc]

\* "vcluster restore" with --new-vcluster and --restore-volumes.
NewPod(new, volumes) ==
    [pc |-> IF Embedded THEN "revision" ELSE "client", new |-> new, volumes |-> volumes,
     n |-> 0, latest |-> 0, request |-> None, before |-> live]

-----------------------------------------------------------------------------
(* newRestoreEtcdClient                                                      *)

\* getLatestRevisionSQLite, getLatestRevisionEtcd: 0 where there are no files.
GetLatestRevision ==
    /\ At("revision")
    /\ pod' = [pod EXCEPT !.pc = "backup", !.n = 1, !.latest = IF live = None THEN 0 ELSE live.rev]
    /\ UNCHANGED <<live, backup, watched, torn, restoring>>

\* backupFile for the three files of the database, backupFolder for etcd: an
\* older backup makes way for the files, if there are any. What follows the first
\* rename (the other files, the new folder) does not matter to the contents.
Files == IF env.backing = "sqlite" THEN 3 ELSE 2
Backup ==
    /\ At("backup")
    /\ IF pod.n = 1 /\ live # None
       THEN live' = None /\ backup' = live
       ELSE UNCHANGED <<live, backup>>
    /\ pod' = IF pod.n < Files THEN [pod EXCEPT !.n = @ + 1]
              ELSE [pod EXCEPT !.n = 1, !.pc = IF pod.latest > 0 THEN "create" ELSE "client"]
    /\ torn' = (torn \/ pods["main"] > 0)
    /\ UNCHANGED <<watched, restoring>>

\* setLatestRevisionSQLite and setLatestRevisionEtcd start the store, stop it, and
\* write the revision to its files.
CreateStore ==
    /\ At("create")
    /\ live' = Fresh
    /\ To("bump")
    /\ UNCHANGED <<backup, watched, torn, restoring>>

SetLatestRevision ==
    /\ At("bump")
    /\ live' = [live EXCEPT !.rev = pod.latest + Bump]
    /\ To("client")
    /\ UNCHANGED <<backup, watched, torn, restoring>>

\* newEtcdClient starts an embedded store, and waits for a deployed one.
NewEtcdClient ==
    /\ At("client")
    /\ StoreUp
    /\ live' = IF live = None THEN Fresh ELSE live
    /\ pod' = [pod EXCEPT !.pc = IF env.backing = "deployed" THEN "wipe" ELSE "read", !.n = 1]
    /\ UNCHANGED <<backup, watched, torn, restoring>>

\* DeletePrefix, for deployed and external etcd.
DeleteExisting ==
    /\ At("wipe")
    /\ live' = [rev |-> live.rev + 1, keys |-> {}]
    /\ To("read")
    /\ UNCHANGED <<backup, watched, torn, restoring>>

-----------------------------------------------------------------------------
(* The loop of Run over the archive.                                         *)

\* The status of a claim in the snapshot request that has been read, if any.
Status(p) == IF pod.request = None THEN None ELSE env.snapshots[p]

skipKey(e) ==
    /\ pod.volumes
    /\ e.kind \in {"pvc", "pv"} /\ Status(e.pvc) # None
    /\ IF env.private THEN e.kind = "pv" \/ Status(e.pvc) = "Completed"
       ELSE e.kind = "pvc" /\ Status(e.pvc) # "Completed"

isPVCThatShouldBeRestoredInHost(e) ==
    pod.volumes /\ e.kind = "pvc" /\ ~env.private /\ Status(e.pvc) = "Completed"

\* transformPod and unsetVolumeName.
Transform(e) ==
    [e EXCEPT !.bound = @ /\ (e.deleting \/ ~((e.kind = "pod" /\ ~env.private)
                                              \/ isPVCThatShouldBeRestoredInHost(e)))]

\* What belongs to the vCluster that was saved.
NotForNew(e) == pod.new /\ e.kind \in {"mapping", "rootca"}

\* Keys are read until the archive ends; a request becomes the Secret of a
\* restore request first.
RestoreKey ==
    /\ At("read")
    /\ pod.n <= Len(env.archive)
    /\ LET e == env.archive[pod.n]
           put == ~NotForNew(e) /\ e.kind # "request" /\ ~skipKey(e)
       IN \/ /\ e.kind = "request" /\ pod.volumes
             /\ \E r \in Restores :
                   /\ requests[r] = None /\ r \notin secrets
                   /\ secrets' = secrets \cup {r}
                   /\ pod' = [pod EXCEPT !.pc = "request", !.request = r]
             /\ UNCHANGED live
          \/ /\ ~(e.kind = "request" /\ pod.volumes)
             /\ live' = IF put THEN [rev |-> live.rev + 1, keys |-> live.keys \cup {Transform(e)}] ELSE live
             /\ pod' = [pod EXCEPT !.n = @ + 1]
             /\ UNCHANGED secrets
    /\ UNCHANGED <<backup, watched, torn, requests, cache, run, res, claims, virtual, backend>>

\* The ConfigMap of the restore request.
CreateRestoreRequest ==
    /\ At("request")
    /\ requests' = [requests EXCEPT ![pod.request] =
                      [data |-> NewRestoreRequest(env.snapshots), finalizer |-> FALSE, deleting |-> FALSE]]
    /\ Caches
    /\ pod' = [pod EXCEPT !.pc = "read", !.n = @ + 1]
    /\ UNCHANGED <<live, backup, watched, torn, secrets, run, res, claims, virtual, backend>>

\* Taking an error for the end (a faulty EndOfArchive).
EndOfArchiveOnError ==
    /\ At("read")
    /\ pod.n > Len(env.archive) \/ (env.podFails /\ pod.n > 1)
    /\ To("compact")
    /\ UNCHANGED <<live, backup, watched, torn, restoring>>

EndOfArchive ==
    /\ At("read")
    /\ pod.n > Len(env.archive)
    /\ To("compact")
    /\ UNCHANGED <<live, backup, watched, torn, restoring>>

Compact ==
    /\ At("compact")
    /\ To("succeeded")
    /\ UNCHANGED <<live, backup, watched, torn, restoring>>

-----------------------------------------------------------------------------
\* revertBackup, which does something from when the files have been renamed.
RevertBackup ==
    IF Embedded /\ pod.pc \notin {"revision", "backup"}
    THEN live' = backup /\ backup' = None
    ELSE UNCHANGED <<live, backup>>

\* Run returns an error. A failed rename may have removed the older backup.
FailPod ==
    /\ PodRunning
    /\ (At("client") => StoreUp) => env.podFails
    /\ IF At("backup") /\ pod.n = 1 /\ live # None
       THEN live' = live /\ backup' \in {backup, None}
       ELSE RevertBackup
    /\ torn' = (torn \/ (At("backup") /\ live = None /\ pod.before # None))
    /\ To("failed")
    /\ UNCHANGED <<watched, restoring>>

PodStep ==
    \/ GetLatestRevision \/ Backup \/ CreateStore \/ SetLatestRevision \/ NewEtcdClient
    \/ DeleteExisting \/ RestoreKey \/ CreateRestoreRequest \/ EndOfArchive \/ Compact
    \/ FailPod

-----------------------------------------------------------------------------
(* The control plane on the store.                                           *)

\* It starts on the files there are. With private nodes the claims are in the
\* store themselves.
StartedStore == IF live = None THEN Fresh ELSE live
StoredClaims == {e.pvc : e \in {k \in StartedStore.keys : k.kind = "pvc"}}

Start ==
    /\ live' = StartedStore
    /\ watched' = Max({watched, StartedStore.rev})
    /\ virtual' = StoredClaims
    /\ claims' = [p \in PVCs |-> IF env.private /\ p \in StoredClaims THEN PVC("old", TRUE) ELSE claims[p]]
    /\ cache' = requests
    /\ torn' = (torn \/ pod # None)
    /\ UNCHANGED <<backup, pod, requests, secrets, run, res, backend>>

\* Clients write to it and watch it.
Write ==
    /\ live.rev < MaxRevision
    /\ live' = [live EXCEPT !.rev = @ + 1]
    /\ watched' = Max({watched, live'.rev})
    /\ torn' = (torn \/ pod # None)
    /\ UNCHANGED <<backup, pod, restoring>>

=============================================================================
