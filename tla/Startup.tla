-------------------------------- MODULE Startup --------------------------------
(***************************************************************************)
(* A vCluster starts: vcluster start (cmd/vcluster/cmd/start.go) brings a  *)
(* cluster of the former k3s distro over (pkg/k8s/migrate.go), starts the  *)
(* Kubernetes binaries (pkg/k8s/k8s.go) and waits for them (pkg/setup),    *)
(* elects a leader (pkg/leaderelection) and starts the controllers         *)
(* (pkg/setup/controllers.go).                                             *)
(*                                                                         *)
(* A process of vCluster ends as a whole, with any of its children, after  *)
(* any error, and its container is started again. Certificates has the     *)
(* details of the certificates, HostNames those of the mappers.            *)
(***************************************************************************)
EXTENDS ControlPlaneParts, Naturals, FiniteSets

CONSTANTS
    BootSetups,  \* the settings to explore
    MaxTroubles  \* bound on the troubles of a setting

\* Times, where 60 seconds for one and 40 for the other is the default.
RenewDeadline == 2
LeaseDuration == 3

\* A setting: the pods; whether there are several replicas, and so an election;
\* whether the store is in the pod; which files k3s has left there, and whether there
\* was a Secret with certificates; whether k3s has left one for a store elsewhere;
\* how CoreDNS runs, if it does, and the deployment of it that there is, perhaps with the
\* labels of an older version; the Secrets to write; how many processes end, calls fail, stalls and outages come.
ASSUME BootSetupsAreRecords ==
    /\ \A u \in BootSetups : u.pods \subseteq Nat /\ (u.embedded => Cardinality(u.pods) = 1)
    /\ \A u \in BootSetups : u.troubles \in 0..MaxTroubles
    /\ MaxTroubles \in Nat

VARIABLES
    boot,       \* the setting, which never changes
    server,     \* the processes, by pod
    lease,      \* the Lease: holder (0 for none) and time since it was renewed
    outage,     \* the host's API server does not answer about the Lease
    moved,      \* files of the database that have been renamed
    k3sFiles,   \* the files of k3s: "none", "some" or "all"
    certSecret, \* the Secret of the certificates: whose keys, and the annotation
    legacy,     \* the Secret of a stateless k3s: "none", "unmarked" or "marked"
    leftovers,  \* what was made with the certificates of k3s
    default,    \* the default service account, which waitForClientConfig looks for
    kubernetes, \* the cluster IP of the virtual service kubernetes: "none", "own", "host"
    replicated, \* virtual services with the label of replicated ones
    coredns,    \* the deployment of CoreDNS: "none", "old" or "new"
    exported,   \* whose keys are in the kubeconfig Secrets
    served,     \* history: whose keys API servers of the cluster have had
    skipped,    \* history: steps that were given up after an error
    stalled,    \* history: the leader stood still
    troubles    \* number of troubles so far

bootVars == <<boot, server, lease, outage, moved, k3sFiles, certSecret, legacy, leftovers, default, kubernetes,
              replicated, coredns, exported, served, skipped, stalled, troubles>>

Files == <<"db", "wal", "shm">>
Copies == {"default", "additional"}
Configured == IF boot.additional THEN Copies ELSE {"default"}

Starting == {"migrate", "secret", "remove", "certs", "config", "election"}
Leading == {"configmaps", "pods", "mark", "mappers", "service", "register", "cleanup", "running"}

NoProcess == [pc |-> "down", keys |-> "none", k8s |-> "off", svc |-> "idle", dns |-> "off", export |-> "off", still |-> FALSE]

BootInit ==
    /\ boot \in Settings("boot", BootSetups)
    /\ server = [p \in boot.pods |-> NoProcess]
    /\ lease = [holder |-> 0, age |-> 0]
    /\ outage = FALSE
    /\ moved = {}
    /\ k3sFiles = boot.k3s
    /\ certSecret = [keys |-> IF boot.secret THEN "own" ELSE "none", marked |-> FALSE]
    /\ legacy = IF boot.stateless THEN "unmarked" ELSE "none"
    /\ leftovers = IF boot.stateless THEN {"kube-root-ca.crt", "pod"} ELSE {}
    /\ default = FALSE
    /\ kubernetes = "none"
    /\ replicated = {"mapped", "unmapped"}
    /\ coredns = boot.coredns
    /\ exported = [c \in Copies |-> "none"]
    /\ served = IF boot.k3s = "none" THEN {} ELSE {"k3s"}
    /\ skipped = {}
    /\ stalled = FALSE
    /\ troubles = 0

\* A step of process p from pc to another, which leaves the rest to its conjuncts.
At(p, pc) == server[p].pc = pc /\ ~server[p].still
To(p, pc) == server' = [server EXCEPT ![p].pc = pc]
Ended(p) == server' = [server EXCEPT ![p] = NoProcess]

Trouble == troubles < boot.troubles /\ troubles' = troubles + 1

hostState == <<moved, k3sFiles, certSecret, legacy>>
virtualState == <<leftovers, default, kubernetes, replicated, coredns>>
history == <<served, skipped, stalled>>

-----------------------------------------------------------------------------
(* Processes and the Lease.                                                  *)

\* The kubelet starts the container. Without files of k3s there is nothing to migrate.
StartPod(p) ==
    /\ At(p, "down")
    /\ To(p, IF k3sFiles = "none" THEN "certs" ELSE "migrate")
    /\ UNCHANGED <<boot, lease, outage, hostState, virtualState, exported, history, troubles>>

\* A Deployment with one replica has a second pod until that one is ready.
ReplacePod ==
    /\ ~boot.ha /\ 2 \in boot.pods
    /\ server[1].pc # "gone" /\ server[2].pc = "running"
    /\ server' = [server EXCEPT ![1] = [NoProcess EXCEPT !.pc = "gone"]]
    /\ UNCHANGED <<boot, lease, outage, hostState, virtualState, exported, history, troubles>>

\* osutil.Exit after an error of any step, or because a child has finished; or the
\* pod is killed.
Exit(p) ==
    /\ server[p].pc \notin {"down", "gone"}
    /\ Trouble
    /\ Ended(p)
    /\ UNCHANGED <<boot, lease, outage, hostState, virtualState, exported, history>>

\* The process stands still, and goes on.
Stall(p) ==
    /\ boot.ha /\ server[p].pc \in Leading /\ ~server[p].still
    /\ Trouble
    /\ server' = [server EXCEPT ![p].still = TRUE]
    /\ stalled' = TRUE
    /\ UNCHANGED <<boot, lease, outage, hostState, virtualState, exported, served, skipped>>

GoOn(p) ==
    /\ server[p].still
    /\ server' = [server EXCEPT ![p].still = FALSE]
    /\ UNCHANGED <<boot, lease, outage, hostState, virtualState, exported, history, troubles>>

Outage ==
    /\ boot.ha
    /\ outage' = ~outage
    /\ IF outage THEN UNCHANGED troubles ELSE Trouble
    /\ UNCHANGED <<boot, server, lease, hostState, virtualState, exported, history>>

\* The process that leads by the Lease, if it still does.
Holder == {p \in boot.pods : lease.holder = p /\ server[p].pc \in Leading}

\* Time passes. A process that can renew the Lease does so all the time (every
\* RetryPeriod), and gives up at the deadline.
Tick ==
    /\ boot.ha /\ lease.holder # 0
    /\ \A p \in Holder : ~server[p].still => outage /\ lease.age < RenewDeadline
    /\ lease.age < LeaseDuration
    /\ lease' = [lease EXCEPT !.age = @ + 1]
    /\ UNCHANGED <<boot, server, outage, hostState, virtualState, exported, history, troubles>>

RenewLease(p) ==
    /\ p \in Holder /\ ~server[p].still /\ ~outage
    /\ lease.age \in 1 .. RenewDeadline - 1
    /\ lease' = [lease EXCEPT !.age = 0]
    /\ UNCHANGED <<boot, server, outage, hostState, virtualState, exported, history, troubles>>

OnStoppedLeading(p) ==
    /\ boot.ha /\ server[p].pc \in Leading /\ ~server[p].still
    /\ lease.holder # p \/ lease.age >= RenewDeadline
    /\ Ended(p)
    /\ UNCHANGED <<boot, lease, outage, hostState, virtualState, exported, history, troubles>>

\* The Lease is free, has expired, or has this host name in it.
OnStartedLeading(p) ==
    /\ At(p, "election")
    /\ boot.ha => ~outage /\ (lease.holder \in {0, p} \/ lease.age >= LeaseDuration)
    /\ lease' = IF boot.ha THEN [holder |-> p, age |-> 0] ELSE lease
    /\ To(p, IF legacy = "none" THEN "mappers" ELSE "configmaps")
    /\ UNCHANGED <<boot, outage, hostState, virtualState, exported, history, troubles>>

-----------------------------------------------------------------------------
(* initialize: MigrateK3sToK8s, certificates, StartK8S.                      *)

\* renameIfExists for each file of the database.
MigrateData(p) ==
    /\ At(p, "migrate")
    /\ LET left == {i \in DOMAIN Files : Files[i] \notin moved}
       IN IF boot.embedded /\ left # {}
          THEN moved' = moved \cup {Files[CHOOSE i \in left : \A j \in left : i <= j]} /\ UNCHANGED server
          ELSE To(p, "secret") /\ UNCHANGED moved
    /\ UNCHANGED <<boot, lease, outage, k3sFiles, certSecret, legacy, virtualState, exported, history, troubles>>

\* Ignoring a conflict (a faulty MigrateSecret).
MigrateSecretRegardless(p) ==
    /\ At(p, "secret")
    /\ IF certSecret.keys = "none" \/ certSecret.marked \/ k3sFiles # "all"
       THEN To(p, "certs") /\ UNCHANGED certSecret
       ELSE certSecret' \in {certSecret, [keys |-> "k3s", marked |-> TRUE]} /\ To(p, "remove")
    /\ UNCHANGED <<boot, lease, outage, moved, k3sFiles, legacy, virtualState, exported, history, troubles>>

\* The Secret gets the keys of k3s and the annotation, if it is there and all the
\* files are.
MigrateSecret(p) ==
    /\ At(p, "secret")
    /\ IF certSecret.keys = "none" \/ certSecret.marked \/ k3sFiles # "all"
       THEN To(p, "certs") /\ UNCHANGED certSecret
       ELSE certSecret' = [keys |-> "k3s", marked |-> TRUE] /\ To(p, "remove")
    /\ UNCHANGED <<boot, lease, outage, moved, k3sFiles, legacy, virtualState, exported, history, troubles>>

\* Another has changed the Secret meanwhile.
MigrateSecretConflicts(p) ==
    /\ At(p, "secret")
    /\ certSecret.keys # "none" /\ ~certSecret.marked /\ k3sFiles = "all"
    /\ Trouble
    /\ To(p, "migrate")
    /\ UNCHANGED <<boot, lease, outage, hostState, virtualState, exported, history>>

\* An interruption may leave some of the files.
RemoveOldData(p) ==
    /\ At(p, "remove")
    /\ \/ k3sFiles' = "none" /\ To(p, "certs")
       \/ k3sFiles = "all" /\ k3sFiles' = "some" /\ UNCHANGED server
    /\ UNCHANGED <<boot, lease, outage, moved, certSecret, legacy, virtualState, exported, history, troubles>>

\* certs.Generate, and the start of StartK8S.
GenerateCerts(p) ==
    /\ At(p, "certs")
    /\ certSecret' = IF certSecret.keys = "none" THEN [certSecret EXCEPT !.keys = "own"] ELSE certSecret
    /\ server' = [server EXCEPT ![p].pc = "config", ![p].keys = certSecret'.keys, ![p].k8s = "starting"]
    /\ UNCHANGED <<boot, lease, outage, moved, k3sFiles, legacy, virtualState, exported, history, troubles>>

\* StartK8S: WaitForEtcd has succeeded, and the API server runs; waitForAPI has
\* succeeded, and the controller manager runs.
StartK8S(p) ==
    /\ server[p].k8s = "starting" /\ ~server[p].still
    /\ server' = [server EXCEPT ![p].k8s = "up"]
    /\ served' = served \cup {server[p].keys}
    /\ default' = TRUE
    /\ UNCHANGED <<boot, lease, outage, hostState, leftovers, kubernetes, replicated, coredns, exported, skipped, stalled,
                   troubles>>

APIServerUp == \E p \in boot.pods : server[p].k8s = "up"

\* The API server creates the service kubernetes, and again when it is missing:
\* seldom just between the calls of SyncKubernetesService.
CreateKubernetesService ==
    /\ APIServerUp /\ kubernetes = "none"
    /\ kubernetes' = "own"
    /\ IF \E p \in boot.pods : server[p].svc = "deleted" THEN Trouble ELSE UNCHANGED troubles
    /\ UNCHANGED <<boot, server, lease, outage, hostState, leftovers, default, replicated, coredns, exported, history>>

-----------------------------------------------------------------------------
(* NewControllerContext, StartManagers, StartControllers.                    *)

\* waitForClientConfig. The managers are started, and have filled their caches.
NewControllerContext(p) ==
    /\ At(p, "config")
    /\ server[p].k8s = "up" /\ default
    /\ To(p, "election")
    /\ UNCHANGED <<boot, lease, outage, hostState, virtualState, exported, history, troubles>>

\* MigrateK3sToK8sStateless: config maps and pods go, then the Secret gets the
\* annotation.
MigrateStateless(p) ==
    /\ \/ /\ At(p, "configmaps") /\ legacy = "marked"
          /\ To(p, "mappers") /\ UNCHANGED <<leftovers, legacy>>
       \/ /\ At(p, "configmaps") /\ legacy = "unmarked"
          /\ leftovers' = leftovers \ {"kube-root-ca.crt"} /\ To(p, "pods") /\ UNCHANGED legacy
       \/ /\ At(p, "pods")
          /\ leftovers' = leftovers \ {"pod"} /\ To(p, "mark") /\ UNCHANGED legacy
       \/ /\ At(p, "mark")
          /\ legacy' = "marked" /\ To(p, "mappers") /\ UNCHANGED leftovers
    /\ UNCHANGED <<boot, lease, outage, moved, k3sFiles, certSecret, default, kubernetes, replicated, coredns,
                   exported, history, troubles>>

\* Any error of the first call counts as "no Secret".
SkipStateless(p) ==
    /\ At(p, "configmaps") /\ legacy = "unmarked"
    /\ Trouble
    /\ skipped' = skipped \cup {"stateless"}
    /\ To(p, "mappers")
    /\ UNCHANGED <<boot, lease, outage, hostState, virtualState, exported, served, stalled>>

\* MigrateMappers. CoreDNS is set up beside.
MigrateMappers(p) ==
    /\ At(p, "mappers")
    /\ server' = [server EXCEPT ![p].pc = "service", ![p].dns = "check"]
    /\ UNCHANGED <<boot, lease, outage, hostState, virtualState, exported, history, troubles>>

\* SyncKubernetesService, at the start and from the services syncer: nothing to do;
\* or the service is deleted and created with the cluster IP of the host.
KubernetesServiceSynced(p) ==
    /\ At(p, "service") /\ server[p].svc = "idle" /\ kubernetes # "own"
    /\ To(p, "register")
    /\ UNCHANGED <<boot, lease, outage, hostState, virtualState, exported, history, troubles>>

DeleteKubernetesService(p) ==
    /\ At(p, "service") \/ At(p, "running")
    /\ server[p].svc = "idle" /\ kubernetes = "own"
    /\ kubernetes' = "none"
    /\ server' = [server EXCEPT ![p].svc = "deleted"]
    /\ UNCHANGED <<boot, lease, outage, hostState, leftovers, default, replicated, coredns, exported, history, troubles>>

\* The new service is there already: an error, which ends a start and repeats a
\* reconcile.
RecreateKubernetesService(p) ==
    /\ server[p].svc = "deleted" /\ ~server[p].still
    /\ kubernetes' = IF kubernetes = "none" THEN "host" ELSE kubernetes
    /\ IF kubernetes # "none" /\ server[p].pc = "service" THEN Ended(p)
       ELSE server' = [server EXCEPT ![p].svc = "idle", ![p].pc = IF @ = "service" THEN "register" ELSE @]
    /\ UNCHANGED <<boot, lease, outage, hostState, leftovers, default, replicated, coredns, exported, history, troubles>>

\* RegisterControllers and the hooks. The kubeconfig is written beside.
RegisterControllers(p) ==
    /\ At(p, "register")
    /\ server' = [server EXCEPT ![p].pc = "cleanup", ![p].export = "default"]
    /\ UNCHANGED <<boot, lease, outage, hostState, virtualState, exported, history, troubles>>

\* deletePreviouslyReplicatedServices.
DeletePreviouslySynced(p) ==
    /\ At(p, "cleanup")
    /\ replicated' = replicated \ {"unmapped"}
    /\ To(p, "running")
    /\ UNCHANGED <<boot, lease, outage, hostState, leftovers, default, kubernetes, coredns, exported, history, troubles>>

-----------------------------------------------------------------------------
(* The goroutines of StartControllers.                                       *)

\* ApplyCoreDNS deletes a deployment whose selector, which cannot be changed, is
\* not the present one. ApplyManifest does nothing if CoreDNS is disabled.
CheckCoreDNS(p) ==
    /\ server[p].dns = "check" /\ ~server[p].still
    /\ coredns' = IF coredns = "old" THEN "none" ELSE coredns
    /\ server' = [server EXCEPT ![p].dns = IF boot.dns = "disabled" THEN "done" ELSE "apply"]
    /\ UNCHANGED <<boot, lease, outage, hostState, leftovers, default, kubernetes, replicated, exported, history, troubles>>

AfterApply == IF boot.dns = "embedded" THEN "remove" ELSE "done"

\* An error of that Get or Delete ends the retries.
CheckCoreDNSFails(p) ==
    /\ server[p].dns = "check" /\ ~server[p].still
    /\ Trouble
    /\ skipped' = skipped \cup {"coredns"}
    /\ server' = [server EXCEPT ![p].dns = AfterApply]
    /\ UNCHANGED <<boot, lease, outage, hostState, virtualState, exported, served, stalled>>

\* ApplyManifest. The API server refuses another selector.
ApplyCoreDNS(p) ==
    /\ server[p].dns = "apply" /\ ~server[p].still
    /\ boot.dns = "deployed" => coredns # "old"
    /\ coredns' = IF boot.dns = "deployed" THEN "new" ELSE coredns
    /\ server' = [server EXCEPT ![p].dns = AfterApply]
    /\ UNCHANGED <<boot, lease, outage, hostState, leftovers, default, kubernetes, replicated, exported, history, troubles>>

\* An error of ApplyManifest is retried.
ApplyCoreDNSFails(p) ==
    /\ server[p].dns = "apply" /\ ~server[p].still
    /\ Trouble
    /\ server' = [server EXCEPT ![p].dns = "check"]
    /\ UNCHANGED <<boot, lease, outage, hostState, virtualState, exported, history>>

RemoveCoreDNS(p) ==
    /\ server[p].dns = "remove" /\ ~server[p].still
    /\ coredns' = "none"
    /\ server' = [server EXCEPT ![p].dns = "done"]
    /\ UNCHANGED <<boot, lease, outage, hostState, leftovers, default, kubernetes, replicated, exported, history, troubles>>

\* This error is only logged.
RemoveCoreDNSFails(p) ==
    /\ server[p].dns = "remove" /\ ~server[p].still
    /\ Trouble
    /\ skipped' = skipped \cup {"coredns"}
    /\ server' = [server EXCEPT ![p].dns = "done"]
    /\ UNCHANGED <<boot, lease, outage, hostState, virtualState, exported, served, stalled>>

\* The kubeconfig has the contents of the files it refers to.
CreateVClusterKubeConfig(p) == server[p].keys

\* WriteKubeConfigToSecret writes one Secret after the other.
WriteKubeConfig(p) ==
    /\ server[p].export \in Copies /\ ~server[p].still
    /\ exported' = [exported EXCEPT ![server[p].export] = CreateVClusterKubeConfig(p)]
    /\ server' = [server EXCEPT ![p].export = IF @ = "default" /\ boot.additional THEN "additional" ELSE "done"]
    /\ UNCHANGED <<boot, lease, outage, hostState, virtualState, history, troubles>>

\* After an error the poll begins again, with the first Secret.
WriteKubeConfigFails(p) ==
    /\ server[p].export \in Copies /\ ~server[p].still
    /\ Trouble
    /\ server' = [server EXCEPT ![p].export = "default"]
    /\ UNCHANGED <<boot, lease, outage, hostState, virtualState, exported, history>>

-----------------------------------------------------------------------------
StartStep(p) ==
    \/ StartPod(p) \/ GoOn(p) \/ OnStoppedLeading(p) \/ OnStartedLeading(p)
    \/ MigrateData(p) \/ MigrateSecret(p) \/ RemoveOldData(p) \/ GenerateCerts(p)
    \/ NewControllerContext(p) \/ MigrateStateless(p) \/ MigrateMappers(p)
    \/ KubernetesServiceSynced(p) \/ DeleteKubernetesService(p) \/ RecreateKubernetesService(p)
    \/ RegisterControllers(p) \/ DeletePreviouslySynced(p)

SetUpCoreDNS(p) == CheckCoreDNS(p) \/ ApplyCoreDNS(p) \/ RemoveCoreDNS(p)

BootFails(p) ==
    \/ Exit(p) \/ Stall(p) \/ MigrateSecretConflicts(p) \/ SkipStateless(p)
    \/ CheckCoreDNSFails(p) \/ ApplyCoreDNSFails(p) \/ RemoveCoreDNSFails(p) \/ WriteKubeConfigFails(p)

BootNext ==
    \/ \E p \in boot.pods :
          StartStep(p) \/ StartK8S(p) \/ RenewLease(p) \/ SetUpCoreDNS(p) \/ WriteKubeConfig(p) \/ BootFails(p)
    \/ ReplacePod \/ Outage \/ Tick \/ CreateKubernetesService

\* The goroutines of a process run, outages end, time passes, and the API server
\* creates its service.
BootFairness ==
    /\ \A p \in UNION {u.pods : u \in BootSetups} :
          /\ WF_bootVars(part = "boot" /\ p \in boot.pods /\ StartStep(p))
          /\ WF_bootVars(part = "boot" /\ p \in boot.pods /\ StartK8S(p))
          /\ WF_bootVars(part = "boot" /\ p \in boot.pods /\ RenewLease(p))
          /\ WF_bootVars(part = "boot" /\ p \in boot.pods /\ SetUpCoreDNS(p))
          /\ WF_bootVars(part = "boot" /\ p \in boot.pods /\ WriteKubeConfig(p))
    /\ WF_bootVars(part = "boot" /\ ReplacePod)
    /\ WF_bootVars(part = "boot" /\ outage /\ Outage)
    /\ WF_bootVars(part = "boot" /\ Tick)
    /\ WF_bootVars(part = "boot" /\ CreateKubernetesService)

-----------------------------------------------------------------------------
(* Properties.                                                               *)

BootTypeOK ==
    /\ boot \in BootSetups
    /\ server \in [boot.pods -> [pc: {"down", "gone"} \cup Starting \cup Leading, keys: {"none", "own", "k3s"},
                                 k8s: {"off", "starting", "up"}, svc: {"idle", "deleted"},
                                 dns: {"off", "check", "apply", "remove", "done"},
                                 export: {"off", "done"} \cup Copies, still: BOOLEAN]]
    /\ lease \in [holder: {0} \cup boot.pods, age: 0..LeaseDuration]
    /\ moved \subseteq {"db", "wal", "shm"} /\ k3sFiles \in {"none", "some", "all"}
    /\ certSecret \in [keys: {"none", "own", "k3s"}, marked: BOOLEAN]
    /\ legacy \in {"none", "unmarked", "marked"} /\ leftovers \subseteq {"kube-root-ca.crt", "pod"}
    /\ {default, outage, stalled} \subseteq BOOLEAN /\ kubernetes \in {"none", "own", "host"}
    /\ replicated \subseteq {"mapped", "unmapped"} /\ coredns \in {"none", "old", "new"}
    /\ exported \in [Copies -> {"none", "own", "k3s"}] /\ served \subseteq {"own", "k3s"}
    /\ skipped \subseteq {"stateless", "coredns"} /\ troubles \in 0..MaxTroubles

\* The controllers run in one process at a time: who has lost the Lease ends
\* (leaderelection.go) before another can have it. A process that stands still may
\* go on for a moment when its time is over, and a Deployment with one replica,
\* which has no election, runs two of them while one replaces the other.
OneLeader ==
    (boot.ha /\ ~stalled) \/ Cardinality(boot.pods) = 1
    => Cardinality({p \in boot.pods : server[p].pc \in Leading}) <= 1

\* The API server is never started on a part of the database of k3s: where the
\* migration is interrupted between two renames, the next start does the others.
DatabaseKept ==
    boot.embedded /\ boot.k3s # "none" /\ APIServerUp => moved = {"db", "wal", "shm"}

\* A cluster that comes from k3s keeps its certificate authorities and the keys of
\* its service accounts, however often its migration is interrupted. Where there was
\* no Secret yet, or a file of k3s is missing, it first gets new ones (and in the
\* former case the old ones back at the next start).
IdentityKept ==
    \/ Cardinality(served) <= 1
    \/ boot.k3s = "some" \/ (boot.k3s = "all" /\ ~boot.secret)

\* Once the Secret of a stateless k3s has its annotation, nothing is left that was
\* made with the certificates of k3s, and the leaders to come need not look again.
RecreatedAfterMigration == legacy = "marked" => leftovers = {}

\* With troubles that end, controllers run at last, all Secrets hold a kubeconfig for
\* the keys in use, the service kubernetes has the cluster IP of the host, services
\* that are no longer replicated are gone, and the migration of a stateless k3s is
\* over, unless it was skipped after an error.
StartsUp ==
    <>[](part = "boot" =>
             /\ \E p \in boot.pods : server[p].pc = "running" /\ \A c \in Configured : exported[c] = server[p].keys
             /\ kubernetes = "host"
             /\ replicated = {"mapped"}
             /\ legacy # "unmarked" \/ "stateless" \in skipped)

\* CoreDNS runs as configured at last, also where its deployment had the labels of
\* an older version, unless the first call of ApplyCoreDNS has failed.
CoreDNSFollows ==
    <>[](part = "boot" =>
           "coredns" \in skipped \/ coredns = (IF boot.dns = "deployed" THEN "new" ELSE "none"))

\* However often processes stop while they start up, one leads, and the data and
\* the identity of an older distribution are kept (leaderelection, MigrateK3sToK8s).
StartsSafely == OneLeader /\ DatabaseKept /\ IdentityKept /\ RecreatedAfterMigration

=============================================================================
