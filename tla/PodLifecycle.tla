----------------------------- MODULE PodLifecycle -----------------------------
(***************************************************************************)
(* The life of the pods of one name (pkg/controllers/resources/pods): the  *)
(* pod in the virtual cluster, the host pod that runs it, the nodes the    *)
(* two are bound to, their deletion, and the Secret with the tokens of its *)
(* service account. The virtual cluster has no kubelet: the syncer removes *)
(* its pod when the host pod is gone.                                      *)
(*                                                                         *)
(* The client waits until its cache shows what it wrote, or gives up; what *)
(* others do is seen later. A pod that has no node is deleted at once, and *)
(* so is one with grace period 0; Period stands for that of the pod itself.  *)
(***************************************************************************)
EXTENDS ControlPlaneParts, Integers, FiniteSets

CONSTANTS
    HostNodes,  \* the nodes of the host, numbers from 1; 0 for none
    PodSetups,  \* the settings to explore
    NoPod,      \* no pod, no Secret
    MaxPods     \* bound on the pods that are created on either side

Period == 2

VARIABLES
    run,        \* the setting: [virtual, selector, secrets, limited, lags, restarts, edits]
    vPod,       \* the pod of the virtual cluster
    pPod,       \* its host pod
    informed,       \* what the informers show of both
    entries,     \* the object cache has an entry for either
    creating,   \* the virtual pod for which a host pod is about to be created
    queued,     \* the request is in the queue
    virtualNodes,     \* the nodes of the virtual cluster
    token,      \* the Secret with the tokens
    allowed,    \* the classes that the pod names are there and match
    dns,        \* the DNS service has an address
    uids,       \* the last identities given out
    podEdits,   \* how often users and hosts acted
    startups,     \* history: how often each virtual pod was started on the host
    slipped,    \* history: the client gave up waiting, or the syncer restarted
    ignored     \* history: a pod was left alone because of its classes

podVars == <<run, vPod, pPod, informed, entries, creating, queued, virtualNodes, token, allowed, dns, uids, podEdits, startups, slipped, ignored>>

Virtuals == 1..MaxPods
PodRecords == [uid: 1..MaxPods, of: 0..MaxPods, node: {0} \cup HostNodes, grace: {-1} \cup 0..Period,
               started: BOOLEAN, extra: BOOLEAN]
SelectedNodes == IF run.selector THEN {1} ELSE HostNodes

LifeInit ==
    /\ run \in Settings("pods", PodSetups)
    /\ vPod = NoPod /\ pPod = NoPod
    /\ informed = [v |-> NoPod, p |-> NoPod]
    /\ entries = [v |-> FALSE, p |-> FALSE]
    /\ creating = NoPod
    /\ queued = FALSE
    /\ virtualNodes = IF run.virtual THEN SelectedNodes ELSE {}
    /\ token = NoPod
    /\ allowed = TRUE
    /\ dns = ~run.limited
    /\ uids = [v |-> 0, p |-> 0]
    /\ podEdits = 0
    /\ startups = [u \in Virtuals |-> 0]
    /\ slipped = FALSE
    /\ ignored = FALSE

Deleting(p) == p.grace >= 0

\* What a deletion makes of a pod: it only ever shortens the grace period.
Deleted(p, grace) ==
    CASE p.node = 0 \/ grace = 0 -> NoPod
      [] p.node # 0 /\ grace # 0 /\ Deleting(p) /\ p.grace < grace -> p
      [] OTHER -> [p EXCEPT !.grace = grace]

syncerState == <<informed, entries, creating, queued>>

-----------------------------------------------------------------------------
(* Users, schedulers, kubelets and the other controllers.                    *)

Acts == podEdits < run.edits /\ podEdits' = podEdits + 1

UserCreatesPod ==
    /\ Acts
    /\ vPod = NoPod /\ uids.v < MaxPods
    /\ \E n \in {0} \cup (IF run.virtual THEN {} ELSE HostNodes) :
          vPod' = [uid |-> uids.v + 1, of |-> 0, node |-> n, grace |-> -1, started |-> FALSE, extra |-> FALSE]
    /\ uids' = [uids EXCEPT !.v = @ + 1]
    /\ UNCHANGED <<run, pPod, syncerState, virtualNodes, token, allowed, dns, startups, slipped, ignored>>

UserDeletesPod ==
    /\ Acts
    /\ vPod # NoPod
    /\ \E g \in 0..Period : vPod' = Deleted(vPod, g)
    /\ UNCHANGED <<run, pPod, syncerState, virtualNodes, token, allowed, dns, uids, startups, slipped, ignored>>

UserDebugsPod ==
    /\ Acts
    /\ vPod # NoPod /\ vPod.node # 0 /\ ~vPod.extra
    /\ vPod' = [vPod EXCEPT !.extra = TRUE]
    /\ UNCHANGED <<run, pPod, syncerState, virtualNodes, token, allowed, dns, uids, startups, slipped, ignored>>

\* An eviction, a drain or a user of the host.
HostDeletesPod ==
    /\ Acts
    /\ pPod # NoPod
    /\ \E g \in {0, 1} : pPod' = Deleted(pPod, g)
    /\ UNCHANGED <<run, vPod, syncerState, virtualNodes, token, allowed, dns, uids, startups, slipped, ignored>>

VirtualScheduler ==
    /\ run.virtual
    /\ vPod # NoPod /\ vPod.node = 0
    /\ \E n \in virtualNodes : vPod' = [vPod EXCEPT !.node = n]
    /\ UNCHANGED <<run, pPod, syncerState, virtualNodes, token, allowed, dns, uids, podEdits, startups, slipped, ignored>>

HostScheduler ==
    /\ pPod # NoPod /\ pPod.node = 0
    /\ \E n \in SelectedNodes : pPod' = [pPod EXCEPT !.node = n]
    /\ UNCHANGED <<run, vPod, syncerState, virtualNodes, token, allowed, dns, uids, podEdits, startups, slipped, ignored>>

KubeletStarts ==
    /\ pPod # NoPod /\ pPod.node # 0 /\ ~Deleting(pPod) /\ ~pPod.started
    /\ pPod' = [pPod EXCEPT !.started = TRUE]
    /\ startups' = [startups EXCEPT ![pPod.of] = @ + 1]
    /\ UNCHANGED <<run, vPod, syncerState, virtualNodes, token, allowed, dns, uids, podEdits, slipped, ignored>>

KubeletStops ==
    /\ pPod # NoPod /\ Deleting(pPod)
    /\ pPod' = NoPod
    /\ UNCHANGED <<run, vPod, syncerState, virtualNodes, token, allowed, dns, uids, podEdits, startups, slipped, ignored>>

\* The node syncer brings a node that a host pod is on.
NodeAppears ==
    /\ pPod # NoPod /\ pPod.node \in HostNodes \ virtualNodes
    /\ virtualNodes' = virtualNodes \cup {pPod.node}
    /\ UNCHANGED <<run, vPod, pPod, syncerState, token, allowed, dns, uids, podEdits, startups, slipped, ignored>>

\* A Secret goes with the pod that owns it.
CollectToken ==
    /\ token # NoPod /\ token.owner # 0
    /\ pPod # NoPod => pPod.uid # token.owner
    /\ token' = NoPod
    /\ UNCHANGED <<run, vPod, pPod, syncerState, virtualNodes, allowed, dns, uids, podEdits, startups, slipped, ignored>>

ClassChanges ==
    /\ Acts
    /\ run.limited
    /\ allowed' = ~allowed
    /\ UNCHANGED <<run, vPod, pPod, syncerState, virtualNodes, token, dns, uids, startups, slipped, ignored>>

DNSAppears ==
    /\ ~dns
    /\ dns' = TRUE
    /\ UNCHANGED <<run, vPod, pPod, syncerState, virtualNodes, token, allowed, uids, podEdits, startups, slipped, ignored>>

Informer ==
    /\ informed # [v |-> vPod, p |-> pPod]
    /\ \/ informed' = [informed EXCEPT !.v = vPod]
       \/ informed' = [informed EXCEPT !.p = pPod]
    /\ informed' # informed
    /\ queued' = TRUE
    /\ UNCHANGED <<run, vPod, pPod, entries, creating, virtualNodes, token, allowed, dns, uids, podEdits, startups, slipped, ignored>>

-----------------------------------------------------------------------------
(* The syncer                                                                *)

World == <<run, virtualNodes, allowed, dns, podEdits, startups>>

\* On a miss getObjects puts what is not being deleted into the object cache.
Seen == [v |-> entries.v \/ (informed.v # NoPod /\ ~Deleting(informed.v)),
         p |-> entries.p \/ (informed.p # NoPod /\ ~Deleting(informed.p))]
Forgotten == [v |-> FALSE, p |-> FALSE]

\* After a write the client waits for its cache; if that takes too long the call fails, and
\* nothing goes to the object cache.
Wait(v, p, after) ==
    \/ /\ informed' = [v |-> v, p |-> p]
       /\ entries' = after
       /\ UNCHANGED slipped
    \/ /\ run.lags
       /\ entries' = Seen
       /\ slipped' = TRUE
       /\ UNCHANGED informed

WriteVirtual(v, after) ==
    /\ vPod' = v
    /\ Wait(v, informed.p, after)
    /\ queued' = TRUE
    /\ UNCHANGED <<World, pPod, creating, token, uids, ignored>>

WriteHost(p, after) ==
    /\ pPod' = p
    /\ Wait(informed.v, p, after)
    /\ queued' = TRUE
    /\ UNCHANGED <<World, vPod, creating, token, uids, ignored>>

\* An error, or a result that asks for it.
Requeue ==
    /\ queued' = TRUE
    /\ entries' = Seen
    /\ UNCHANGED <<World, vPod, pPod, informed, creating, token, uids, slipped, ignored>>

LeaveQueue ==
    /\ queued' = FALSE
    /\ entries' = Seen
    /\ UNCHANGED <<World, vPod, pPod, informed, creating, token, uids, slipped>>

Done == LeaveQueue /\ UNCHANGED ignored

\* Nothing wakes it when a class comes.
Ignore == LeaveQueue /\ ignored' = TRUE

\* A pod that is gone is as good as deleted.
DeleteVirtualPod(grace) ==
    WriteVirtual(IF vPod = NoPod THEN NoPod ELSE Deleted(vPod, grace), Forgotten)
DeleteHostPod(grace) ==
    WriteHost(IF pPod = NoPod THEN NoPod ELSE Deleted(pPod, grace), Forgotten)

HostWasThere == entries.p \/ informed.v.started

\* A Secret of an older pod is replaced; the vCluster owns it until the pod can.
SATokenSecret(v) == [for |-> v.uid, owner |-> 0]

\* translate makes the Secret, once the DNS service has an address, before it is known whether
\* the pod can be created: not with an unknown node, nor before the virtual scheduler chose one.
SyncNewPod ==
    /\ token' = IF run.secrets THEN SATokenSecret(informed.v) ELSE token
    /\ entries' = Seen
    /\ CASE run.selector /\ informed.v.node \notin {0} \cup virtualNodes -> queued' = TRUE /\ UNCHANGED creating
         [] run.virtual /\ informed.v.node = 0 -> queued' = FALSE /\ UNCHANGED creating
         [] OTHER -> creating' = informed.v /\ UNCHANGED queued
    /\ UNCHANGED <<World, vPod, pPod, informed, uids, slipped, ignored>>

\* applyLimitByClasses leaves a pod alone.
SyncToHost ==
    CASE ~allowed -> Ignore
      [] allowed /\ (HostWasThere \/ Deleting(informed.v)) -> DeleteVirtualPod(0)
      [] OTHER -> IF dns THEN SyncNewPod ELSE Requeue

\* CreateHostObject: nothing to create where the cache shows a host pod, an error where there is one.
CreateHostObject ==
    /\ creating # NoPod
    /\ creating' = NoPod
    /\ queued' = TRUE
    /\ IF informed.p # NoPod \/ pPod # NoPod \/ uids.p = MaxPods
       THEN UNCHANGED <<pPod, informed, entries, uids, slipped>>
       ELSE /\ uids' = [uids EXCEPT !.p = @ + 1]
            /\ pPod' = [uid |-> uids.p + 1, of |-> creating.uid, node |-> creating.node, grace |-> -1,
                        started |-> FALSE, extra |-> creating.extra]
            /\ Wait(informed.v, pPod', [entries EXCEPT !.p = TRUE])
    /\ UNCHANGED <<World, vPod, token, ignored>>

\* The host pod is being deleted: so is the virtual one, with the grace period that remains; its
\* status follows.
SyncTermination ==
    CASE ~Deleting(informed.v) -> DeleteVirtualPod(Period)
      [] Deleting(informed.v) /\ informed.v.grace # informed.p.grace ->
            IF vPod # NoPod /\ vPod.uid # informed.v.uid THEN Requeue ELSE DeleteVirtualPod(informed.p.grace)
      [] Deleting(informed.v) /\ informed.v.grace = informed.p.grace /\ informed.v.started # informed.p.started ->
            IF vPod # informed.v THEN Requeue ELSE WriteVirtual([vPod EXCEPT !.started = informed.p.started], Seen)
      [] OTHER -> Done

\* The virtual pod is being deleted: so is the host pod that was seen.
SyncDeletion == IF pPod # NoPod /\ pPod.uid # informed.p.uid THEN Requeue ELSE DeleteHostPod(informed.v.grace)

\* Binding without a look at the nodes of the virtual cluster (a faulty EnsureNode).
EnsureNodeAnywhere ==
    CASE informed.v.node \notin {0, informed.p.node} -> DeleteVirtualPod(Period)
      [] OTHER -> IF vPod # NoPod /\ vPod = informed.v
                  THEN WriteVirtual([vPod EXCEPT !.node = informed.p.node, !.started = informed.p.started], Seen)
                  ELSE Requeue

\* ensureNode and assignNodeToPod: the API server binds a pod of that name once.
EnsureNode ==
    CASE informed.v.node \notin {0, informed.p.node} -> DeleteVirtualPod(Period)
      [] informed.v.node \in {0, informed.p.node} /\ informed.p.node \notin virtualNodes -> Requeue
      [] OTHER ->
            IF vPod # NoPod /\ vPod.node = 0 THEN WriteVirtual([vPod EXCEPT !.node = informed.p.node], Seen)
            ELSE Requeue

\* syncEphemeralContainers, which adds to the host pod only.
SyncEphemeralContainers ==
    IF pPod # informed.p THEN Requeue
    ELSE /\ pPod' = [pPod EXCEPT !.extra = TRUE]
         /\ queued' = TRUE
         /\ entries' = Seen
         /\ UNCHANGED <<World, vPod, informed, creating, token, uids, slipped, ignored>>

\* The Service of the vCluster hands the Secret over to the pod.
SetPodAsOwner ==
    IF token # NoPod /\ token.owner = 0 THEN [token EXCEPT !.owner = informed.p.uid] ELSE token

\* setSATokenSecretAsOwner, Diff and the patch.
SyncStatus ==
    /\ token' = SetPodAsOwner
    /\ IF vPod # informed.v
       THEN queued' = TRUE /\ entries' = Seen /\ UNCHANGED <<vPod, informed, slipped>>
       ELSE /\ vPod' = [vPod EXCEPT !.started = informed.p.started]
            /\ queued' = (vPod' # vPod)
            /\ Wait(vPod', informed.p, Seen)
    /\ UNCHANGED <<World, pPod, creating, uids, ignored>>

SyncPods ==
    CASE ~allowed -> Ignore
      [] allowed /\ Deleting(informed.p) -> SyncTermination
      [] allowed /\ ~Deleting(informed.p) /\ Deleting(informed.v) -> SyncDeletion
      [] OTHER ->
            CASE informed.p.node # 0 /\ (informed.v.node # informed.p.node \/ informed.p.node \notin virtualNodes) -> EnsureNode
              [] informed.p.node = 0 /\ informed.v.node # 0 -> DeleteVirtualPod(Period)
              [] OTHER -> IF informed.v.extra /\ ~informed.p.extra THEN SyncEphemeralContainers ELSE SyncStatus

\* SyncToVirtual, without the import of pods that were never virtual.
SyncToVirtual == DeleteHostPod(Period)

ReconcilePod ==
    /\ queued /\ creating = NoPod
    /\ CASE informed.v # NoPod /\ informed.p # NoPod ->
              IF informed.p.of # informed.v.uid
              THEN IF Deleting(informed.p) THEN Requeue ELSE DeleteHostPod(Period)
              ELSE SyncPods
         [] informed.v # NoPod /\ informed.p = NoPod -> SyncToHost
         [] informed.v = NoPod /\ informed.p # NoPod -> SyncToVirtual
         [] OTHER -> Done

RestartPods ==
    /\ Acts
    /\ run.restarts
    /\ informed' = [v |-> vPod, p |-> pPod]
    /\ entries' = Forgotten
    /\ creating' = NoPod
    /\ queued' = TRUE
    /\ slipped' = TRUE
    /\ UNCHANGED <<run, vPod, pPod, virtualNodes, token, allowed, dns, uids, startups, ignored>>

Kubelet == KubeletStarts \/ KubeletStops
LifeNext ==
    \/ UserCreatesPod \/ UserDeletesPod \/ UserDebugsPod \/ HostDeletesPod
    \/ VirtualScheduler \/ HostScheduler \/ Kubelet \/ NodeAppears \/ CollectToken
    \/ ClassChanges \/ DNSAppears \/ Informer
    \/ ReconcilePod \/ CreateHostObject \/ RestartPods

\* Everyone but the users and those who delete host pods goes on.
LifeFairness ==
    /\ WF_podVars(part = "pods" /\ (VirtualScheduler \/ HostScheduler))
    /\ WF_podVars(part = "pods" /\ Kubelet)
    /\ WF_podVars(part = "pods" /\ (NodeAppears \/ CollectToken \/ DNSAppears))
    /\ WF_podVars(part = "pods" /\ Informer)
    /\ WF_podVars(part = "pods" /\ (ReconcilePod \/ CreateHostObject))

LifeTypeOK ==
    /\ vPod \in PodRecords \cup {NoPod} /\ pPod \in PodRecords \cup {NoPod}
    /\ informed.v \in PodRecords \cup {NoPod} /\ informed.p \in PodRecords \cup {NoPod}
    /\ entries \in [v: BOOLEAN, p: BOOLEAN]
    /\ virtualNodes \subseteq HostNodes
    /\ token \in [for: Virtuals, owner: 0..MaxPods] \cup {NoPod}

-----------------------------------------------------------------------------
Paired == vPod # NoPod /\ pPod # NoPod /\ pPod.of = vPod.uid

\* A pod runs once: its host pod is not created again after it has been started, since the
\* object cache remembers the host pod and the status that it started; only a syncer that
\* restarts before it has seen the status, or whose cache lags, forgets (SyncToHost).
RunsOnce == \A u \in Virtuals : startups[u] > 1 => slipped

\* Both pods of a pair are on the same node, one of the virtual cluster, which is one that the
\* selector for nodes allows (SyncToHost, ensureNode).
NodesAgree ==
    part = "pods" /\ Paired /\ vPod.node # 0 =>
        /\ pPod.node \in {0, vPod.node}
        /\ vPod.started /\ ~Deleting(pPod) => vPod.node \in virtualNodes
        /\ run.selector => pPod.node \in SelectedNodes \cup {0}

\* A host pod has the tokens of its own virtual pod, also when a pod of the same name was there
\* before: the Secret is replaced before the pod is created, and goes with the old pod only
\* while that owns it (SATokenSecret, SetPodAsOwner).
TokenMatches ==
    (part = "pods" /\ run.secrets /\ pPod # NoPod /\ ~Deleting(pPod) /\ ~slipped) =>
        token # NoPod /\ token.for = pPod.of /\ token.owner \in {0, pPod.uid}

\* The syncer does not remove a virtual pod that has a node while its host pod is there: it
\* waits for its grace period to end (SyncToHost, Sync).
RemovedLast ==
    (/\ part = "pods" /\ ~slipped'
     /\ vPod # NoPod /\ vPod.node # 0 /\ informed.v # NoPod
     /\ vPod' = NoPod /\ informed'.v = NoPod) => ~Paired

Together ==
    /\ ~Deleting(vPod) /\ ~Deleting(pPod)
    /\ vPod.node = pPod.node /\ vPod.started /\ pPod.started
    /\ vPod.extra => pPod.extra
    /\ run.secrets => token # NoPod /\ token.owner = pPod.uid

\* In the end both pods are gone, or both are there: on one node, with the status of the host
\* pod, its extra containers, and a Secret that goes with it; unless the classes that the pod
\* names once did not let it be synced (Sync, SyncToHost, SyncToVirtual).
PodSettles ==
    <>[](part # "pods" \/ ~allowed \/ ignored \/ uids.p = MaxPods
         \/ (vPod = NoPod /\ pPod = NoPod)
         \/ (Paired /\ Together)
         \/ (run.selector /\ vPod # NoPod /\ vPod.node \notin {0} \cup virtualNodes))

\* A virtual pod and its host pod are one pod: run once, on the same node, with the
\* token of its own (Sync, ensureNode, SATokenSecret).
PodsConsistent == RunsOnce /\ NodesAgree /\ TokenMatches

=============================================================================
