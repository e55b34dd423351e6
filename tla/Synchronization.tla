--------------------------- MODULE Synchronization ---------------------------
(***************************************************************************)
(* The sync controller together with what acts on the same pair of         *)
(* objects: the clean-up of the object cache, the API proxy that creates   *)
(* and converts services on both sides, users of the virtual cluster,      *)
(* users and controllers of the host cluster, failures and restarts.       *)
(***************************************************************************)
EXTENDS SyncController

VARIABLES cleaner,  \* the cache clean-up in progress
          proxy,    \* the service request in progress
          excused   \* uids of virtual objects someone outside the syncer gave up

controller == << seen, cache, queued, worker >>
surroundings == << kind, wanted, blocked >>
others == << cleaner, proxy, excused >>

vars == << syncVars, others >>

Uses(budget) ==
    /\ left[budget] > 0
    /\ left' = [left EXCEPT ![budget] = @ - 1]

(***************************************************************************)
(* The clean-up of the object cache (pkg/syncer/synccontext/cache.go). A   *)
(* pass looks for one object, then for the other, then deletes entries.    *)
(***************************************************************************)
CleanLook(side) ==
    /\ cleaner = "off"
    /\ cache[side] # None
    /\ seen[side] = None
    /\ Uses("cleanups")
    /\ cleaner' = side
    /\ UNCHANGED <<surroundings, api, version, controller, proxy, excused>>

Other(side) == CHOOSE s \in Both : s # side

CleanLookOther ==
    /\ cleaner \in Both
    /\ cleaner' = IF seen[Other(cleaner)] # None THEN "off"
                  ELSE IF cleaner = "host" THEN "dropBoth" ELSE "dropVirtual"
    /\ UNCHANGED <<syncVars, proxy, excused>>

(* The host pass deletes both entries; the virtual pass deletes its own    *)
(* and, in the host cache, an entry under the virtual name.                *)
CleanDrop ==
    /\ cleaner \in {"dropBoth", "dropVirtual"}
    /\ cache' = IF cleaner = "dropBoth" THEN Empty ELSE [cache EXCEPT !["virtual"] = None]
    /\ cleaner' = "off"
    /\ UNCHANGED <<surroundings, left, api, version, seen, queued, worker, proxy, excused>>

CleanerStep == (\E side \in Both : CleanLook(side)) \/ CleanLookOther \/ CleanDrop

(***************************************************************************)
(* The API proxy (pkg/server/filters/service.go): a service is created on  *)
(* the host first, where its cluster IP comes from, then in the virtual    *)
(* cluster; a service that stops being an external name is changed in the  *)
(* same order. If the second step fails the host service is deleted.       *)
(***************************************************************************)
NewObject(n) ==
    [uid |-> 0, rv |-> 0, del |-> FALSE, fin |-> FALSE, data |-> [k \in Keys |-> n],
     labels |-> [k \in Keys |-> n], spec |-> n, status |-> 0, owner |-> 0,
     made |-> FALSE, mark |-> FALSE, ip |-> 0, type |-> "ClusterIP"]

NoRequest == [step |-> "none", obj |-> None]

Put(side, o) == api' = [api EXCEPT ![side] = o] /\ version' = version + 1

createService(type) ==
    LET v == [NewObject(version + 1) EXCEPT !.type = type]
        host == Stored("host", [HostMetadata(v) EXCEPT !.mark = TRUE])
    IN  /\ proxy = NoRequest
        /\ api["host"] = None
        /\ Uses("services")
        /\ Put("host", host)
        /\ proxy' = [step |-> "create", obj |-> [v EXCEPT !.ip = host.ip]]
        /\ blocked' = TRUE
        /\ UNCHANGED <<kind, wanted, controller, cleaner, excused>>

(* The request is against the current virtual service; the host service is *)
(* patched whatever its version.                                           *)
updateService ==
    LET v == api["virtual"]
        host == [api["host"] EXCEPT !.type = "ClusterIP", !.ip = 2, !.rv = version + 1]
    IN  /\ proxy = NoRequest
        /\ v # None
        /\ v.type = External
        /\ api["host"] # None
        /\ Uses("conversions")
        /\ Put("host", host)
        /\ proxy' = [step |-> "update",
                     obj |-> [v EXCEPT !.type = "ClusterIP", !.ip = 2, !.spec = version + 1]]
        /\ UNCHANGED <<surroundings, controller, cleaner, excused>>

Accepted ==
    IF proxy.step = "create" THEN api["virtual"] = None
    ELSE api["virtual"] # None /\ api["virtual"].rv = proxy.obj.rv

ProxyFinishes ==
    /\ proxy.step \in {"create", "update"}
    /\ Accepted
    /\ Put("virtual", IF proxy.step = "create" THEN Stored("virtual", proxy.obj)
                      ELSE [proxy.obj EXCEPT !.rv = version + 1])
    /\ proxy' = NoRequest
    /\ UNCHANGED <<surroundings, left, controller, cleaner, excused>>

ProxyIsRefused ==
    /\ proxy.step \in {"create", "update"}
    /\ \/ ~Accepted /\ UNCHANGED left
       \/ Uses("failures")
    /\ proxy' = [proxy EXCEPT !.step = "undo"]
    /\ UNCHANGED <<surroundings, api, version, controller, cleaner, excused>>

ProxyUndoes ==
    /\ proxy.step = "undo"
    /\ api' = [api EXCEPT !["host"] = None]
    /\ proxy' = NoRequest
    /\ UNCHANGED <<surroundings, left, version, controller, cleaner, excused>>

(* No request, event or reconcile takes as long as the two minutes the     *)
(* host service is young.                                                  *)
TwoMinutesPass ==
    /\ kind = "service"
    /\ blocked
    /\ proxy = NoRequest
    /\ seen = api
    /\ api["virtual"] # None /\ api["host"] # None => api["host"].owner = api["virtual"].uid
    /\ blocked' = FALSE
    /\ UNCHANGED <<kind, left, wanted, api, version, controller, others>>

ProxyStep ==
    \/ \E type \in {"ClusterIP", External} : createService(type)
    \/ updateService

(***************************************************************************)
(* Users and the host cluster.                                             *)
(***************************************************************************)
AddObject(side, budget) ==
    /\ api[side] = None
    /\ Uses(budget)
    /\ Put(side, Stored(side, NewObject(version + 1)))
    /\ UNCHANGED <<surroundings, controller, others>>

Parts == Keys \cup {"labels"} \cup (IF kind \in Specless THEN {} ELSE {"spec"})

Edited(o, part) ==
    CASE part = "spec" -> [o EXCEPT !.spec = version + 1]
      [] part = "status" -> [o EXCEPT !.status = version + 1]
      [] part = "labels" -> [o EXCEPT !.labels = [k \in Keys |-> version + 1]]
      [] part \in Keys -> [o EXCEPT !.data[part] = version + 1]

EditObject(side, budget, part) ==
    /\ api[side] # None
    /\ ~api[side].del
    /\ Uses(budget)
    /\ Put(side, [Edited(api[side], part) EXCEPT !.rv = version + 1])
    /\ UNCHANGED <<surroundings, controller, others>>

(* A service changed into an external name loses its cluster IP. The proxy *)
(* does not intercept this.                                                *)
UserMakesExternal ==
    /\ api["virtual"] # None
    /\ api["virtual"].type # External
    /\ Uses("switches")
    /\ Put("virtual", [api["virtual"] EXCEPT !.type = External, !.ip = 0, !.rv = version + 1])
    /\ UNCHANGED <<surroundings, controller, others>>

RemoveObject(side, budget) ==
    LET o == api[side]
    IN  /\ o # None
        /\ ~o.del
        /\ Uses(budget)
        /\ IF o.fin THEN Put(side, [o EXCEPT !.del = TRUE, !.rv = version + 1])
           ELSE api' = [api EXCEPT ![side] = None] /\ UNCHANGED version
        /\ excused' = excused \cup {IF side = "virtual" THEN o.uid ELSE o.owner}
        /\ UNCHANGED <<surroundings, controller, cleaner, proxy>>

(* Kubelets and controllers finish a deletion on the host; in the virtual  *)
(* cluster there are no kubelets, but claims and namespaces are finalized. *)
Finalized == {"persistentVolumeClaim", "namespace"}

Finalize(side) ==
    /\ api[side] # None
    /\ api[side].del
    /\ side = "host" \/ kind \in Finalized
    /\ api' = [api EXCEPT ![side] = None]
    /\ UNCHANGED <<surroundings, left, version, controller, others>>

(* Pods start or stop using the object, the node appears or goes; a        *)
(* restore or a missing namespace begins or ends to hold the syncer up.    *)
Toggle ==
    /\ Uses("toggles")
    /\ \/ kind \in Watching /\ wanted' = ~wanted /\ UNCHANGED blocked
       \/ kind \in Blocking /\ blocked' = ~blocked /\ UNCHANGED wanted
    /\ queued' = (queued \/ kind \in Watching)
    /\ UNCHANGED <<kind, api, version, seen, cache, worker, others>>

(* The syncer restarts: informers list anew and every object is queued. *)
Crash ==
    /\ Uses("crashes")
    /\ seen' = api
    /\ cache' = Empty
    /\ worker' = Idle
    /\ queued' = TRUE
    /\ cleaner' = "off"
    /\ proxy' = NoRequest
    /\ UNCHANGED <<surroundings, api, version, excused>>

Init ==
    /\ \E s \in Scenarios : kind = s.kind /\ left = s.left
    /\ api = Empty
    /\ seen = Empty
    /\ cache = Empty
    /\ version = FirstVersion
    /\ queued = FALSE
    /\ worker = Idle
    /\ wanted = TRUE
    /\ blocked = FALSE
    /\ cleaner = "off"
    /\ proxy = NoRequest
    /\ excused = {}

UserStep ==
    \/ AddObject("virtual", "creates")
    \/ \E part \in Parts : EditObject("virtual", "edits", part)
    \/ UserMakesExternal
    \/ RemoveObject("virtual", "deletes")

HostStep ==
    \/ AddObject("host", "hostCreates")
    \/ \E part \in Parts : EditObject("host", "hostEdits", part)
    \/ kind \in Stateful /\ EditObject("host", "hostEdits", "status")
    \/ RemoveObject("host", "hostDeletes")

ControllerStep == SyncerStep /\ UNCHANGED others

Inform(side) == Deliver(side) /\ UNCHANGED others

(* What happens around the controller without anyone deciding it. *)
EnvironmentStep ==
    \/ \E side \in Both : Inform(side) \/ Finalize(side)
    \/ ProxyFinishes \/ ProxyIsRefused \/ ProxyUndoes \/ TwoMinutesPass

Next ==
    \/ ControllerStep
    \/ EnvironmentStep
    \/ CallFails /\ UNCHANGED others
    \/ UserStep
    \/ HostStep
    \/ CleanerStep
    \/ ProxyStep
    \/ Toggle
    \/ Crash

Spec == Init /\ [][Next]_vars

(* The work queue hands out every request and calls return or time out;    *)
(* informers deliver events, deletions and requests complete, time passes. *)
FairSpec == Spec /\ WF_vars(ControllerStep) /\ WF_vars(EnvironmentStep)

(***************************************************************************)
(* Properties.                                                             *)
(***************************************************************************)
V == api["virtual"]

P == api["host"]

Objects ==
    [uid : Nat, rv : Nat, del : BOOLEAN, fin : BOOLEAN, data : [Keys -> Nat],
     labels : [Keys -> Nat], spec : Nat, status : Nat, owner : Nat, made : BOOLEAN,
     mark : BOOLEAN, ip : 0..2, type : {"ClusterIP", External}]

(* The types; what marks a host copy (the uid of its owner, the marker     *)
(* annotations) never reaches an object of the virtual cluster.            *)
TypeOK ==
    /\ \A s \in Both : {api[s], seen[s], cache[s], worker.base[s]} \subseteq Objects \cup {None}
    /\ version \in Nat
    /\ {queued, wanted, blocked} \subseteq BOOLEAN
    /\ worker.pc \in {"idle", "run", "wait"}
    /\ cleaner \in Both \cup {"off", "dropBoth", "dropVirtual"}
    /\ proxy.step \in {"none", "create", "update", "undo"}
    /\ V # None => V.owner = 0 /\ ~V.mark

(* Nothing is left to do: no reconcile, no event, no request, no deletion. *)
Settled ==
    /\ worker.pc = "idle" /\ ~queued /\ seen = api /\ proxy = NoRequest
    /\ P # None => ~P.del
    /\ V # None /\ kind \in Finalized => ~V.del

SpecDecidedByVirtual ==
    {"networkPolicy", "podDisruptionBudget", "endpoints", "endpointSlice", "ingress",
     "priorityClassToHost", "persistentVolumeClaim", "volumeSnapshot", "pod"}

(* A virtual object without host object that the syncer leaves alone. *)
Unmanaged ==
    \/ kind = "event"
    \/ kind \in {"node", "csiNode"} /\ ~V.made
    \/ kind = "fromHost" /\ cache["host"] = None

(* When nothing is left to do the pair agrees: both objects are there or   *)
(* neither is (but for imported namespaces and objects the syncer does not *)
(* manage), the host copy names its owner, and every part with a fixed     *)
(* direction has arrived. This is what Reconcile, the resource syncers and *)
(* the object cache achieve together across lost calls, late informers,    *)
(* restarts, reuse of a name and edits on both sides.                      *)
Convergence ==
    Settled /\ wanted /\ ~blocked =>
        /\ P # None /\ V = None => kind = "namespace" /\ P.mark
        /\ V # None /\ P = None => Unmanaged
        /\ V # None /\ P # None =>
              /\ kind \notin FollowsHost => P.owner = V.uid
              /\ kind \in SpecDecidedByVirtual \cup FollowsHost \cup {"service"} => V.spec = P.spec
              /\ kind \in Stateful => V.status = P.status
              /\ kind = "service" => V.ip = P.ip /\ V.type = P.type
              /\ kind \in FollowsHost => V.labels = P.labels /\ V.data = P.data

(* A config map or secret no pod uses, and a node no pod runs on, are      *)
(* taken back from the other cluster.                                      *)
Withdrawn ==
    Settled /\ ~wanted /\ kind \in Watching => V = None \/ P = None

(* While only one side edits and nothing fails, every edit of data,        *)
(* annotations and labels has reached the other side when nothing is left  *)
(* to do (MergeBidirectional, mergeMaps and the cached last state).        *)
EditsSynced ==
    Settled /\ left.calm = 1 /\ wanted /\ ~blocked /\ V # None /\ P # None =>
        V.data = P.data /\ V.labels = P.labels

SyncerGivesUp ==
    /\ ControllerStep
    /\ worker.todo # <<>> /\ Head(worker.todo).cached
    /\ V # None
    /\ ~V.del /\ ~V.made
    /\ V' # None => V'.del

(* The syncer deletes a virtual object ("host object was deleted") only    *)
(* under a name that a user or the host cluster has given up before: never *)
(* because of a stale informer, a restart or an entry left in the cache.   *)
NameGivenUp ==
    SyncerGivesUp /\ kind \notin FollowsHost => \E u \in excused : u <= V.uid

(* What is only synchronised from the host is never changed on the host.   *)
HostKept ==
    ControllerStep /\ kind \in FollowsHost \ {"csiNode"} => P' = P

SameObject == V # None /\ V' # None /\ V'.uid = V.uid

(* The syncer never puts an older value into the virtual object in place   *)
(* of a newer one: a user's edit is not reverted by what the cache or an   *)
(* informer still shows.                                                   *)
NotReverted ==
    ControllerStep /\ SameObject /\ kind \notin FollowsHost \cup {"priorityClassBoth"} =>
        /\ V'.spec >= V.spec
        /\ \A k \in Keys : V'.data[k] >= V.data[k] /\ V'.labels[k] >= V.labels[k]

(* The selector of a service goes to the host when the virtual one has     *)
(* changed and comes back only when the host one alone has.                *)
SelectorEditKept ==
    [][ControllerStep /\ SameObject /\ kind = "service" => V'.spec >= V.spec]_vars

(* Every change is worked off: the syncer comes to rest, unless something  *)
(* it waits for never happens. Sync waits for ever for the end of a switch *)
(* when the user has made a service with an address an external name.      *)
Switching == P # None /\ V # None /\ isSwitchingFromExternalName(P, V)
Settles == <>[](Settled \/ blocked \/ Switching)

(* When nothing is left to do the two clusters agree on what exists and on *)
(* what is in it (Reconcile, the resource syncers, the object cache).      *)
ClustersAgree == Convergence /\ Withdrawn /\ EditsSynced

(* What no step of the syncer does: give up an object in use, change what  *)
(* belongs to the host, or undo an edit (Reconcile, CopyBidirectional).    *)
NothingUndone == [][NameGivenUp /\ HostKept /\ NotReverted]_vars

=============================================================================
