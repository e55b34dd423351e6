----------------------------- MODULE NodeServices -----------------------------
(***************************************************************************)
(* The fake nodes of the virtual cluster and the Service each of them has  *)
(* on the host (pkg/controllers/resources/nodes/fake_syncer.go,            *)
(* nodeservice/node_service.go). A node exists while pods run on it; its   *)
(* address is the cluster IP of its Service, so that a request for its     *)
(* kubelet comes back to the control plane. cleanupNodeServices removes    *)
(* the Services of nodes that are gone, under the lock that createFakeNode *)
(* holds too. Nodes and Services are read from caches that lag.            *)
(***************************************************************************)
EXTENDS ControlPlaneParts, Naturals, FiniteSets

CONSTANTS
    Nodes,      \* names of nodes
    IPs,        \* cluster IPs, given out again once they are free
    NodeSetups, \* the settings to explore
    NoOne       \* no node, no Service, nobody

\* A setting: the Service name of each node that may come up, the cluster IPs to be
\* had, the kinds of pods that come and go, whether the Service of the vCluster has
\* a selector, whether API calls fail, the syncer restarts, users delete nodes; how
\* much time passes.
ASSUME NodeSetupsAreRecords ==
    \A u \in NodeSetups :
        /\ DOMAIN u = {"service", "ips", "pods", "selector", "faults", "restarts", "users", "clock"}
        /\ DOMAIN u.service \subseteq Nodes
        /\ u.ips \subseteq IPs
        /\ u.pods \subseteq {"virtual", "host", "virtual daemon", "host daemon"}
        /\ {u.selector, u.faults, u.restarts, u.users} \subseteq BOOLEAN
        /\ u.clock \in Nat

VARIABLES
    setup,      \* the setting, which never changes
    assigned,   \* the kinds of pods assigned to each node
    vNodes,     \* the nodes of the virtual cluster
    seen,       \* the nodes in the cache
    services,   \* the node Services on the host
    listed,     \* the Services in the cache
    queue,      \* the nodes to reconcile
    work,       \* the reconcile of each node
    mutex,      \* who holds serviceMutex
    sweep,      \* cleanupNodeServices
    astray      \* history: something the code does not guard against came to pass

nodeVars == <<setup, assigned, vNodes, seen, services, listed, queue, work, mutex, sweep, astray>>

Used == DOMAIN setup.service
ServiceNames == UNION {{u.service[n] : n \in DOMAIN u.service} : u \in NodeSetups}

\* An address is "" where updateIfNeeded could not get one.
FakeNodes == [ip: IPs \cup {NoOne, ""}, ready: BOOLEAN, tainted: BOOLEAN]
NodeServiceObjects == [node: Nodes, ip: IPs, backed: BOOLEAN]

Resting == [step |-> "rest", node |-> NoOne, ip |-> NoOne]
NotSweeping == [items |-> {}, gone |-> NoOne]

NodesInit ==
    /\ setup \in Settings("serving", NodeSetups)
    /\ assigned = [n \in Nodes |-> {}]
    /\ vNodes = [n \in Nodes |-> NoOne]
    /\ seen = vNodes
    /\ services = [s \in ServiceNames |-> NoOne]
    /\ listed = services
    /\ queue = {}
    /\ work = [n \in Nodes |-> Resting]
    /\ mutex = NoOne
    /\ sweep = NotSweeping
    /\ astray = FALSE

-----------------------------------------------------------------------------
(* Pods, caches, users                                                       *)

\* isNodeNeededByPod without the daemon sets' pods.
Needed(n) == assigned[n] \cap {"virtual", "host"} # {}

\* The watches on the pods of both clusters enqueue the node.
PodsChange(n) ==
    /\ n \in Used
    /\ \E p \in setup.pods :
          assigned' = [assigned EXCEPT ![n] = IF p \in @ THEN @ \ {p} ELSE @ \cup {p}]
    /\ queue' = queue \cup {n}
    /\ UNCHANGED <<setup, vNodes, seen, services, listed, work, mutex, sweep, astray>>

\* The watch on the nodes themselves.
SeeNode(n) ==
    /\ seen[n] # vNodes[n]
    /\ seen' = [seen EXCEPT ![n] = vNodes[n]]
    /\ queue' = queue \cup {n}
    /\ UNCHANGED <<setup, assigned, vNodes, services, listed, work, mutex, sweep, astray>>

SeeService(s) ==
    /\ listed[s] # services[s]
    /\ listed' = [listed EXCEPT ![s] = services[s]]
    /\ UNCHANGED <<setup, assigned, vNodes, seen, services, queue, work, mutex, sweep, astray>>

Creating(n) == work[n].step \in {"service", "status", "taints"}

UserDeletesNode(n) ==
    /\ setup.users
    /\ vNodes[n] # NoOne
    /\ vNodes' = [vNodes EXCEPT ![n] = NoOne]
    /\ astray' = (astray \/ Creating(n))
    /\ UNCHANGED <<setup, assigned, seen, services, listed, queue, work, mutex, sweep>>

\* The caches are filled again and every node in them is reconciled.
RestartSyncer ==
    /\ setup.restarts
    /\ seen' = vNodes
    /\ listed' = services
    /\ queue' = {n \in Used : assigned[n] # {} \/ vNodes[n] # NoOne}
    /\ work' = [n \in Nodes |-> Resting]
    /\ mutex' = NoOne
    /\ sweep' = NotSweeping
    /\ astray' = (astray \/ \E n \in Nodes : Creating(n))
    /\ UNCHANGED <<setup, assigned, vNodes, services>>

-----------------------------------------------------------------------------
(* GetNodeIP                                                                 *)

Free == setup.ips \ {services[s].ip : s \in {t \in ServiceNames : services[t] # NoOne}}

\* The Service in the cache, whose endpoints are written again when it has no
\* selector, or a new one.
GetNodeIP(n, ip) ==
    LET s == setup.service[n]
    IN \/ /\ listed[s] # NoOne
          /\ ip = listed[s].ip
          /\ services' = IF services[s] = NoOne THEN services ELSE [services EXCEPT ![s].backed = TRUE]
       \/ /\ listed[s] = NoOne /\ services[s] = NoOne
          /\ ip \in Free
          /\ services' = [services EXCEPT ![s] = [node |-> n, ip |-> ip, backed |-> TRUE]]

\* The Service exists but is not in the cache, or a call fails: none of them, or
\* the one that writes the endpoints of a new Service.
GetNodeIPFails(n) ==
    LET s == setup.service[n]
    IN \/ /\ setup.faults \/ (listed[s] = NoOne /\ services[s] # NoOne)
          /\ UNCHANGED services
       \/ /\ setup.faults /\ ~setup.selector
          /\ listed[s] = NoOne /\ services[s] = NoOne
          /\ \E ip \in Free : services' = [services EXCEPT ![s] = [node |-> n, ip |-> ip, backed |-> FALSE]]

\* The Service is not the one of this node any more, or never was.
Misled(n, ip) == ~\E s \in ServiceNames : services'[s] # NoOne /\ services'[s].node = n /\ services'[s].ip = ip

-----------------------------------------------------------------------------
(* Reconcile: FakeSyncToVirtual and FakeSync                                 *)

Steps(n, step) == work' = [work EXCEPT ![n].step = step]
Rest(n) == work' = [work EXCEPT ![n] = Resting]
Retry(n) == Rest(n) /\ queue' = queue \cup {n}

\* A worker takes the node from the queue and reads it from the cache.
Reconcile(n) ==
    /\ n \in queue
    /\ work[n] = Resting
    /\ queue' = queue \ {n}
    /\ work' = [work EXCEPT ![n] =
                  [Resting EXCEPT !.node = seen[n],
                                  !.step = IF seen[n] = NoOne
                                           THEN IF Needed(n) THEN "create" ELSE "rest"
                                           ELSE IF Needed(n) THEN "address" ELSE "delete"]]
    /\ UNCHANGED <<setup, assigned, vNodes, seen, services, listed, mutex, sweep, astray>>

DeleteFakeNode(n) ==
    /\ work[n].step = "delete"
    /\ \/ /\ vNodes' = [vNodes EXCEPT ![n] = NoOne]
          /\ IF vNodes[n] = NoOne THEN Retry(n) ELSE Rest(n) /\ UNCHANGED queue
       \/ /\ setup.faults
          /\ Retry(n)
          /\ UNCHANGED vNodes
    /\ UNCHANGED <<setup, assigned, seen, services, listed, mutex, sweep, astray>>

\* Without the lock (a faulty CreateFakeNode).
CreateFakeNodeUnlocked(n) ==
    /\ work[n].step = "create"
    /\ IF vNodes[n] = NoOne
       THEN /\ vNodes' = [vNodes EXCEPT ![n] = [ip |-> NoOne, ready |-> FALSE, tainted |-> TRUE]]
            /\ Steps(n, "service")
            /\ UNCHANGED queue
       ELSE Retry(n) /\ UNCHANGED vNodes
    /\ UNCHANGED <<setup, assigned, seen, services, listed, sweep, astray, mutex>>

\* createFakeNode: under the lock, the node, its Service, its status, its taints.
CreateFakeNode(n) ==
    /\ work[n].step = "create"
    /\ mutex = NoOne
    /\ IF vNodes[n] = NoOne
       THEN /\ vNodes' = [vNodes EXCEPT ![n] = [ip |-> NoOne, ready |-> FALSE, tainted |-> TRUE]]
            /\ Steps(n, "service")
            /\ mutex' = n
            /\ UNCHANGED queue
       ELSE Retry(n) /\ UNCHANGED <<vNodes, mutex>>
    /\ UNCHANGED <<setup, assigned, seen, services, listed, sweep, astray>>

CreateNodeService(n) ==
    /\ work[n].step = "service"
    /\ \E ip \in IPs :
          /\ GetNodeIP(n, ip)
          /\ work' = [work EXCEPT ![n].step = "status", ![n].ip = ip]
          /\ astray' = (astray \/ Misled(n, ip))
    /\ UNCHANGED <<setup, assigned, vNodes, seen, listed, queue, mutex, sweep>>

PatchNodeStatus(n) ==
    /\ work[n].step = "status"
    /\ vNodes[n] # NoOne
    /\ vNodes' = [vNodes EXCEPT ![n].ip = work[n].ip, ![n].ready = TRUE]
    /\ Steps(n, "taints")
    /\ UNCHANGED <<setup, assigned, seen, services, listed, queue, mutex, sweep, astray>>

RemoveNotReadyTaints(n) ==
    /\ work[n].step = "taints"
    /\ vNodes[n] # NoOne
    /\ vNodes' = [vNodes EXCEPT ![n].tainted = FALSE]
    /\ Rest(n)
    /\ mutex' = NoOne
    /\ UNCHANGED <<setup, assigned, seen, services, listed, queue, sweep, astray>>

\* The rest of createFakeNode is not made up for: FakeSync knows of addresses only.
CreateFakeNodeFails(n) ==
    /\ \/ work[n].step = "service" /\ GetNodeIPFails(n)
       \/ /\ work[n].step \in {"status", "taints"}
          /\ setup.faults \/ vNodes[n] = NoOne
          /\ UNCHANGED services
    /\ Retry(n)
    /\ mutex' = NoOne
    /\ astray' = TRUE
    /\ UNCHANGED <<setup, assigned, vNodes, seen, listed, sweep>>

\* updateIfNeeded: the address is "" when there is none to be had.
UpdateIfNeeded(n) ==
    /\ work[n].step = "address"
    /\ \E ip \in IPs \cup {""} :
          /\ IF ip = "" THEN GetNodeIPFails(n) ELSE GetNodeIP(n, ip)
          /\ IF ip = work[n].node.ip THEN Rest(n)
             ELSE work' = [work EXCEPT ![n].step = "update", ![n].ip = ip]
          /\ astray' = (astray \/ (IF ip = "" THEN work[n].node.ip = "" ELSE Misled(n, ip)))
    /\ UNCHANGED <<setup, assigned, vNodes, seen, listed, queue, mutex, sweep>>

\* Status().Update is refused when the node has changed since it was read.
UpdateNodeStatus(n) ==
    /\ work[n].step = "update"
    /\ \/ /\ vNodes[n] = work[n].node
          /\ vNodes' = [vNodes EXCEPT ![n].ip = work[n].ip]
          /\ Rest(n)
          /\ UNCHANGED queue
       \/ /\ setup.faults \/ vNodes[n] # work[n].node
          /\ Retry(n)
          /\ UNCHANGED vNodes
    /\ UNCHANGED <<setup, assigned, seen, services, listed, mutex, sweep, astray>>

-----------------------------------------------------------------------------
(* cleanupNodeServices                                                       *)

SweepBegins ==
    /\ mutex = NoOne
    /\ \E s \in ServiceNames : listed[s] # NoOne
    /\ mutex' = "sweep"
    /\ sweep' = [NotSweeping EXCEPT !.items = {[name |-> s, node |-> listed[s].node] :
                                               s \in {t \in ServiceNames : listed[t] # NoOne}}]
    /\ UNCHANGED <<setup, assigned, vNodes, seen, services, listed, queue, work, astray>>

\* A node that is not in the cache is looked up once more; any error of that
\* look-up counts as not found.
SweepLooksUp(item) ==
    /\ mutex = "sweep" /\ sweep.gone = NoOne
    /\ \E fails \in {FALSE, setup.faults} :
          LET exist == seen[item.node] # NoOne \/ (vNodes[item.node] # NoOne /\ ~fails)
          IN /\ sweep' = [items |-> sweep.items \ {item}, gone |-> IF exist THEN NoOne ELSE item.name]
             /\ astray' = (astray \/ (~exist /\ vNodes[item.node] # NoOne))
    /\ UNCHANGED <<setup, assigned, vNodes, seen, services, listed, queue, work, mutex>>

\* Another node may have been given the same Service.
SweepDeletes ==
    /\ sweep.gone # NoOne
    /\ services' = [services EXCEPT ![sweep.gone] = NoOne]
    /\ sweep' = [sweep EXCEPT !.gone = NoOne]
    /\ astray' = (astray \/ Cardinality({n \in Used : setup.service[n] = sweep.gone}) > 1)
    /\ UNCHANGED <<setup, assigned, vNodes, seen, listed, queue, work, mutex>>

SweepEnds ==
    /\ mutex = "sweep"
    /\ sweep = NotSweeping
    /\ mutex' = NoOne
    /\ UNCHANGED <<setup, assigned, vNodes, seen, services, listed, queue, work, sweep, astray>>

Worker(n) ==
    \/ Reconcile(n) \/ DeleteFakeNode(n) \/ CreateFakeNode(n) \/ CreateNodeService(n)
    \/ PatchNodeStatus(n) \/ RemoveNotReadyTaints(n) \/ CreateFakeNodeFails(n)
    \/ UpdateIfNeeded(n) \/ UpdateNodeStatus(n)

Sweep == SweepBegins \/ (\E item \in sweep.items : SweepLooksUp(item)) \/ SweepDeletes \/ SweepEnds

\* A behaviour is followed until it goes astray.
NodesNext ==
    /\ ~astray
    /\ \/ \E n \in Nodes : PodsChange(n) \/ SeeNode(n) \/ UserDeletesNode(n) \/ Worker(n)
       \/ \E s \in ServiceNames : SeeService(s)
       \/ RestartSyncer
       \/ Sweep
=============================================================================
