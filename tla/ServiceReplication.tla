--------------------------- MODULE ServiceReplication ---------------------------
(***************************************************************************)
(* Two controllers that copy a Service between the clusters.               *)
(* ServiceSyncer (pkg/controllers/servicesync) replicates a Service under  *)
(* another name, with the source's selector or with Endpoints of its own.  *)
(* EndpointController (pkg/controllers/k8sdefaultendpoint) copies the      *)
(* Endpoints of the vCluster's Service to default/kubernetes, and to its   *)
(* EndpointSlice.                                                          *)
(*                                                                         *)
(* Each reconcile reads from caches that follow the API servers one kind   *)
(* at a time. Create and Update with what a cache had are refused if the   *)
(* object has changed since; a patch is not.                               *)
(***************************************************************************)
EXTENDS ControlPlaneParts, Naturals

CONSTANTS
    LinkSetups, \* the settings to explore
    Absent,     \* no object
    MaxEdits    \* bound on the changes by users and the failed calls

\* A setting: how a Service is copied ("endpoints", "selector", or "default" for
\* default/kubernetes), whether users have a Service of the target's name, and
\* whether API calls fail.
ASSUME LinkSetupsAreRecords ==
    /\ \A u \in LinkSetups :
           u.mode \in {"endpoints", "selector", "default"} /\ {u.users, u.faults} \subseteq BOOLEAN
    /\ MaxEdits \in Nat

VARIABLES
    link,       \* the setting, which never changes
    world,      \* the objects in the API servers
    view,       \* the objects in the caches
    news,       \* the objects of which a cache has events to come
    woken,      \* the controller's queue has the request
    edits,      \* number of changes and failures so far
    apart       \* history: the controller came to rest on a stale Endpoints or
                \* EndpointSlice, of which it gets no event that matters

linkVars == <<link, world, view, news, woken, edits, apart>>

\* "from" and "to" are the Services, "fromEnds" and "toEnds" their Endpoints;
\* default/kubernetes has "fromEnds", "toEnds" and "slice".
Things == {"namespace", "from", "fromEnds", "to", "toEnds", "slice"}

Values == {1, 2}

\* The selector as it is (a faulty HostLabels).
HostLabelsUntranslated(selector) == IF selector = Absent THEN Absent ELSE <<"virtual", selector>>

\* Labels of the virtual cluster have other names on the host.
HostLabels(selector) == IF selector = Absent THEN Absent ELSE <<"host", selector>>

\* lb is the status of the load balancer, if the Service is one.
Sources == [ports: Values, selector: Values, headless: BOOLEAN, lb: {0, 1, Absent}]
Targets == [ports: Values, selector: {Absent} \cup ({"host"} \X Values), headless: BOOLEAN, lb: {0, 1}, ours: BOOLEAN]

\* Endpoints have addresses of pods, or the address of a Service and its ports.
Pods(v) == <<"pods", v>>
Address(ports) == <<"service", ports>>
Addresses == {Pods(v) : v \in Values} \cup {Address(p) : p \in Values}

LinkInit ==
    /\ link \in Settings("services", LinkSetups)
    /\ world = [t \in Things |-> Absent]
    /\ view = world
    /\ news = {}
    /\ woken = TRUE
    /\ edits = 0
    /\ apart = FALSE

\* Objects are written.
Stored(new, changed) == world' = new /\ news' = news \cup changed
StoredOne(t, new) == Stored([world EXCEPT ![t] = new], {t})

-----------------------------------------------------------------------------
(* Users, the caches, and the garbage collection of Endpoints.               *)

Edit(t, new) ==
    /\ edits < MaxEdits
    /\ new # world[t]
    /\ StoredOne(t, new)
    /\ edits' = edits + 1
    /\ UNCHANGED <<link, view, woken, apart>>

\* The source is created, changed and deleted; whether a Service is headless
\* cannot be changed.
EditSource ==
    /\ link.mode # "default"
    /\ \E new \in Sources \cup {Absent} :
          /\ (world["from"] # Absent /\ new # Absent) => new.headless = world["from"].headless
          /\ (link.mode = "selector" /\ new # Absent) => new.lb = Absent
          /\ (link.mode = "endpoints" /\ new # Absent) => new.selector = 1
          /\ Edit("from", new)

EditSourceEndpoints == \E v \in Values : Edit("fromEnds", Pods(v))

\* The target is deleted, or has its ports changed, or is a user's own.
EditTarget ==
    /\ link.mode # "default" /\ link.users
    /\ \/ world["to"] # Absent /\ Edit("to", Absent)
       \/ world["to"] # Absent /\ \E p \in Values : Edit("to", [world["to"] EXCEPT !.ports = p])
       \/ /\ world["to"] = Absent
          /\ Edit("to", [ports |-> 1, selector |-> Absent, headless |-> FALSE, lb |-> 0, ours |-> FALSE])

\* The copy at default/kubernetes is deleted.
EditKubernetes == link.mode = "default" /\ link.users /\ Edit("toEnds", Absent)

\* Endpoints go when their Service has gone.
CollectEndpoints ==
    /\ link.mode = "endpoints"
    /\ world["to"] = Absent /\ world["toEnds"] # Absent
    /\ StoredOne("toEnds", Absent)
    /\ UNCHANGED <<link, view, woken, edits, apart>>

\* The watches of Register and SetupWithManager: those of the target's Endpoints
\* in ServiceSyncer only fill the cache.
Watched(t) == t \in (IF link.mode = "default" THEN {"fromEnds", "toEnds", "slice"} ELSE {"from", "fromEnds", "to"})

See(t) ==
    /\ t \in news
    /\ news' = news \ {t}
    /\ view' = [view EXCEPT ![t] = world[t]]
    /\ woken' = (woken \/ Watched(t))
    /\ UNCHANGED <<link, world, edits, apart>>

-----------------------------------------------------------------------------
(* ServiceSyncer.Reconcile                                                   *)

\* An error puts the request back in the queue.
RetryLink == woken' = TRUE /\ UNCHANGED <<world, news, apart>>
RestLink == woken' = FALSE /\ UNCHANGED <<world, news>> /\ apart' = (apart \/ view["toEnds"] # world["toEnds"])

\* Create, Update and Status().Update of an object.
Put(t, new) ==
    IF view[t] # world[t] \/ (view[t] # Absent /\ t \in news) THEN RetryLink
    ELSE StoredOne(t, new) /\ woken' = FALSE /\ UNCHANGED apart

DeleteTarget ==
    /\ IF world["to"] = Absent THEN UNCHANGED <<world, news>> ELSE StoredOne("to", Absent)
    /\ woken' = FALSE
    /\ UNCHANGED apart

NewService ==
    [ports |-> view["from"].ports, lb |-> 0, ours |-> TRUE,
     headless |-> link.mode = "endpoints" \/ view["from"].headless,
     selector |-> IF link.mode = "endpoints" THEN Absent ELSE HostLabels(view["from"].selector)]

\* The namespace of the target first, if it is missing in the virtual cluster.
CreateTarget ==
    IF link.mode = "endpoints" /\ view["namespace"] = Absent
    THEN \/ world["namespace"] # Absent /\ RetryLink
         \/ /\ world["namespace"] = Absent
            /\ LET made == [world EXCEPT !["namespace"] = "there"]
               IN IF world["to"] # Absent
                  THEN Stored(made, {"namespace"}) /\ woken' = TRUE /\ UNCHANGED apart
                  ELSE Stored([made EXCEPT !["to"] = NewService], {"namespace", "to"}) /\ woken' = FALSE /\ UNCHANGED apart
    ELSE Put("to", NewService)

syncServiceWithSelector ==
    LET from == view["from"]
        to == view["to"]
        selector == HostLabels(from.selector)
    IN IF to.ports # from.ports \/ to.selector # selector
       THEN Put("to", [to EXCEPT !.ports = from.ports, !.selector = selector])
       ELSE RestLink

\* The Endpoints the target is to have; Absent is an error.
ExpectedSubsets ==
    IF view["from"].headless THEN view["fromEnds"] ELSE Address(view["to"].ports)

syncServiceAndEndpoints ==
    LET from == view["from"]
        to == view["to"]
    IN IF from.lb # Absent /\ from.lb # to.lb THEN Put("to", [to EXCEPT !.lb = from.lb])
       ELSE IF to.ports # from.ports THEN Put("to", [to EXCEPT !.ports = from.ports])
       ELSE IF ExpectedSubsets = Absent THEN RetryLink
       ELSE IF view["toEnds"] # ExpectedSubsets THEN Put("toEnds", ExpectedSubsets)
       ELSE RestLink

ReconcileService ==
    IF view["from"] = Absent THEN DeleteTarget
    ELSE IF view["to"] = Absent THEN CreateTarget
    ELSE IF ~view["to"].ours THEN RestLink
    ELSE IF link.mode = "selector" THEN syncServiceWithSelector
    ELSE syncServiceAndEndpoints

-----------------------------------------------------------------------------
(* EndpointController.Reconcile                                              *)

\* controllerutil.CreateOrPatch of one object: what it is afterwards.
Refused(t) == (view[t] = Absent) # (world[t] = Absent)
CreateOrPatch(t, new) == IF view[t] = new THEN world[t] ELSE new

\* The slice is written only after a change of the Endpoints.
syncKubernetesServiceEndpoints ==
    LET new == view["fromEnds"]
    IN IF new = Absent \/ view["toEnds"] = new
       THEN woken' = FALSE /\ UNCHANGED <<world, news, apart>>
       ELSE IF Refused("toEnds") THEN RetryLink
       ELSE LET slice == IF Refused("slice") THEN world["slice"] ELSE CreateOrPatch("slice", new)
            IN /\ Stored([world EXCEPT !["toEnds"] = new, !["slice"] = slice],
                          {"toEnds"} \cup {t \in {"slice"} : slice # world["slice"]})
               /\ woken' = Refused("slice")
               /\ apart' = (apart \/ slice # new)

ReconcileLink ==
    /\ woken
    /\ IF link.mode = "default" THEN syncKubernetesServiceEndpoints ELSE ReconcileService
    /\ UNCHANGED <<link, view, edits>>

\* A call fails: nothing, or the namespace or the Endpoints without what follows.
ReconcileLinkFails ==
    /\ woken /\ link.faults /\ edits < MaxEdits
    /\ edits' = edits + 1
    /\ \/ RetryLink
       \/ /\ link.mode = "endpoints"
          /\ view["from"] # Absent /\ view["to"] = Absent
          /\ view["namespace"] = Absent /\ world["namespace"] = Absent
          /\ StoredOne("namespace", "there")
          /\ UNCHANGED <<woken, apart>>
       \/ /\ link.mode = "default"
          /\ view["fromEnds"] # Absent /\ view["toEnds"] # view["fromEnds"] /\ ~Refused("toEnds")
          /\ StoredOne("toEnds", view["fromEnds"])
          /\ apart' = (apart \/ world["slice"] # view["fromEnds"])
          /\ UNCHANGED woken
    /\ UNCHANGED <<link, view>>

SeeThing == \E t \in Things : See(t)

LinkNext ==
    \/ EditSource \/ EditSourceEndpoints \/ EditTarget \/ EditKubernetes
    \/ CollectEndpoints \/ SeeThing
    \/ ReconcileLink \/ ReconcileLinkFails

LinkFairness ==
    /\ \A t \in Things : WF_linkVars(part = "services" /\ See(t))
    /\ WF_linkVars(part = "services" /\ ReconcileLink)

-----------------------------------------------------------------------------
LinkTypeOK ==
    /\ link \in LinkSetups
    /\ \A w \in {world, view} :
          /\ DOMAIN w = Things
          /\ w["namespace"] \in {Absent, "there"}
          /\ w["from"] \in Sources \cup {Absent}
          /\ w["to"] \in Targets \cup {Absent}
          /\ {w["fromEnds"], w["toEnds"], w["slice"]} \subseteq Addresses \cup {Absent}
    /\ news \subseteq Things
    /\ woken \in BOOLEAN /\ apart \in BOOLEAN
    /\ edits \in 0..MaxEdits

\* ServiceSyncer never changes a Service that a user has created under the
\* target's name, as long as its cache has the source: the label that tells it is
\* read from a cache, but an Update with what was read is refused if the user's
\* Service has come in between.
UsersServiceKept ==
    ReconcileLink /\ link.mode # "default" /\ view["from"] # Absent
      /\ world["to"] # Absent /\ ~world["to"].ours
    => world'["to"] = world["to"]

InStep ==
    LET from == world["from"]
        to == world["to"]
    IN \/ from = Absent /\ to = Absent
       \/ from # Absent /\ to # Absent /\ ~to.ours
       \/ /\ from # Absent /\ to # Absent
          /\ to.ports = from.ports
          /\ link.mode = "selector" => to.selector = HostLabels(from.selector)
          /\ link.mode = "endpoints" =>
                /\ from.lb # Absent => to.lb = from.lb
                /\ world["toEnds"] = IF from.headless THEN world["fromEnds"] ELSE Address(from.ports)

\* Once users leave them alone, a replicated Service has the ports and the
\* selector, or the load balancer status and the Endpoints, of its source, and is
\* gone with it, although every pass of ServiceSyncer makes at most one change and
\* counts on an event for the next. (It waits for the Endpoints of a headless
\* source.)
ReplicaFollows ==
    <>[](link.mode = "default" \/ apart \/ InStep \/ (world["from"] # Absent /\ world["from"].headless /\ world["fromEnds"] = Absent))

\* Once they rest, default/kubernetes and its EndpointSlice have the addresses of
\* the vCluster's own Endpoints.
KubernetesFollows ==
    <>[](link.mode # "default" \/ apart \/ world["fromEnds"] = Absent
         \/ (world["toEnds"] = world["fromEnds"] /\ world["slice"] = world["fromEnds"]))

=============================================================================
