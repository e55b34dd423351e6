--------------------------- MODULE SyncController ---------------------------
(***************************************************************************)
(* The sync controller (pkg/syncer/syncer.go) for one pair of objects, the *)
(* virtual one and its host copy, with the state it works on:              *)
(*  - the two API servers (api) and the informers that lag behind them     *)
(*    (seen);                                                              *)
(*  - the object cache, the last synchronised pair (cache);                *)
(*  - the worker, which runs a resource syncer's plan call by call, each   *)
(*    through the client that waits until the informer shows the effect.   *)
(* Requests for one name are never processed concurrently, so one worker   *)
(* is enough. A value written by an edit is the resource version of that   *)
(* edit: a larger value is a later one.                                    *)
(***************************************************************************)
EXTENDS ResourceSyncers, Naturals, TLC

CONSTANTS Scenarios,    \* kinds and numbers of edits, deletions and faults to explore
          FirstVersion, \* the resource version before the first write
          LateVersion   \* bound: from here on informers are up to date when a reconcile starts

VARIABLES kind,     \* the resource the controller synchronises
          left,     \* how often users, hosts and faults may still act
          api,      \* the objects in the two clusters
          seen,     \* what the informers show of them
          cache,    \* the object cache
          version,  \* the last resource version given out
          queued,   \* the request is in the work queue
          worker,   \* the reconcile in progress
          wanted,   \* what else decides whether the pair is synchronised
          blocked   \* what else makes the syncer wait

syncVars == << kind, left, api, seen, cache, version, queued, worker, wanted, blocked >>

(***************************************************************************)
(* Kinds and their options.                                                *)
(***************************************************************************)
FollowsHost == {"csiDriver", "csiStorageCapacity", "ingressClass", "runtimeClass",
                "hostStorageClass", "volumeSnapshotClass", "node", "csiNode", "event",
                "fromHost", "priorityClassFromHost"}

Caching(k) == k \notin FollowsHost \/ k \in {"fromHost", "priorityClassFromHost"}

DisableUIDDeletion == {"namespace", "persistentVolume", "service", "persistentVolumeClaim"}

(* Kinds that outlive a delete call: a grace period or finalizers. *)
Lingering == {"pod", "namespace", "persistentVolume", "persistentVolumeClaim",
              "volumeSnapshot", "volumeSnapshotContent"}

(* Kinds the model gives no specification or no status. *)
Specless == {"configMap", "secret", "serviceAccount", "namespace"}

Stateful == {"service", "ingress", "persistentVolumeClaim", "persistentVolume",
             "volumeSnapshot", "volumeSnapshotContent", "pod", "node"}

(* Kinds whose syncer watches what decides whether they are wanted. *)
Watching == {"configMap", "secret", "node", "csiNode"}

(* Kinds whose syncer asks again while something holds it up. *)
Blocking == {"persistentVolumeClaim", "persistentVolume", "pod", "fromHost"}

(***************************************************************************)
(* Reconcile.                                                              *)
(***************************************************************************)
Idle == [pc |-> "idle", todo |-> <<>>, again |-> FALSE,
         base |-> [s \in Both |-> None], old |-> [s \in Both |-> 0]]

Empty == [s \in Both |-> None]

newerResourceVersion(a, b) == a # None /\ b # None /\ a.rv > b.rv

(* IsManaged and ExcludePhysical: volumes of the host are synchronised     *)
(* only while a virtual claim or snapshot refers to them.                  *)
excludePhysical(p) ==
    /\ p # None
    /\ ~wanted
    /\ \/ kind = "persistentVolume" /\ ~p.made
       \/ kind = "volumeSnapshotContent"

getObjects ==
    LET v == seen["virtual"]
        p == seen["host"]
        vOld == IF cache["virtual"] = None /\ v # None
                THEN [v EXCEPT !.labels = [k \in Keys |-> Gone], !.rv = 1]
                ELSE cache["virtual"]
        pOld == IF cache["host"] = None THEN p ELSE cache["host"]
    IN  [v |-> v, p |-> p, vOld |-> IF Caching(kind) THEN vOld ELSE None,
         pOld |-> IF Caching(kind) THEN pOld ELSE None,
         wanted |-> wanted, blocked |-> blocked,
         toHost |-> kind # "priorityClassFromHost",
         fromHost |-> kind # "priorityClassToHost"]

BelongsToAnother(e) ==
    /\ kind \notin DisableUIDDeletion
    /\ e.p.owner \notin {0, e.v.uid}

Reconcile(e) ==
    CASE newerResourceVersion(e.pOld, e.p) \/ newerResourceVersion(e.vOld, e.v) -> Requeue(e)
      [] OTHER ->
           IF e.v # None /\ e.p # None
           THEN IF BelongsToAnother(e)
                THEN IF e.p.del THEN Requeue(e) ELSE DeleteHost(e)
                ELSE Sync(kind, e)
           ELSE IF e.v # None THEN SyncToHost(kind, e)
           ELSE IF e.p # None THEN SyncToVirtual(kind, e)
           ELSE Nothing(e)

(* The objects are read and the plan is made. On a cache miss the objects  *)
(* enter the cache: the virtual one without labels and with version 1, the *)
(* host one as the very object the syncer goes on to change.               *)
Cached(e, plan) ==
    [s \in Both |->
        IF cache[s] # None \/ ~Caching(kind) \/ seen[s] = None THEN cache[s]
        ELSE IF seen[s].del THEN None
        ELSE IF s = "virtual" THEN e.vOld ELSE plan.host]

Version(o) == IF o = None THEN 0 ELSE o.rv

Start ==
    /\ worker.pc = "idle"
    /\ queued
    /\ version >= LateVersion => seen = api
    /\ queued' = FALSE
    /\ IF excludePhysical(seen["host"])
       THEN UNCHANGED <<worker, cache>>
       ELSE \E grace \in BOOLEAN :
              LET e == getObjects @@ [grace |-> grace]
                  plan == Reconcile(e)
              IN  /\ grace => e.p # None /\ e.p.del /\ e.v # None /\ e.v.del /\ kind = "pod"
                  /\ cache' = Cached(e, plan)
                  /\ worker' = [pc |-> "run", todo |-> plan.todo, again |-> plan.again,
                                base |-> seen,
                                old |-> [virtual |-> Version(e.vOld), host |-> Version(e.pOld)]]
    /\ UNCHANGED <<kind, left, api, seen, version, wanted, blocked>>

\* Faulty variant: the error is only logged.
ErrorLogged ==
    /\ worker' = Idle
    /\ UNCHANGED queued

(* An error ends the reconcile; the request is retried. *)
Error ==
    /\ worker' = Idle
    /\ queued' = TRUE

(***************************************************************************)
(* One API call of the plan, through the client that waits for the         *)
(* informer (pkg/util/blockingcacheclient).                                *)
(***************************************************************************)
(* What the API server adds: identity, finalizers, the cluster IP. *)
Stored(side, o) ==
    [o EXCEPT !.uid = version + 1, !.rv = version + 1, !.fin = kind \in Lingering,
              !.ip = IF kind # "service" \/ o.type = External THEN 0
                     ELSE IF @ # 0 THEN @ ELSE IF side = "host" THEN 2 ELSE 1]

Waiting(base) == worker' = [worker EXCEPT !.pc = "wait", !.base = base]

Skipped == worker' = [worker EXCEPT !.todo = Tail(@)]

ForgetBoth(c) == IF c.cached THEN Empty ELSE cache

CallDelete(c) ==
    LET o == api[c.side]
    IN  IF o = None
        THEN /\ IF c.missing THEN Skipped /\ UNCHANGED queued ELSE Error
             /\ cache' = IF c.missing THEN ForgetBoth(c) ELSE cache
             /\ UNCHANGED <<api, version>>
        ELSE IF c.uid \notin {0, o.uid}
        THEN Error /\ UNCHANGED <<api, version, cache>>
        ELSE /\ IF o.fin /\ (c.grace \/ kind # "pod")
                THEN /\ api' = [api EXCEPT ![c.side].del = TRUE,
                                           ![c.side].rv = IF o.del THEN @ ELSE version + 1]
                     /\ version' = IF o.del THEN version ELSE version + 1
                ELSE /\ api' = [api EXCEPT ![c.side] = None]
                     /\ UNCHANGED version
             /\ Waiting(worker.base)
             /\ UNCHANGED <<queued, cache>>

\* Faulty variant: the object is cached before the informer shows it.
CallCreateCached(c) ==
    LET o == Stored(c.side, c.obj)
    IN  IF c.cached /\ seen[c.side] # None
        THEN Skipped /\ UNCHANGED <<api, version, queued, cache>>
        ELSE IF api[c.side] # None
        THEN Error /\ UNCHANGED <<api, version, cache>>
        ELSE /\ api' = [api EXCEPT ![c.side] = o]
             /\ version' = version + 1
             /\ Waiting([worker.base EXCEPT ![c.side] = o])
             /\ cache' = [cache EXCEPT ![c.side] = o]
             /\ UNCHANGED queued

CallCreate(c) ==
    LET o == Stored(c.side, c.obj)
    IN  IF c.cached /\ seen[c.side] # None
        THEN Skipped /\ UNCHANGED <<api, version, queued, cache>>
        ELSE IF api[c.side] # None
        THEN Error /\ UNCHANGED <<api, version, cache>>
        ELSE /\ api' = [api EXCEPT ![c.side] = o]
             /\ version' = version + 1
             /\ Waiting([worker.base EXCEPT ![c.side] = o])
             /\ UNCHANGED <<queued, cache>>

(* The status and the rest of an object are written separately; a write    *)
(* based on another resource version is a conflict.                        *)
Written(c) ==
    LET b == worker.base[c.side]
        o == IF c.part = "status" THEN [b EXCEPT !.status = c.obj.status]
             ELSE [c.obj EXCEPT !.uid = b.uid, !.del = b.del, !.status = b.status]
    IN  [o EXCEPT !.rv = version + 1,
                  !.ip = IF kind # "service" \/ o.type = External THEN 0
                         ELSE IF @ # 0 THEN @ ELSE IF c.side = "host" THEN 2 ELSE 1]

(* The status that would follow a creation that was skipped is skipped too. *)
CallUpdate(c) ==
    IF worker.base[c.side] = None
    THEN Skipped /\ UNCHANGED <<api, version, queued, cache>>
    ELSE IF \/ c.cached /\ seen[c.side] = None
            \/ api[c.side] = None
            \/ api[c.side] # None /\ api[c.side].rv # worker.base[c.side].rv
    THEN Error /\ UNCHANGED <<api, version, cache>>
    ELSE LET o == Written(c)
         IN  /\ api' = [api EXCEPT ![c.side] = IF o.del /\ ~o.fin THEN None ELSE o]
             /\ version' = version + 1
             /\ Waiting([worker.base EXCEPT ![c.side] = o])
             /\ UNCHANGED <<queued, cache>>

Call ==
    /\ worker.pc = "run"
    /\ worker.todo # <<>>
    /\ LET c == Head(worker.todo)
       IN  CASE c.op = "delete" -> CallDelete(c)
             [] c.op = "create" -> CallCreate(c)
             [] c.op = "update" -> CallUpdate(c)
    /\ UNCHANGED <<kind, left, seen, wanted, blocked>>

CallFails ==
    /\ worker.pc = "run"
    /\ worker.todo # <<>>
    /\ left.failures > 0
    /\ left' = [left EXCEPT !.failures = @ - 1]
    /\ Error
    /\ UNCHANGED <<kind, api, seen, cache, version, wanted, blocked>>

(* Resource versions are compared as strings (versions below 100). *)
LexKey(n) == IF n < 10 THEN 20 * n ELSE 2 * n + 1

LexGeq(a, b) == LexKey(a) >= LexKey(b)

Shown(c) ==
    LET o == seen[c.side]
        b == worker.base[c.side]
    IN  CASE c.op = "create" -> o # None
          [] c.op = "update" -> o # None /\ o.uid = b.uid => LexGeq(o.rv, b.rv)
          [] c.op = "delete" -> o # None /\ b # None /\ o.uid = b.uid => o.del

(* The effect is visible: the patcher records it in the object cache. *)
CallReturns ==
    /\ worker.pc = "wait"
    /\ LET c == Head(worker.todo)
       IN  /\ Shown(c)
           /\ cache' = IF ~c.cached \/ ~Caching(kind) THEN cache
                       ELSE IF c.op = "delete" THEN Empty
                       ELSE [cache EXCEPT ![c.side] = worker.base[c.side]]
    /\ worker' = [worker EXCEPT !.pc = "run", !.todo = Tail(@)]
    /\ UNCHANGED <<kind, left, api, seen, version, queued, wanted, blocked>>

(* The wait ends after two seconds, because the informer is that late or   *)
(* because it shows a version the comparison does not accept.              *)
CallTimesOut ==
    /\ worker.pc = "wait"
    /\ LET c == Head(worker.todo)
       IN  /\ ~Shown(c)
           /\ \/ /\ seen[c.side] = api[c.side]
                 /\ UNCHANGED left
              \/ /\ seen[c.side] # api[c.side]
                 /\ left.lags > 0
                 /\ left' = [left EXCEPT !.lags = @ - 1]
    /\ Error
    /\ UNCHANGED <<kind, api, seen, cache, version, wanted, blocked>>

(* updateObjectCache: only entries no call of this reconcile replaced. *)
updateObjectCache ==
    [s \in Both |->
        IF /\ cache[s] # None
           /\ worker.base[s] # None
           /\ worker.old[s] # 0
           /\ worker.base[s].rv > worker.old[s]
           /\ cache[s].rv = worker.old[s]
        THEN worker.base[s] ELSE cache[s]]

Finish ==
    /\ worker.pc = "run"
    /\ worker.todo = <<>>
    /\ IF worker.again
       THEN queued' = TRUE /\ UNCHANGED cache
       ELSE UNCHANGED queued /\ cache' = updateObjectCache
    /\ worker' = Idle
    /\ UNCHANGED <<kind, left, api, seen, version, wanted, blocked>>

(***************************************************************************)
(* Informers: an event puts the request into the queue.                    *)
(***************************************************************************)
Deliver(side) ==
    /\ seen[side] # api[side]
    /\ seen' = [seen EXCEPT ![side] = api[side]]
    /\ queued' = TRUE
    /\ UNCHANGED <<kind, left, api, cache, version, worker, wanted, blocked>>

SyncerStep == Start \/ Call \/ CallReturns \/ CallTimesOut \/ Finish

=============================================================================
