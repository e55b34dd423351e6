------------------------------- MODULE Deployer -------------------------------
(***************************************************************************)
(* The deployment of manifests and Helm charts in the virtual cluster when *)
(* the syncer starts (pkg/controllers/deploy). What has been deployed is   *)
(* recorded in an annotation of a ConfigMap, which tells the next start    *)
(* what to remove, what to upgrade and what to leave alone. The ConfigMap  *)
(* is read from a cache.                                                   *)
(*                                                                         *)
(* A release is its chart configuration and whether it works.              *)
(***************************************************************************)
EXTENDS ControlPlaneParts, Naturals, FiniteSets

CONSTANTS
    Objects,    \* objects of the manifests
    Charts,     \* releases
    DeploySetups, \* the settings to explore
    Nil         \* no ConfigMap, no release, nothing recorded

\* A setting: the configurations the vCluster is started with, each of which has
\* manifests and the configuration of some charts; whether helm and API calls
\* fail; whether the syncer is killed.
ASSUME DeploySetupsAreRecords ==
    \A u \in DeploySetups :
        /\ \A c \in u.configs : c.manifests \subseteq Objects /\ DOMAIN c.helm \subseteq Charts
        /\ {u.faults, u.kills} \subseteq BOOLEAN

VARIABLES
    plan,       \* the setting, which never changes
    config,     \* the configuration of this start
    objects,    \* the objects of manifests in the virtual cluster
    releases,   \* the Helm releases
    configMap,  \* the recorded status
    cached,     \* the ConfigMap in the cache
    job,        \* apply: where it is, and its copies of the status
    starts,     \* number of starts so far
    cut         \* history: something was deployed or removed without being recorded,
                \* or a record was lost to a stale read

deployVars == <<plan, config, objects, releases, configMap, cached, job, starts, cut>>

CONSTANT MaxStarts  \* bound on the starts

ASSUME MaxStartsIsNatural == MaxStarts \in Nat

NoStatus == [last |-> {}, manifests |-> "", charts |-> [c \in {} |-> Nil], phase |-> ""]
Idle == [step |-> "start", status |-> NoStatus, old |-> NoStatus, todo |-> {}, extra |-> {}, failed |-> FALSE]

DeployInit ==
    /\ plan \in Settings("deployer", DeploySetups)
    /\ config \in Settings("deployer", plan.configs)
    /\ objects = {}
    /\ releases = [c \in Charts |-> Nil]
    /\ configMap = Nil
    /\ cached = Nil
    /\ job = Idle
    /\ starts = 1
    /\ cut = FALSE

Doing(step) == job.step = step
Then(step) == job' = [job EXCEPT !.step = step]
Recorded(c) == c \in DOMAIN job.status.charts
Empty(cfg) == cfg.manifests = {} /\ DOMAIN cfg.helm = {}

-----------------------------------------------------------------------------
(* apply: the ConfigMap is read, or created, before and patched afterwards.  *)

ReadStatus(from, to, skip) ==
    /\ Doing(from)
    /\ IF cached # Nil
       THEN /\ job' = [job EXCEPT !.step = to, !.status = cached, !.old = cached, !.failed = FALSE,
                                  !.todo = DOMAIN config.helm,
                                  !.extra = DOMAIN cached.charts \ DOMAIN config.helm]
            /\ UNCHANGED <<configMap, cached>>
       ELSE IF Empty(config)
       THEN Then(skip) /\ UNCHANGED <<configMap, cached>>
       ELSE IF configMap = Nil
       THEN /\ configMap' = NoStatus
            /\ job' = [job EXCEPT !.step = to, !.status = NoStatus, !.old = NoStatus, !.failed = FALSE,
                                  !.todo = DOMAIN config.helm, !.extra = {}]
            /\ UNCHANGED cached
       ELSE UNCHANGED <<job, configMap, cached>>
    /\ cut' = (cut \/ (cached # Nil /\ cached # configMap))
    /\ UNCHANGED <<plan, config, objects, releases, starts>>

CatchUpConfigMap ==
    /\ cached # configMap
    /\ cached' = configMap
    /\ UNCHANGED <<plan, config, objects, releases, configMap, job, starts, cut>>

\* The phase that UpdateConfigMap records.
Phase(status, failed) ==
    IF status.manifests # "Success" THEN "Failed"
    ELSE IF \E c \in DOMAIN status.charts : status.charts[c].phase # "Success" THEN "Failed"
    ELSE IF failed THEN "Failed"
    ELSE IF Cardinality(DOMAIN status.charts) = Cardinality(DOMAIN config.helm) THEN "Success"
    ELSE "Pending"

\* The whole annotation is replaced, if it has changed. After an error the
\* manifests end the start, and the charts are tried again.
UpdateConfigMap(from, next, retry) ==
    /\ Doing(from)
    /\ LET status == [job.status EXCEPT !.phase = Phase(job.status, job.failed)]
       IN \/ /\ configMap' = IF status # job.old THEN status ELSE configMap
             /\ Then(IF job.failed THEN retry ELSE next)
             /\ UNCHANGED cut
          \/ /\ plan.faults
             /\ Then(retry)
             /\ cut' = (cut \/ status.last # job.old.last \/ status.charts # job.old.charts)
             /\ UNCHANGED configMap
    /\ UNCHANGED <<plan, config, objects, releases, cached, starts>>

-----------------------------------------------------------------------------
(* ProcessInitManifests                                                      *)

ManifestsStatus(phase) == [job.status EXCEPT !.manifests = phase]
ManifestsEnd(status, failed) == job' = [job EXCEPT !.step = "manifests patch", !.status = status, !.failed = failed]

\* ApplyGivenInitManifests applies the objects and then deletes those that are
\* not in the manifests any more; either may fail half-way.
ApplyManifests ==
    /\ Doing("manifests")
    /\ IF config.manifests = job.status.last
       THEN ManifestsEnd(ManifestsStatus("Success"), FALSE) /\ UNCHANGED <<objects, cut>>
       ELSE \/ /\ objects' = objects \cup config.manifests
               /\ Then("prune")
               /\ UNCHANGED cut
            \/ /\ plan.faults
               /\ \E some \in SUBSET config.manifests :
                     /\ objects' = objects \cup some
                     /\ cut' = (cut \/ some # {})
               /\ ManifestsEnd(ManifestsStatus("Failed"), TRUE)
    /\ UNCHANGED <<plan, config, releases, configMap, cached, starts>>

\* Nothing is deleted (a faulty PruneManifests).
PruneNothing ==
    /\ Doing("prune")
    /\ ManifestsEnd([ManifestsStatus("Success") EXCEPT !.last = config.manifests], FALSE)
    /\ UNCHANGED <<plan, config, objects, releases, configMap, cached, starts, cut>>

PruneManifests ==
    /\ Doing("prune")
    /\ LET old == job.status.last \ config.manifests
       IN \/ /\ objects' = objects \ old
             /\ ManifestsEnd([ManifestsStatus("Success") EXCEPT !.last = config.manifests], FALSE)
             /\ UNCHANGED cut
          \/ /\ plan.faults /\ old # {}
             /\ \E some \in SUBSET old : objects' = objects \ some
             /\ ManifestsEnd(ManifestsStatus("Failed"), TRUE)
             /\ cut' = TRUE
    /\ UNCHANGED <<plan, config, releases, configMap, cached, starts>>

-----------------------------------------------------------------------------
(* ProcessHelmChart                                                          *)

Chart(hash, phase) == [hash |-> hash, phase |-> phase]
WithChart(c, s) ==
    [job.status EXCEPT !.charts = [d \in DOMAIN job.status.charts \cup {c} |->
                                     IF d = c THEN s ELSE job.status.charts[d]]]

\* setChartStatusLastApplied
LastApplied(c) == WithChart(c, Chart(config.helm[c], "Success"))

\* setChartStatus keeps the configuration that was applied last.
SetChartFailed(c) == WithChart(c, Chart(IF Recorded(c) THEN job.status.charts[c].hash ELSE 0, "Failed"))

checkIfUpgradeNeeded(c) == Recorded(c) => job.status.charts[c].hash # config.helm[c]

\* rollbackOrUninstall: an installation that got stuck is removed, otherwise the
\* release is rolled back; if that fails too, it stays as it is.
AfterFailure(c) ==
    {Nil, [hash |-> config.helm[c], works |-> FALSE]} \cup (IF releases[c] = Nil THEN {} ELSE {releases[c]})

NextChart(status) == job' = [job EXCEPT !.status = status, !.todo = @ \ {CHOOSE c \in @ : TRUE}]
ChartsEnd(status) == job' = [job EXCEPT !.step = "charts patch", !.status = status, !.failed = TRUE]

\* One chart: it is pulled, and installed, upgraded or left alone.
ProcessChart ==
    /\ Doing("charts")
    /\ job.todo # {}
    /\ LET c == CHOOSE d \in job.todo : TRUE
           deploys == releases[c] = Nil \/ checkIfUpgradeNeeded(c)
       IN \/ /\ plan.faults            \* pullChartArchive
             /\ ChartsEnd(SetChartFailed(c))
             /\ UNCHANGED releases
          \/ /\ plan.faults            \* releaseExists
             /\ ChartsEnd(job.status)
             /\ UNCHANGED releases
          \/ /\ ~deploys
             /\ NextChart(job.status)
             /\ UNCHANGED releases
          \/ /\ deploys
             /\ releases' = [releases EXCEPT ![c] = [hash |-> config.helm[c], works |-> TRUE]]
             /\ NextChart(LastApplied(c))
          \/ /\ deploys /\ plan.faults
             /\ \E after \in AfterFailure(c) : releases' = [releases EXCEPT ![c] = after]
             /\ ChartsEnd(SetChartFailed(c))
    /\ UNCHANGED <<plan, config, objects, configMap, cached, starts, cut>>

\* Uninstalled without a change of the status (a faulty DeleteHelmRelease).
DeleteReleaseOnly(c) ==
    /\ releases' = [releases EXCEPT ![c] = Nil]
    /\ job' = [job EXCEPT !.extra = @ \ {c}]

\* helm delete fails for a release that is not there. A failure is recorded and
\* not returned.
DeleteHelmRelease(c) ==
    \/ /\ releases[c] # Nil
       /\ releases' = [releases EXCEPT ![c] = Nil]
       /\ job' = [job EXCEPT !.status.charts = [d \in DOMAIN @ \ {c} |-> @[d]], !.extra = @ \ {c}]
    \/ /\ plan.faults \/ releases[c] = Nil
       /\ job' = [job EXCEPT !.status = SetChartFailed(c), !.extra = @ \ {c}]
       /\ UNCHANGED releases

DeleteRemovedChart ==
    /\ Doing("charts")
    /\ job.todo = {}
    /\ \E c \in job.extra : DeleteHelmRelease(c)
    /\ UNCHANGED <<plan, config, objects, configMap, cached, starts, cut>>

ChartsDone ==
    /\ Doing("charts")
    /\ job.todo = {} /\ job.extra = {}
    /\ Then("charts patch")
    /\ UNCHANGED <<plan, config, objects, releases, configMap, cached, starts, cut>>

-----------------------------------------------------------------------------
\* The configuration is read when the syncer starts, the caches are filled.
StartAgain ==
    /\ starts < MaxStarts
    /\ Doing("done") \/ Doing("failed") \/ plan.kills
    /\ config' \in plan.configs
    /\ cached' = configMap
    /\ job' = Idle
    /\ starts' = starts + 1
    /\ cut' = (cut \/ job.step \notin {"start", "done", "failed", "helm"})
    /\ UNCHANGED <<plan, objects, releases, configMap>>

\* RegisterInitManifestsController: the manifests once, the charts until they
\* succeed.
DeployStep ==
    \/ ReadStatus("start", "manifests", "helm")
    \/ ApplyManifests \/ PruneManifests
    \/ UpdateConfigMap("manifests patch", "helm", "failed")
    \/ ReadStatus("helm", "charts", "done")
    \/ ProcessChart \/ DeleteRemovedChart \/ ChartsDone
    \/ UpdateConfigMap("charts patch", "done", "helm")

\* A behaviour is followed until it is cut.
DeployNext == ~cut /\ (DeployStep \/ CatchUpConfigMap \/ StartAgain)

DeployFairness ==
    /\ WF_deployVars(part = "deployer" /\ ~cut /\ DeployStep)
    /\ WF_deployVars(part = "deployer" /\ ~cut /\ CatchUpConfigMap)

-----------------------------------------------------------------------------
DeployTypeOK ==
    /\ plan \in DeploySetups /\ config \in plan.configs
    /\ objects \subseteq Objects
    /\ DOMAIN releases = Charts
    /\ starts \in 1..MaxStarts
    /\ cut \in BOOLEAN

Deployed(c) == releases[c] = [hash |-> config.helm[c], works |-> TRUE]

\* A status of Success means that this configuration is what is deployed, with
\* nothing left of the earlier ones: manifests that were dropped are deleted and
\* releases that were dropped uninstalled.
SuccessIsDeployed ==
    (Doing("done") /\ configMap # Nil /\ configMap.phase = "Success" /\ ~cut) =>
        /\ objects = config.manifests
        /\ \A c \in Charts : IF c \in DOMAIN config.helm THEN Deployed(c) ELSE releases[c] = Nil

\* Where nothing fails, the configuration is deployed and recorded, whatever was
\* deployed before.
EventuallyDeployed ==
    <>[](plan.faults \/ plan.kills \/ cut
         \/ /\ objects = config.manifests
            /\ \A c \in DOMAIN config.helm : Deployed(c)
            /\ configMap # Nil => configMap.phase = "Success")

=============================================================================
