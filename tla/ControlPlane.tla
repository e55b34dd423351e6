----------------------------- MODULE ControlPlane -----------------------------
(***************************************************************************)
(* The controllers and loops of the control plane put together.            *)
(***************************************************************************)
EXTENDS ServingCert, Certificates, Deployer, ServiceReplication, HostNames, Startup, PodSelection, PodLifecycle,
        PodTranslation, Plugins

vars == <<part, ServingVars, pkiVars, deployVars, linkVars, nameVars, bootVars, selectVars, podVars, specVars,
          pluginVars>>

Init ==
    /\ part \in Parts
    /\ ServingInit
    /\ PKIInit
    /\ DeployInit
    /\ LinkInit
    /\ NamesInit
    /\ BootInit
    /\ SelectInit
    /\ LifeInit
    /\ SpecInit
    /\ PluginInit

\* A step of one part leaves the others alone.
Runs(p) ==
    /\ part = p /\ UNCHANGED part
    /\ p # "serving" => UNCHANGED ServingVars
    /\ p # "certificates" => UNCHANGED pkiVars
    /\ p # "deployer" => UNCHANGED deployVars
    /\ p # "services" => UNCHANGED linkVars
    /\ p # "names" => UNCHANGED nameVars
    /\ p # "boot" => UNCHANGED bootVars
    /\ p # "selection" => UNCHANGED selectVars
    /\ p # "pods" => UNCHANGED podVars
    /\ p # "spec" => UNCHANGED specVars
    /\ p # "plugins" => UNCHANGED pluginVars

Next ==
    \/ Runs("serving") /\ ServingNext
    \/ Runs("certificates") /\ PKINext
    \/ Runs("deployer") /\ DeployNext
    \/ Runs("services") /\ LinkNext
    \/ Runs("names") /\ NamesNext
    \/ Runs("boot") /\ BootNext
    \/ Runs("selection") /\ SelectNext
    \/ Runs("pods") /\ LifeNext
    \/ Runs("spec") /\ SpecNext
    \/ Runs("plugins") /\ PluginNext

Fairness == ServingFairness /\ PKIFairness /\ DeployFairness /\ LinkFairness /\ NamesFairness /\ BootFairness
            /\ LifeFairness /\ SpecFairness /\ PluginFairness

Spec == Init /\ [][Next]_vars /\ Fairness

-----------------------------------------------------------------------------
TypeOK ==
    /\ part \in Parts
    /\ part = "serving" => ServingTypeOK
    /\ part = "certificates" => PKITypeOK
    /\ part = "deployer" => DeployTypeOK
    /\ part = "services" => LinkTypeOK
    /\ part = "names" => NamesTypeOK
    /\ part = "boot" => BootTypeOK
    /\ part = "selection" => SelectTypeOK
    /\ part = "pods" => LifeTypeOK
    /\ part = "spec" => SpecTypeOK
    /\ part = "plugins" => PluginTypeOK

\* No step takes away what is not its own or still in use: the key of the service
\* accounts, a user's service, a host object of another virtual object or of a
\* stranger, a virtual pod whose host pod still runs.
NothingLost ==
    [][ServiceAccountKept /\ UsersServiceKept /\ HostObjectKept /\ StrangersKept /\ RemovedLast]_vars

\* Everything comes to what it is to bring about, whatever fails on the way: nodes
\* and services are served, replicas agree, charts are deployed, names are settled,
\* processes start up, and pods, their specs and plugins follow both clusters.
EverythingSettles ==
    /\ NodesServed /\ NodesRemoved
    /\ ReplicasAgree
    /\ EventuallyDeployed
    /\ ReplicaFollows /\ KubernetesFollows
    /\ NamesSettle
    /\ StartsUp /\ CoreDNSFollows
    /\ PluginsLead
    /\ PodSettles /\ SpecFollows

=============================================================================
