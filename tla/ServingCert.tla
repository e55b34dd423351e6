------------------------------ MODULE ServingCert ------------------------------
(***************************************************************************)
(* The serving certificate of the proxy (pkg/server/cert). A loop compares *)
(* the names it must be valid for, among them the cluster IPs of the node  *)
(* Services, with those of the current certificate, and makes a new one    *)
(* when names are missing or it is about to expire.                        *)
(*                                                                         *)
(* A certificate holds for three periods: it is valid in the first, has    *)
(* less than 90 days left in the second and is expired from the third on.  *)
(***************************************************************************)
EXTENDS NodeServices

VARIABLES
    period,     \* the time
    current,    \* currentCert
    currentSANs,
    renewed     \* whether the loop has run in this period

certVars == <<period, current, currentSANs, renewed>>

ServingCerts == [sans: SUBSET IPs, made: 0..2]

\* RunOnce, before the server starts.
CertInit ==
    /\ period = 0
    /\ current = [sans |-> {}, made |-> 0]
    /\ currentSANs = {}
    /\ renewed = TRUE

\* getExtraSANs: the names that vary are those of the Services in the cache.
ExtraSANs == {listed[s].ip : s \in {t \in ServiceNames : listed[t] # NoOne}}

Age(cert) == period - cert.made
CertExpired(cert) == Age(cert) >= 2

\* Verify fails for an expired certificate, IsCertExpired looks 90 days ahead.
Expired(cert) == Age(cert) >= 1

SansChanged(cert, sans) == ~(sans \subseteq cert.sans)

GenAPIServerServingCerts ==
    IF Expired(current) \/ SansChanged(current, ExtraSANs)
    THEN [sans |-> ExtraSANs, made |-> period]
    ELSE current

\* A certificate is kept only if its names are not those of the last one; then the
\* listeners are told and the server loads it.
Regen ==
    /\ IF currentSANs = ExtraSANs
       THEN UNCHANGED <<current, currentSANs>>
       ELSE /\ current' = GenAPIServerServingCerts
            /\ currentSANs' = ExtraSANs
    /\ renewed' = TRUE
    /\ UNCHANGED period
    /\ UNCHANGED nodeVars

\* Periods are long: the loop runs in each of them.
TimePasses ==
    /\ period < setup.clock
    /\ renewed
    /\ period' = period + 1
    /\ renewed' = FALSE
    /\ UNCHANGED <<current, currentSANs>>
    /\ UNCHANGED nodeVars

ServingVars == <<nodeVars, certVars>>

ServingInit == NodesInit /\ CertInit
ServingNext == (NodesNext /\ UNCHANGED certVars) \/ Regen \/ TimePasses

\* Workers, watches and loops go on, and sync.Mutex starves nobody; nothing makes
\* pods come or go, calls fail or the syncer restart.
ServingFairness ==
    /\ \A n \in Nodes : /\ WF_ServingVars(part = "serving" /\ ~astray /\ Worker(n) /\ UNCHANGED certVars)
                        /\ SF_ServingVars(part = "serving" /\ ~astray /\ CreateFakeNode(n) /\ UNCHANGED certVars)
                        /\ WF_ServingVars(part = "serving" /\ ~astray /\ SeeNode(n) /\ UNCHANGED certVars)
    /\ \A s \in ServiceNames : WF_ServingVars(part = "serving" /\ ~astray /\ SeeService(s) /\ UNCHANGED certVars)
    /\ WF_ServingVars(part = "serving" /\ ~astray /\ Sweep /\ UNCHANGED certVars)
    /\ SF_ServingVars(part = "serving" /\ ~astray /\ SweepBegins /\ UNCHANGED certVars)
    /\ WF_ServingVars(part = "serving" /\ Regen)

-----------------------------------------------------------------------------
ServingTypeOK ==
    /\ setup \in NodeSetups
    /\ assigned \in [Nodes -> SUBSET setup.pods]
    /\ {vNodes, seen} \subseteq [Nodes -> FakeNodes \cup {NoOne}]
    /\ {services, listed} \subseteq [ServiceNames -> NodeServiceObjects \cup {NoOne}]
    /\ queue \subseteq Used
    /\ \A n \in Nodes : /\ work[n].step \in {"rest", "create", "service", "status", "taints", "address",
                                             "update", "delete"}
                        /\ work[n].node \in FakeNodes \cup {NoOne}
                        /\ work[n].ip \in IPs \cup {NoOne, ""}
    /\ mutex \in Nodes \cup {NoOne, "sweep"}
    /\ sweep \in [items: SUBSET [name: ServiceNames, node: Nodes], gone: ServiceNames \cup {NoOne}]
    /\ astray \in BOOLEAN
    /\ period \in Nat
    /\ current \in ServingCerts
    /\ currentSANs \subseteq IPs

ServiceIs(n, ip) ==
    \E s \in ServiceNames : services[s] # NoOne /\ services[s].node = n /\ services[s].ip = ip /\ services[s].backed

\* An address of a node is that of its own Service, which leads to the control
\* plane, however createFakeNode, the workers and cleanupNodeServices interleave.
\* astray sets aside a Service shared by two names, a look-up that failed, and a
\* deleted Service that was still in the cache.
AddressServed ==
    \A n \in Nodes :
        (~astray /\ vNodes[n] # NoOne /\ vNodes[n].ip \in IPs) => ServiceIs(n, vNodes[n].ip)

\* Nothing that could go on disturbing a node for ever.
Calm == ~(astray \/ setup.faults \/ setup.users \/ setup.restarts)

\* A node with pods other than those of daemon sets ends up ready, with an address
\* that its Service has and the certificate of the server covers.
NodesServed ==
    \A n \in Nodes :
        <>[](assigned[n] \cap {"virtual", "host"} # {} /\ Calm)
        => <>[](/\ vNodes[n] # NoOne
                /\ vNodes[n].ready /\ ~vNodes[n].tainted
                /\ ServiceIs(n, vNodes[n].ip)
                /\ vNodes[n].ip \in current.sans)

\* A node without such pods goes, and cleanupNodeServices removes its Service.
NodesRemoved ==
    \A n \in Nodes :
        <>[](assigned[n] \cap {"virtual", "host"} = {} /\ Calm)
        => <>[](vNodes[n] = NoOne /\ \A s \in ServiceNames : services[s] = NoOne \/ services[s].node # n)

\* GenAPIServerServingCerts checks for the expiration of the certificate: the one
\* that is served does not expire.
ServedCertValid == ~CertExpired(current)

=============================================================================
