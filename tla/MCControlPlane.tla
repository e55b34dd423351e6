---------------------------- MODULE MCControlPlane ----------------------------
(***************************************************************************)
(* Model checking ControlPlane: the settings of each part.                 *)
(***************************************************************************)
EXTENDS ControlPlane

\* One node whose Service has another name, and two whose Services have one name.
OneNode == [n \in {"a.b"} |-> "a-b"]
TwoNodes == [n \in {"a.b", "a-b"} |-> "a-b"]

Calmly ==
    [service |-> OneNode, ips |-> {"ip1"}, pods |-> {"virtual"}, selector |-> TRUE,
     faults |-> FALSE, restarts |-> FALSE, users |-> FALSE, clock |-> 0]

MCNodeSetups ==
    {[Calmly EXCEPT !.pods = {"virtual", "host daemon"}],
     [Calmly EXCEPT !.pods = {"host", "virtual daemon"}],
     [Calmly EXCEPT !.restarts = TRUE, !.users = TRUE],
     [Calmly EXCEPT !.selector = FALSE, !.faults = TRUE],
     [Calmly EXCEPT !.ips = {"ip1", "ip2"}],
     [Calmly EXCEPT !.clock = 1],
     [Calmly EXCEPT !.service = TwoNodes]}

\* Time enough for a certificate to expire.
AgingSetups == {[Calmly EXCEPT !.clock = 2]}

MCCertSetups ==
    {[replicas |-> {1}, standalone |-> TRUE, volumes |-> TRUE, faults |-> FALSE, kills |-> TRUE]}
    \cup [replicas: {{1, 2}}, standalone: {FALSE}, volumes: BOOLEAN, faults: BOOLEAN, kills: BOOLEAN]

\* Configurations that add, upgrade, exchange and remove manifests and charts.
Deployment(manifests, charts, version) == [manifests |-> manifests, helm |-> [c \in charts |-> version]]
MCDeploySetups ==
    [configs: {{Deployment({"x"}, {"c"}, 1), Deployment({"x", "y"}, {"c"}, 2), Deployment({"y"}, {"d"}, 1),
                Deployment({}, {}, 1), Deployment({"x"}, {"c", "d"}, 1)}},
     faults: BOOLEAN, kills: BOOLEAN]

MCLinkSetups == [mode: {"endpoints", "selector", "default"}, users: {TRUE}, faults: {TRUE}]

\* Names and namespaces a/b; a-4-b/c and a/b-4-c, which are one name on the host; two
\* that differ only behind the characters that a long name keeps.
Plain == <<<<1>>, <<2>>>>
Twins == {<<<<1, 4, 2>>, <<3>>>>, <<<<1>>, <<2, 4, 3>>>>}
Long == {<<<<1, 1, 1, 1>>, <<2>>>>, <<<<1, 1, 1, 1>>, <<3>>>>}
OldName == <<2, 1>>
CopyName == <<3, 3>>

NoHost == [p \in {} |-> Labelled("none", Nobody, Unset, 0, "none", "them")]
Named(virtual) == [virtual |-> virtual, live |-> {}, host |-> NoHost, strangers |-> {}]
Stranger(name, object, copies) == [name |-> name, object |-> object, copies |-> copies]

\* Objects of others: a user's, another vCluster's, one that a controller of the host
\* made of ours for another kind, and a copy of ours.
MCStrangers ==
    {Stranger(HostName(Plain), o, Unset) :
        o \in {Labelled("none", Nobody, Unset, 0, "none", "them"),
               Labelled("other", Plain, HostName(Plain), MaxChanges + 3, "same", "them"),
               Labelled("ours", Plain, HostName(Plain), MaxChanges + 3, "other", "them")}}
    \cup {Stranger(CopyName, Labelled("none", Nobody, Unset, 0, "none", "them"), HostName(Plain))}

MCNameSetups ==
    {Named(Twins), Named(Long), [Named({Plain}) EXCEPT !.live = {Plain}]}
    \cup {[Named({Plain}) EXCEPT !.strangers = {s}] : s \in MCStrangers}
    \cup {[Named({Plain}) EXCEPT !.live = {Plain},
                                !.host = OldName :> Labelled("ours", Plain, Unset, 1, "none", "us"),
                                !.strangers = {Stranger(CopyName, Labelled("none", Nobody, Unset, 0, "none", "them"), OldName)}]}

\* Two replicas whose store is elsewhere and which k3s had before; a Deployment with one;
\* one pod with its store, which k3s had before, with and without a Secret and all files.
Booting ==
    [pods |-> {1}, ha |-> FALSE, embedded |-> TRUE, k3s |-> "all", secret |-> TRUE, stateless |-> FALSE,
     dns |-> "deployed", coredns |-> "none", additional |-> TRUE, troubles |-> 2]
Elsewhere == [Booting EXCEPT !.pods = {1, 2}, !.embedded = FALSE, !.k3s = "none", !.troubles = 1]
MCBootSetups ==
    {[Elsewhere EXCEPT !.ha = TRUE, !.stateless = TRUE, !.dns = "disabled", !.additional = FALSE], [Elsewhere EXCEPT !.troubles = 0],
     [Booting EXCEPT !.dns = "embedded", !.coredns = "new"],
     [Booting EXCEPT !.secret = FALSE, !.coredns = "old"], [Booting EXCEPT !.k3s = "some"]}

\* Pods with the same labels in another namespace, of another vCluster and of nobody.
App == <<"app">>
MCSpaces == <<"one", "two">>
MCOthers ==
    <<[own |-> TRUE, space |-> "two", labels |-> App :> "a" @@ Release :> "b"],
     [own |-> FALSE, space |-> "host", labels |-> Marker :> "them" @@ Namespace :> "one" @@ App :> "a"],
     [own |-> FALSE, space |-> "host", labels |-> App :> "a" @@ Release :> "a" @@ HostLabel(Release) :> "a"]>>
MCVirtualKeys == {App, Release}
MCSpaceKeys == {<<"env">>}

Expression(key, operator, values) == [labels |-> <<>>, expressions |-> {[key |-> key, operator |-> operator, values |-> values]}]
Equal(labels) == [labels |-> labels, expressions |-> {}]
MCSelectors ==
    {Everything, Equal(App :> "a"), Equal(App :> "a" @@ Release :> "b"), Expression(App, "In", {"b"}),
     Expression(Release, "NotIn", {"a"}), Expression(Release, "Exists", {}), Expression(App, "DoesNotExist", {}),
     Expression(Marker, "Exists", {})}
MCSpaceSelectors ==
    {Everything, Equal(<<"env">> :> "a"), Expression(<<"env">>, "DoesNotExist", {}), Expression(<<"env">>, "NotIn", {"b"})}

\* Both schedulers, a selector for nodes, classes and a late DNS service; an unreliable cache
\* and restarts.
Living == [virtual |-> FALSE, selector |-> FALSE, secrets |-> TRUE, limited |-> FALSE, lags |-> FALSE, restarts |-> FALSE, edits |-> 4]
MCPodSetups ==
    {Living, [Living EXCEPT !.virtual = TRUE, !.edits = 3], [Living EXCEPT !.selector = TRUE, !.secrets = FALSE, !.edits = 3],
     [Living EXCEPT !.limited = TRUE, !.edits = 3], [Living EXCEPT !.lags = TRUE, !.edits = 2],
     [Living EXCEPT !.restarts = TRUE, !.edits = 3]}

\* Pods with variables and volumes of every kind, some of the same names, and with different
\* ways to resolve names.
Source(kind, n, path) == [kind |-> kind, ref |-> Ref(n), path |-> path]
Volume(n, sources) == [name |-> n, sources |-> sources]
Variable(n, kind, r) == [name |-> n, kind |-> kind, ref |-> Ref(r)]
Pod ==
    [env |-> <<Variable("X", "value", "x"), Variable("SVC", "configMap", "x"), Variable("Y", "secret", "x"),
               Variable("N", "field", "metadata.name"), Variable("L", "field", "metadata.labels['app']"),
               Variable("P", "field", "status.podIP"), Variable("X", "secret", "x")>>,
     from |-> <<[kind |-> "configMap", ref |-> Ref("x"), keys |-> {"A", "X"}], [kind |-> "secret", ref |-> Ref("x"), keys |-> {"A", "B"}]>>,
     services |-> {[name |-> "SVC", ip |-> TRUE], [name |-> "DB", ip |-> TRUE], [name |-> "HEADLESS", ip |-> FALSE]},
     links |-> TRUE,
     volumes |-> <<Volume("v", <<Source("configMap", "x", "c"), Source("secret", "x", "s"), Source("field", "metadata.uid", "u"),
                                 Source("token", "aud", "t")>>),
                   Volume("w", <<Source("token", "other", "t")>>), Volume("e", <<Source("ephemeral", "pod-e", "e")>>),
                   Volume("p", <<Source("persistentVolumeClaim", "x", "p")>>), Volume("g", <<Source("endpoints", "x", "g")>>),
                   Volume("l", <<Source("hostPath", "/var/log", "l")>>), Volume("m", <<Source("hostPath", "/var/log", "m")>>)>>,
     mounts |-> <<[volume |-> "l", at |-> "/a"], [volume |-> "m", at |-> "/b"]>>,
     dnsPolicy |-> "ClusterFirst", hostNetwork |-> FALSE, dnsConfig |-> [servers |-> <<"mine">>, searches |-> <<"domain">>],
     subdomain |-> TRUE, class |-> "gold", priority |-> 3]
Sheet ==
    [pod |-> Pod, secrets |-> TRUE, mapper |-> TRUE, overrideHosts |-> TRUE, classes |-> "toHost", defaultClass |-> FALSE,
     globalPriority |-> 0, images |-> "a" :> "mirror", injected |-> {}, enforced |-> {"e"}]
MCSpecSetups ==
    {Sheet, [Sheet EXCEPT !.secrets = FALSE, !.mapper = FALSE, !.overrideHosts = FALSE, !.injected = {"sidecar"}],
     [Sheet EXCEPT !.pod.links = FALSE, !.pod.from = <<[kind |-> "secret", ref |-> Ref("x"), keys |-> {"KUBERNETES"}]>>],
     [Sheet EXCEPT !.pod.volumes = <<Volume("v", <<Source("token", "one", "1"), Source("token", "two", "2")>>)>>],
     [Sheet EXCEPT !.secrets = FALSE, !.pod.volumes = <<Volume("v", <<Source("token", "one", "1"), Source("token", "two", "2")>>)>>],
     [Sheet EXCEPT !.pod.mounts = <<[volume |-> "m", at |-> "/a"], [volume |-> "m", at |-> "/b"]>>]}
    \cup {[Sheet EXCEPT !.pod.dnsPolicy = d, !.pod.hostNetwork = h] :
             d \in {"ClusterFirst", "ClusterFirstWithHostNet", "Default", "None"}, h \in BOOLEAN}
    \cup {[Sheet EXCEPT !.pod.class = c, !.pod.priority = IF c = "" THEN 0 ELSE 3, !.classes = k, !.defaultClass = d, !.globalPriority = g] :
             c \in {"", "gold"}, k \in {"toHost", "fromHost", "none"}, d \in BOOLEAN, g \in {0, 1}}

\* Two or three handlers whose rules overlap in every way, and plugins with hooks.
Rule(g, r, v, n) == [groups |-> {g}, resources |-> {r}, verbs |-> {v}, names |-> n, urls |-> {}]
URLRule(u, v) == [groups |-> {}, resources |-> {}, verbs |-> {v}, names |-> {}, urls |-> u]
URL(path, star) == [path |-> path, star |-> star]
Program(n, hooks, handlers) == [name |-> n, program |-> TRUE, hooks |-> hooks, handlers |-> handlers]
NoLegacy == [p \in {} |-> {}]
Kit(l, ps) == [legacy |-> l, plugins |-> ps, exits |-> IF DOMAIN l = {} THEN 0 ELSE 2]
OneRules == {Rule(g, r, v, n) : g \in {"*", "apps"}, r \in {"*", "pods"}, v \in {"*", "get"}, n \in {{}, {"x"}}}
ThirdRules == {Rule("*", "nodes", "get", {}), Rule("", "pods", "*", {"x"}), Rule("apps", "*", "list", {"x", "y"})}
URLRules ==
    {URLRule({URL(p, s)}, v) : p \in {<<"healthz">>, <<"healthz", "etcd">>, <<>>}, s \in {"no", "end"}, v \in {"get", "*"}}
MCPluginSetups ==
    {Kit(NoLegacy, <<Program("p", {}, "h" :> <<a>> @@ "i" :> <<b>>)>>) : a, b \in OneRules}
    \cup {Kit(NoLegacy, <<Program("p", {}, "h" :> <<a>>), Program("q", {}, "h" :> <<b, c>>)>>) :
             a \in ThirdRules, b \in OneRules, c \in {r \in OneRules : r.names = {}}}
    \cup {Kit(NoLegacy, <<Program("p", {}, "h" :> <<a, b>>)>>) : a, b \in URLRules}
    \cup {Kit(NoLegacy, <<Program("p", {}, "h" :> <<[Rule("apps", "pods", "get", {}) EXCEPT !.verbs = {"*", "get"}]>>)>>),
          Kit("old" :> {{}} @@ "new" :> {{"a"}, {"a", "b"}, {"invalid"}},
              <<Program("p", {"a"}, [h \in {} |-> <<>>]), [Program("q", {"b"}, [h \in {} |-> <<>>]) EXCEPT !.program = FALSE],
                Program("r", {"a", "b"}, "h" :> <<Rule("apps", "pods", "get", {})>>)>>),
          Kit("one" :> {{"a"}} @@ "two" :> {{"a"}, {}}, <<>>),
          Kit(NoLegacy, <<Program("p", {"invalid"}, [h \in {} |-> <<>>])>>)}

=============================================================================
