-------------------------------- MODULE Plugins --------------------------------
(***************************************************************************)
(* The plugins of the control plane (pkg/plugin): legacy plugins, which    *)
(* register themselves with a server of the syncer, and plugins in a       *)
(* folder, which the syncer starts. Both may change the objects that the   *)
(* syncer's clients read and write (pkg/util/pluginhookclient), and the    *)
(* latter may answer requests to the API server in its place.              *)
(*                                                                         *)
(* An object is the sequence of plugins that have changed it.              *)
(***************************************************************************)
EXTENDS ControlPlaneParts, Interceptors

CONSTANTS
    PluginSetups,   \* the settings to explore
    NoWrite         \* no request of a client

VARIABLES
    kit,        \* the setting: the plugins, their hooks and their rules, and a bound on
                \* the exits of the syncer and of plugins
    manager,    \* how far Start and SetLeader are
    versions,   \* pluginVersions: the hooks each legacy plugin has registered, if it has
    legacyHooks,\* clientHooks of the legacy manager, by type of request
    clientHooks,\* ClientHooks of the plugin manager
    ports,      \* ResourceInterceptorsPorts
    urls,       \* NonResourceInterceptorsPorts
    call,       \* the request that a client is making
    sent,       \* the last that reached an API server
    led,        \* the plugins that know that this syncer leads
    gone,       \* the started plugins whose process has ended
    exits,      \* the number of exits
    refused     \* history: the plugins' configuration was refused

pluginVars == <<kit, manager, versions, legacyHooks, clientHooks, ports, urls, call, sent, led, gone, exits, refused>>

\* A type of hook stands for a kind, an operation and a side.
HookTypes == UNION {UNION kit.legacy[p] : p \in DOMAIN kit.legacy} \cup UNION {kit.plugins[i].hooks : i \in DOMAIN kit.plugins}

\* findPlugins ignores a folder without a program.
Found == SelectSeq(kit.plugins, LAMBDA p : p.program)
Legacy == DOMAIN kit.legacy
Unregistered == {"unregistered"}

Fresh ==
    /\ manager' = [at |-> "legacy", n |-> 1, todo |-> {}, handler |-> "", rules |-> <<>>]
    /\ versions' = [p \in Legacy |-> Unregistered]
    /\ legacyHooks' = [t \in HookTypes |-> <<>>] /\ clientHooks' = legacyHooks'
    /\ ports' = {} /\ urls' = {} /\ call' = NoWrite /\ led' = {} /\ gone' = {}

PluginInit ==
    /\ kit \in Settings("plugins", PluginSetups)
    /\ manager = [at |-> "legacy", n |-> 1, todo |-> {}, handler |-> "", rules |-> <<>>]
    /\ versions = [p \in Legacy |-> Unregistered]
    /\ legacyHooks = [t \in HookTypes |-> <<>>] /\ clientHooks = legacyHooks
    /\ ports = {} /\ urls = {} /\ call = NoWrite /\ sent = NoWrite /\ led = {} /\ gone = {}
    /\ exits = 0 /\ refused = FALSE

\* An error of Start or SetLeader ends the process, and a new one begins.
Quit == Fresh /\ UNCHANGED <<kit, sent>>
QuitOnError == exits < kit.exits /\ exits' = exits + 1 /\ UNCHANGED refused /\ Quit

-----------------------------------------------------------------------------
(* Legacy plugins (pkg/plugin/v1)                                            *)

\* The order of the plugins is that of a map.
regenerateClientHooks(all) ==
    {f \in [HookTypes -> UNION {[1 .. k -> Legacy] : k \in 0 .. Cardinality(Legacy)}] :
        \A t \in HookTypes : IsInjective(f[t]) /\ Range(f[t]) = {p \in Legacy : t \in all[p]}}

\* The plugin may have been replaced and register other hooks. Invalid ones change nothing.
RegisterPlugin(p) ==
    /\ \E hooks \in kit.legacy[p] :
          /\ hooks # versions[p] /\ "invalid" \notin hooks
          /\ versions' = [versions EXCEPT ![p] = hooks]
          /\ legacyHooks' \in regenerateClientHooks(versions')
    /\ UNCHANGED <<kit, manager, clientHooks, ports, urls, call, sent, led, gone, exits, refused>>

\* Register, for a plugin without hooks.
Register(p) ==
    /\ {} \in kit.legacy[p] /\ versions[p] = Unregistered
    /\ versions' = [versions EXCEPT ![p] = {}]
    /\ UNCHANGED <<kit, manager, legacyHooks, clientHooks, ports, urls, call, sent, led, gone, exits, refused>>

waitForPlugins ==
    /\ manager.at = "legacy"
    /\ \A p \in Legacy : versions[p] # Unregistered
    /\ manager' = [manager EXCEPT !.at = IF Found = <<>> THEN "started" ELSE "load"]
    /\ UNCHANGED <<kit, versions, legacyHooks, clientHooks, ports, urls, call, sent, led, gone, exits, refused>>

\* Ten minutes for each.
WaitTimesOut == manager.at = "legacy" /\ (\E p \in Legacy : versions[p] = Unregistered) /\ QuitOnError

-----------------------------------------------------------------------------
(* Start (pkg/plugin/v2)                                                     *)

\* loadPlugin starts all programs.
LoadPlugins ==
    /\ manager.at = "load"
    /\ \/ /\ manager' = [manager EXCEPT !.at = "initialize"]
          /\ UNCHANGED <<kit, versions, legacyHooks, clientHooks, ports, urls, call, sent, led, gone, exits, refused>>
       \/ QuitOnError

\* Initialize, GetPluginConfig and registerClientHooks.
InitializePlugin ==
    LET p == Found[manager.n]
    IN /\ manager.at = "initialize"
       /\ \/ /\ p.name \notin gone /\ "invalid" \notin p.hooks
             /\ clientHooks' = [t \in HookTypes |-> IF t \in p.hooks THEN Append(clientHooks[t], p.name) ELSE clientHooks[t]]
             /\ manager' = [manager EXCEPT !.at = "register", !.todo = DOMAIN p.handlers]
             /\ UNCHANGED <<kit, versions, legacyHooks, ports, urls, call, sent, led, gone, exits, refused>>
          \/ "invalid" \in p.hooks /\ refused' = TRUE /\ UNCHANGED exits /\ Quit
          \/ p.name \in gone /\ UNCHANGED <<exits, refused>> /\ Quit
          \/ QuitOnError

\* registerInterceptors takes the handlers in the order of a map.
NextHandler ==
    /\ manager.at = "register" /\ manager.rules = <<>>
    /\ \E h \in manager.todo :
          manager' = [manager EXCEPT !.todo = @ \ {h}, !.handler = h, !.rules = Found[manager.n].handlers[h]]
    /\ UNCHANGED <<kit, versions, legacyHooks, clientHooks, ports, urls, call, sent, led, gone, exits, refused>>

Refusal(rule) ==
    ~validateInterceptor(rule) \/ hasConflictWithExistingWildcard(ports, rule) \/ urlConflict(urls, rule)

\* Every plugin has a port of its own.
RegisterRule ==
    /\ manager.at = "register" /\ manager.rules # <<>>
    /\ LET rule == Head(manager.rules)
           port == manager.n
           h == manager.handler
       IN IF Refusal(rule)
          THEN refused' = TRUE /\ UNCHANGED exits /\ Quit
          ELSE /\ ports' = registerResourceInterceptor(ports, port, rule, h, Cardinality(ports))
               /\ urls' = registerNonResourceURL(urls, port, rule, h)
               /\ manager' = [manager EXCEPT !.rules = Tail(@)]
               /\ UNCHANGED <<kit, versions, legacyHooks, clientHooks, call, sent, led, gone, exits, refused>>

NextPlugin ==
    /\ manager.at = "register" /\ manager.rules = <<>> /\ manager.todo = {}
    /\ manager' = [manager EXCEPT !.n = @ + 1, !.at = IF manager.n = Len(Found) THEN "started" ELSE "initialize"]
    /\ UNCHANGED <<kit, versions, legacyHooks, clientHooks, ports, urls, call, sent, led, gone, exits, refused>>

\* SetLeader, once the syncer leads: the legacy plugins ask, the others are told in order.
SetLeader ==
    /\ manager.at = "started"
    /\ IF \E i \in DOMAIN Found : Found[i].name \in gone THEN Quit /\ UNCHANGED <<exits, refused>>
       ELSE /\ led' = Legacy \cup {Found[i].name : i \in DOMAIN Found}
            /\ manager' = [manager EXCEPT !.at = "leading"]
            /\ UNCHANGED <<kit, versions, legacyHooks, clientHooks, ports, urls, call, sent, gone, exits, refused>>

\* Nothing restarts a plugin whose process has ended.
PluginEnds ==
    /\ manager.at \in {"initialize", "register", "started", "leading"}
    /\ exits < kit.exits /\ exits' = exits + 1
    /\ \E i \in DOMAIN Found : Found[i].name \notin gone /\ gone' = gone \cup {Found[i].name}
    /\ UNCHANGED <<kit, manager, versions, legacyHooks, clientHooks, ports, urls, call, sent, led, refused>>

-----------------------------------------------------------------------------
(* Client and MutateObject                                                   *)

Running == manager.at \in {"started", "leading"}
HasClientHooks == \E t \in HookTypes : legacyHooks[t] # <<>> \/ clientHooks[t] # <<>>

\* Create, Update, Patch, Delete, Apply and what is read by Get and List, which goes the same way.
Begin ==
    /\ Running /\ call = NoWrite
    /\ \E t \in HookTypes :
          call' = [type |-> t, object |-> <<>>, todo |-> IF HasClientHooks THEN legacyHooks[t] ELSE <<>>,
                   by |-> IF HasClientHooks THEN "legacy" ELSE "plugins"]
    /\ UNCHANGED <<kit, manager, versions, legacyHooks, clientHooks, ports, urls, sent, led, gone, exits, refused>>

\* The plugin answers, or the call fails: the plugin is gone, or needs more than ten seconds.
MutateObject ==
    /\ call # NoWrite /\ call.todo # <<>>
    /\ LET p == Head(call.todo)
       IN call' \in {NoWrite} \cup (IF p \in gone THEN {} ELSE {[call EXCEPT !.todo = Tail(@), !.object = Append(@, p)]})
    /\ UNCHANGED <<kit, manager, versions, legacyHooks, clientHooks, ports, urls, sent, led, gone, exits, refused>>

MutateByPlugins ==
    /\ call # NoWrite /\ call.todo = <<>> /\ call.by = "legacy"
    /\ call' = [call EXCEPT !.by = "plugins", !.todo = clientHooks[call.type]]
    /\ UNCHANGED <<kit, manager, versions, legacyHooks, clientHooks, ports, urls, sent, led, gone, exits, refused>>

Send ==
    /\ call # NoWrite /\ call.todo = <<>> /\ call.by = "plugins"
    /\ sent' = [type |-> call.type, object |-> call.object]
    /\ call' = NoWrite
    /\ UNCHANGED <<kit, manager, versions, legacyHooks, clientHooks, ports, urls, led, gone, exits, refused>>

-----------------------------------------------------------------------------
PluginStep ==
    \/ waitForPlugins \/ LoadPlugins \/ InitializePlugin \/ NextHandler \/ RegisterRule \/ NextPlugin \/ SetLeader
Registers == \E p \in Legacy : versions[p] = Unregistered /\ (RegisterPlugin(p) \/ Register(p))

PluginNext ==
    \/ \E p \in Legacy : RegisterPlugin(p) \/ Register(p)
    \/ waitForPlugins \/ WaitTimesOut \/ LoadPlugins \/ InitializePlugin \/ NextHandler \/ RegisterRule \/ NextPlugin
    \/ SetLeader \/ PluginEnds
    \/ Begin \/ MutateObject \/ MutateByPlugins \/ Send

\* The syncer goes on, and the legacy plugins keep trying to register.
PluginFairness == WF_pluginVars(part = "plugins" /\ PluginStep) /\ WF_pluginVars(part = "plugins" /\ Registers)

-----------------------------------------------------------------------------
PluginTypeOK ==
    /\ manager.at \in {"legacy", "load", "initialize", "register", "started", "leading"} /\ manager.n \in 1 .. Len(Found) + 1
    /\ \A p \in Legacy : versions[p] \in kit.legacy[p] \cup {Unregistered}
    /\ \A t \in HookTypes : Range(legacyHooks[t]) \subseteq Legacy
    /\ exits \in 0 .. kit.exits /\ refused \in BOOLEAN

Rules == {r \in [i: DOMAIN Found, h: UNION {DOMAIN Found[i].handlers : i \in DOMAIN Found}, k: 1 .. 2] :
             r.h \in DOMAIN Found[r.i].handlers /\ r.k \in DOMAIN Found[r.i].handlers[r.h]}
RuleOf(r) == Found[r.i].handlers[r.h][r.k]
HandlerOf(r) == [port |-> r.i, handler |-> r.h]

Requests == [group: {"", "apps"}, resource: {"pods", "nodes"}, verb: {"get", "list"}, name: {"", "x", "y"}]
Paths == [path: {<<"healthz">>, <<"healthz", "etcd">>, <<"version">>}, verb: {"get", "post"}]

\* Once the plugins are registered (interceptorPortForResource), a request that some rule
\* is for is sent to the handler of such a rule, and any other to the API server. Rules for
\* all verbs of particular names are not found.
RequestsReachHandlers ==
    Running =>
        \A q \in Requests :
            LET wanting == {r \in Rules : Wants(RuleOf(r), q)}
                found == {r \in wanting : ~NamesIgnored(RuleOf(r))}
                to == interceptorPortForResource(ports, q)
            IN to \subseteq {HandlerOf(r) : r \in found} /\ Cardinality(to) = IF found = {} THEN 0 ELSE 1

\* The same of other requests (InterceptorPortForNonResourceURL), where no two of the
\* registered URLs match the path.
URLsReachHandlers ==
    Running =>
        \A q \in Paths :
            LET wanting == {r \in Rules : WantsURL(RuleOf(r), q)}
            IN Cardinality({u \in {e.url : e \in urls} : urlMatches(u, q.path)}) <= 1
               => \A to \in InterceptorPortForNonResourceURL(urls, q) :
                      to \subseteq {HandlerOf(r) : r \in wanting} /\ Cardinality(to) = IF wanting = {} THEN 0 ELSE 1

\* Of two entries of which one is for all requests of the other, the second is refused
\* (hasConflictWithExistingWildcard). The exceptions are a later entry for a name, which
\* goes before an earlier one for all names, and an earlier wildcard that the wildcard of
\* a third entry hides.
OverlapsRefused ==
    \A a, b \in ports :
        a.age < b.age =>
            /\ ~(Covers(b, a) /\ SameNames(b, a))
            /\ Covers(a, b) /\ SameNames(b, a)
               => \E c \in ports \ {a, b} : "*" \in {c.group, c.resource, c.verb}

\* Whatever happens to plugins and their registrations, every object that the clients send
\* has been changed once by each plugin that has a hook for it, by the legacy plugins
\* first, and by the plugins of the folder in their order (MutateObject).
HooksApplied ==
    sent # NoWrite =>
        LET always == {p \in Legacy : \A hooks \in kit.legacy[p] : "invalid" \in hooks \/ sent.type \in hooks}
            plugins == SelectSeq(Found, LAMBDA p : sent.type \in p.hooks)
        IN /\ IsInjective(sent.object)
           /\ always \subseteq Range(sent.object)
           /\ SelectSeq(sent.object, LAMBDA p : p \notin Legacy) = [i \in DOMAIN plugins |-> plugins[i].name]
           /\ \A i, j \in DOMAIN sent.object : sent.object[j] \in Legacy /\ i < j => sent.object[i] \in Legacy

\* The syncer starts with its plugins and tells them that it leads, unless their
\* configuration is refused (manager.Start, SetLeader).
PluginsLead ==
    <>[](part = "plugins" => refused \/ (manager.at = "leading" /\ led = Legacy \cup {Found[i].name : i \in DOMAIN Found}))

\* Requests and writes go to the plugins that asked for them, and no two plugins ask
\* for the same ones (registerInterceptors, WithInterceptors, MutateObject).
PluginsInvoked == RequestsReachHandlers /\ URLsReachHandlers /\ OverlapsRefused /\ HooksApplied

=============================================================================
