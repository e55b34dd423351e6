----------------------------- MODULE Interceptors -----------------------------
(***************************************************************************)
(* The interceptors of the plugins (pkg/plugin/v2/plugin.go): how rules    *)
(* are validated and entered into the tables of the manager, which         *)
(* conflicts are refused, and which handler a request is sent to.          *)
(*                                                                         *)
(* The table for resources, a map of maps in the code, is a set of entries *)
(* here; "*" in an entry is a wildcard. A rule gives sets of groups,       *)
(* resources, verbs and names, and of URLs, which may end in a wildcard.   *)
(***************************************************************************)
EXTENDS Integers, FiniteSets, SequencesExt

Handlers(T) == {[port |-> e.port, handler |-> e.handler] : e \in T}

-----------------------------------------------------------------------------
(* registerInterceptors                                                      *)

Alone(S) == "*" \in S => S = {"*"}
validateInterceptor(rule) ==
    /\ rule.verbs # {} /\ Alone(rule.verbs) /\ Alone(rule.resources) /\ Alone(rule.groups)
    /\ rule.urls = {} => rule.resources # {} /\ rule.groups # {}
    /\ \A u \in rule.urls : u.star # "inside"

\* No names are all names.
NamesOf(rule) == IF rule.names = {} THEN {"*"} ELSE rule.names
Tuples(rule) == [group: rule.groups, resource: rule.resources, verb: rule.verbs, name: NamesOf(rule)]

\* The entries under the wildcard, where there is one, else under the value.
Under(T, field, value) ==
    IF \E e \in T : e[field] = "*" THEN {e \in T : e[field] = "*"} ELSE {e \in T : e[field] = value}
conflictWithWildcard(T, t) ==
    LET in == Under(Under(Under(T, "group", t.group), "resource", t.resource), "verb", t.verb)
    IN in # {} /\ (t.name = "*" \/ \E e \in in : e.name = t.name)

\* Comparing the values alone (a faulty Below).
BelowExactly(T, field, value) == {e \in T : e[field] = value}

\* hasGroupConflict, hasResourceConflict, hasVerbConflict: a new wildcard meets all entries.
Below(T, field, value) == {e \in T : value \in {"*", e[field]}}
hasGroupConflict(T, t) ==
    LET in == Below(Below(Below(T, "group", t.group), "resource", t.resource), "verb", t.verb)
    IN in # {} /\ (t.name = "*" \/ \E e \in in : e.name = t.name)

hasConflictWithExistingWildcard(T, rule) ==
    \E t \in Tuples(rule) : conflictWithWildcard(T, t) \/ hasGroupConflict(T, t)

\* Entries of one rule have the same age. The code's second look for the same tuples finds
\* nothing that hasGroupConflict has not.
registerResourceInterceptor(T, port, rule, handler, age) ==
    T \cup {[group |-> t.group, resource |-> t.resource, verb |-> t.verb, name |-> t.name,
             port |-> port, handler |-> handler, age |-> age] : t \in Tuples(rule)}

URLsOf(rule) == {u \in rule.urls : u.path # <<>> \/ u.star = "end"}
urlConflict(U, rule) == \E e \in U : e.url \in URLsOf(rule) /\ e.verb \in rule.verbs
registerNonResourceURL(U, port, rule, handler) ==
    U \cup {[url |-> u, verb |-> v, port |-> port, handler |-> handler] : u \in URLsOf(rule), v \in rule.verbs}

-----------------------------------------------------------------------------
(* WithInterceptors: the handler of a request; none where the set is empty.   *)

Or(first, second) == IF first # {} THEN first ELSE second
portForResourceName(T, name) == Or({e \in T : e.name = name}, {e \in T : e.name = "*"})
portForResourceNameAndVerb(T, verb, name) ==
    Or(portForResourceName({e \in T : e.verb = verb}, name), portForResourceName({e \in T : e.verb = "*"}, "*"))
portForResource(T, resource, verb, name) ==
    Or(portForResourceNameAndVerb({e \in T : e.resource = resource}, verb, name),
       portForResourceNameAndVerb({e \in T : e.resource = "*"}, verb, name))

interceptorPortForResource(T, q) ==
    Handlers(Or(portForResource({e \in T : e.group = q.group}, q.resource, q.verb, q.name),
                portForResource({e \in T : e.group = "*"}, q.resource, q.verb, q.name)))

urlMatches(url, path) == IF url.star = "end" THEN IsPrefix(url.path, path) ELSE url.path = path

\* urlMatchWithWildcard takes the first match in the random order of a map: the answer is
\* one of this set.
InterceptorPortForNonResourceURL(U, q) ==
    LET keys == {u \in {e.url : e \in U} : urlMatches(u, q.path)}
        At(u, v) == {e \in U : e.url = u /\ e.verb = v}
    IN IF keys = {} THEN {{}} ELSE {Handlers(Or(At(u, "*"), At(u, q.verb))) : u \in keys}

-----------------------------------------------------------------------------
(* What a rule says by itself.                                               *)

Wants(rule, q) ==
    /\ rule.groups \cap {q.group, "*"} # {} /\ rule.resources \cap {q.resource, "*"} # {}
    /\ rule.verbs \cap {q.verb, "*"} # {} /\ NamesOf(rule) \cap {q.name, "*"} # {}

\* The lookup ignores rules for all verbs of particular names.
NamesIgnored(rule) == "*" \in rule.verbs /\ "*" \notin NamesOf(rule)

WantsURL(rule, q) == rule.verbs \cap {q.verb, "*"} # {} /\ \E u \in rule.urls : urlMatches(u, q.path)

\* One entry covers another if it is for all its requests, names aside.
Covers(a, b) == \A field \in {"group", "resource", "verb"} : a[field] \in {"*", b[field]}
SameNames(a, b) == a.name \in {"*", b.name}

=============================================================================
