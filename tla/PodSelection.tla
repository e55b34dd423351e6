----------------------------- MODULE PodSelection -----------------------------
(***************************************************************************)
(* Who selects whom. All pods of a vCluster share one host namespace, so   *)
(* that a namespace of the virtual cluster is a label of the host pod, and *)
(* its labels are labels with a prefix of their own. The selectors of      *)
(* Services, network policies, affinity terms, topology spreads and        *)
(* disruption budgets are rewritten accordingly (pkg/util/translate,       *)
(* pkg/controllers/resources).                                             *)
(*                                                                         *)
(* One pod, whose labels change on either side and whose namespace changes *)
(* its own, is kept in step by Diff; others stay as they are. A label key  *)
(* is a sequence of words, a hashed key the prefix and the key.            *)
(***************************************************************************)
EXTENDS ControlPlaneParts, Integers, Sequences, FiniteSets, TLC

CONSTANTS
    Spaces,         \* the virtual namespaces: the first is that of the pod
    Others,         \* pods that do not change, ours and of others: a sequence of [own, space, labels]
    LabelValues,    \* the values of labels
    VirtualKeys,    \* the keys that the pod may have in the virtual cluster: none that is made here
    SpaceKeys,      \* the keys that its namespace may have
    Selectors,      \* the selectors for pods
    SpaceSelectors, \* the selectors for namespaces
    NoSelector,     \* a selector that is nil
    MaxLabelEdits   \* bound on the changes that are explored

VARIABLES
    vLabels,        \* the labels of the pod in the virtual cluster
    pLabels,        \* those of its host pod
    spaceLabels,    \* those of its namespace
    shown,          \* the annotation from which the downward API shows all labels
    old,            \* the labels at the last sync
    forgotten,      \* the object cache, which holds them, was lost since
    dirty,          \* a change waits for its reconcile
    labelEdits,     \* how many changes there were
    crossed         \* history: changes on both sides met, or one met a restart of the syncer

selectVars == <<vLabels, pLabels, spaceLabels, shown, old, forgotten, dirty, labelEdits, crossed>>

Release == <<"release">>
Namespace == <<"namespace">>
Marker == <<"managed-by">>
Controller == <<"controlled-by">>
LabelsToTranslate == {Release, Namespace, Marker, Controller}
Own == Spaces[1]

convertLabelKeyWithPrefix(prefix, key) == <<prefix>> \o key

IsTranslatedLabel(key) == \E k \in LabelsToTranslate : convertLabelKeyWithPrefix("label", k) = key

HostLabel(key) == IF key \in LabelsToTranslate THEN convertLabelKeyWithPrefix("label", key) ELSE key

\* The empty key where there is no virtual one.
VirtualLabel(key) ==
    CASE key \in LabelsToTranslate -> <<>>
      [] IsTranslatedLabel(key) -> Tail(key)
      [] OTHER -> key

HostLabelNamespace(key) == convertLabelKeyWithPrefix("ns-label", key)
OfNamespace(key) == Len(key) > 0 /\ key[1] = "ns-label"

Rekey(map, Key(_)) ==
    [k \in {Key(j) : j \in DOMAIN map} |-> map[CHOOSE j \in DOMAIN map : Key(j) = k]]
Omit(map, Excluded(_)) == [k \in {j \in DOMAIN map : ~Excluded(j)} |-> map[k]]

HostLabelsMap(labels, space) ==
    (Marker :> "us" @@ Namespace :> space) @@ Rekey(Omit(labels, IsTranslatedLabel), HostLabel)

\* Translate adds the labels of the namespace.
NamespaceLabels(labels) == Rekey(labels, HostLabelNamespace)
Translated(labels, space, ofSpace) == NamespaceLabels(ofSpace) @@ HostLabelsMap(labels, space)

\* Lines with a key and its value.
LabelsAnnotation(labels) == {<<k, labels[k]>> : k \in DOMAIN labels}

-----------------------------------------------------------------------------
(* Labels in both directions: the changes of one side since the last sync    *)
(* are made on the other.                                                    *)

\* The empty key for what does not cross.
ToHostKey(key) == IF OfNamespace(HostLabel(key)) THEN <<>> ELSE HostLabel(key)
FromHostKey(key) == IF OfNamespace(VirtualLabel(key)) THEN <<>> ELSE VirtualLabel(key)

mergeMaps(before, after, target, side) ==
    LET transformKey(k) == IF side = "host" THEN ToHostKey(k) ELSE FromHostKey(k)
        changed == {k \in DOMAIN before \cup DOMAIN after :
                       /\ ~(k \in DOMAIN before \cap DOMAIN after /\ before[k] = after[k])
                       /\ transformKey(k) # <<>>}
        gone == {transformKey(k) : k \in changed \ DOMAIN after}
        set == Rekey([k \in changed \cap DOMAIN after |-> after[k]], transformKey)
    IN set @@ [k \in DOMAIN target \ gone |-> target[k]]

LabelsBidirectionalUpdate(virtualOld, virtual, hostOld, host) ==
    CASE virtualOld # virtual -> [virtual |-> virtual, host |-> mergeMaps(virtualOld, virtual, host, "host")]
      [] virtualOld = virtual /\ hostOld # host ->
            [virtual |-> mergeMaps(hostOld, host, virtual, "virtual"), host |-> host]
      [] OTHER -> [virtual |-> virtual, host |-> host]

-----------------------------------------------------------------------------
(* Selectors                                                                 *)

\* labels are equalities; expressions are [key, operator, values].
hostLabelSelector(s, prefix) ==
    LET Key(k) == IF prefix = "label" THEN HostLabel(k) ELSE HostLabelNamespace(k)
    IN IF s = NoSelector THEN NoSelector
       ELSE [labels |-> Rekey(s.labels, Key), expressions |-> {[e EXCEPT !.key = Key(@)] : e \in s.expressions}]

HostLabelSelector(s) == hostLabelSelector(s, "label")
HostLabelSelectorNamespace(s) == hostLabelSelector(s, "ns-label")

IsEmpty(s) == DOMAIN s.labels = {} /\ s.expressions = {}

MergeLabelSelectors(s, t) ==
    LET Given(r) == IF r = NoSelector THEN [labels |-> <<>>, expressions |-> {}] ELSE r
    IN [labels |-> Given(t).labels @@ Given(s).labels, expressions |-> Given(s).expressions \cup Given(t).expressions]

Requiring(s, labels) == [s EXCEPT !.labels = labels @@ @]
OfUs == Marker :> "us"
OfUsIn(space) == OfUs @@ Namespace :> space

\* [labels, names, spaces]: the selector for pods, a set of namespaces and a selector for them.
translatePodAffinityTerm(space, term) ==
    LET s == HostLabelSelector(term.labels)
        named == [s EXCEPT !.expressions = @ \cup {[key |-> Namespace, operator |-> "In", values |-> term.names]}]
    IN CASE term.labels = NoSelector -> NoSelector
         [] term.labels # NoSelector /\ term.names # {} ->
               Requiring(IF term.spaces # NoSelector /\ IsEmpty(term.spaces) THEN s ELSE named, OfUs)
         [] term.labels # NoSelector /\ term.names = {} /\ term.spaces # NoSelector ->
               Requiring(MergeLabelSelectors(s, HostLabelSelectorNamespace(term.spaces)), OfUs)
         [] OTHER -> Requiring(s, OfUsIn(space))

translateTopologySpread(space, s) ==
    IF s = NoSelector THEN NoSelector ELSE Requiring(HostLabelSelector(s), OfUsIn(space))

\* The pods that a network policy is for; the peers of its rules, [labels, spaces].
translatePolicy(space, s) == Requiring(HostLabelSelector(s), OfUsIn(space))

\* Without the marker of the vCluster (a faulty translateNetworkPolicyPeer).
UnmarkedPeer(space, peer) ==
    LET s == MergeLabelSelectors(HostLabelSelector(peer.labels), HostLabelSelectorNamespace(peer.spaces))
    IN IF peer.spaces = NoSelector THEN Requiring(s, Namespace :> space) ELSE s

translateNetworkPolicyPeer(space, peer) ==
    LET s == MergeLabelSelectors(HostLabelSelector(peer.labels), HostLabelSelectorNamespace(peer.spaces))
    IN Requiring(s, IF peer.spaces = NoSelector THEN OfUsIn(space) ELSE OfUs)

\* A Service has equalities only, and selects nothing without one.
translateService(space, labels) == [labels |-> HostLabelsMap(labels, space), expressions |-> {}]
translateBudget(s) == HostLabelSelector(s)

-----------------------------------------------------------------------------
(* The pod                                                                   *)

AllLabels(keys) == UNION {[K -> LabelValues] : K \in SUBSET keys}

SelectInit ==
    /\ vLabels \in Settings("selection", AllLabels({Release}))
    /\ spaceLabels \in AllLabels({})
    /\ pLabels = Translated(vLabels, Own, spaceLabels)
    /\ shown = LabelsAnnotation(vLabels)
    /\ old = [virtual |-> vLabels, host |-> pLabels]
    /\ forgotten = FALSE
    /\ dirty = FALSE
    /\ labelEdits = 0
    /\ crossed = FALSE

Edited == /\ labelEdits < MaxLabelEdits
          /\ labelEdits' = labelEdits + 1
          /\ dirty' = TRUE

\* label k of a map becomes v, or goes.
Changes(map, k) ==
    ({[j \in DOMAIN map \ {k} |-> map[j]]} \cup {k :> v @@ map : v \in LabelValues}) \ {map}

EditVirtualLabels ==
    /\ Edited
    /\ \E k \in VirtualKeys : vLabels' \in Changes(vLabels, k)
    /\ UNCHANGED <<pLabels, spaceLabels, shown, old, forgotten, crossed>>

\* Someone on the host, who leaves the marker and the namespace alone.
EditHostLabels ==
    /\ Edited
    /\ \E k \in {HostLabel(j) : j \in VirtualKeys} \cup {HostLabelNamespace(j) : j \in SpaceKeys} :
          pLabels' \in Changes(pLabels, k)
    /\ UNCHANGED <<vLabels, spaceLabels, shown, old, forgotten, crossed>>

\* ModifyController: a change of the labels enqueues the pods of the namespace.
EditNamespaceLabels ==
    /\ Edited
    /\ \E k \in SpaceKeys : spaceLabels' \in Changes(spaceLabels, k)
    /\ UNCHANGED <<vLabels, pLabels, shown, old, forgotten, crossed>>

\* getObjects takes for the old objects, where it has none, those that are there; the
\* virtual one without labels.
Before == IF forgotten THEN [virtual |-> <<>>, host |-> pLabels] ELSE old
Crossing ==
    IF forgotten THEN old.virtual # vLabels \/ old.host # pLabels
    ELSE old.virtual # vLabels /\ old.host # pLabels

\* Diff in Sync, and the patch.
DiffLabels ==
    LET n == LabelsBidirectionalUpdate(Before.virtual, vLabels, Before.host, pLabels)
    IN /\ dirty
       /\ vLabels' = n.virtual
       /\ pLabels' = NamespaceLabels(spaceLabels) @@ Omit(n.host, OfNamespace)
       /\ shown' = LabelsAnnotation(vLabels')
       /\ old' = [virtual |-> vLabels', host |-> pLabels']
       /\ dirty' = FALSE
       /\ forgotten' = FALSE
       /\ crossed' = (crossed \/ Crossing)
       /\ UNCHANGED <<spaceLabels, labelEdits>>

\* The syncer restarts, and every object is reconciled.
RestartLabels ==
    /\ Edited
    /\ ~forgotten
    /\ forgotten' = TRUE
    /\ UNCHANGED <<vLabels, pLabels, spaceLabels, shown, old, crossed>>

SelectNext == EditVirtualLabels \/ EditHostLabels \/ EditNamespaceLabels \/ DiffLabels \/ RestartLabels

SelectTypeOK ==
    /\ vLabels \in AllLabels(VirtualKeys)
    /\ spaceLabels \in AllLabels(SpaceKeys)
    /\ shown \subseteq VirtualKeys \X LabelValues
    /\ dirty \in BOOLEAN /\ forgotten \in BOOLEAN /\ crossed \in BOOLEAN
    /\ labelEdits \in 0..MaxLabelEdits

-----------------------------------------------------------------------------
(* What selectors mean to Kubernetes.                                        *)

Holds(e, labels) ==
    CASE e.operator = "In" -> e.key \in DOMAIN labels /\ labels[e.key] \in e.values
      [] e.operator = "NotIn" -> ~(e.key \in DOMAIN labels /\ labels[e.key] \in e.values)
      [] e.operator = "Exists" -> e.key \in DOMAIN labels
      [] e.operator = "DoesNotExist" -> e.key \notin DOMAIN labels
Matches(s, labels) ==
    /\ s # NoSelector
    /\ \A k \in DOMAIN s.labels : k \in DOMAIN labels /\ labels[k] = s.labels[k]
    /\ \A e \in s.expressions : Holds(e, labels)

\* The pod is 0, the others have the numbers from 1.
AllPods == 0..Len(Others)
OurPods == {p \in AllPods : p = 0 \/ Others[p].own}
Space(p) == IF p = 0 THEN Own ELSE Others[p].space
LabelsOf(p) == IF p = 0 THEN vLabels ELSE Others[p].labels
LabelsOfSpace(space) == IF space = Own THEN spaceLabels ELSE <<>>
HostLabelsOf(p) ==
    CASE p = 0 -> pLabels
      [] p # 0 /\ p \in OurPods -> Translated(LabelsOf(p), Space(p), <<>>)
      [] OTHER -> LabelsOf(p)

Selected(s, Where(_)) == {p \in OurPods : Matches(s, LabelsOf(p)) /\ Where(Space(p))}
HostSelected(s) == {p \in AllPods : Matches(s, HostLabelsOf(p))}

InNamespaces(own, names, spaces, space) ==
    \/ names = {} /\ spaces = NoSelector /\ space = own
    \/ space \in names
    \/ spaces # NoSelector /\ Matches(spaces, LabelsOfSpace(space))
Everything == [labels |-> <<>>, expressions |-> {}]

LabelsSettled == ~dirty /\ ~crossed

Terms == [labels: Selectors \cup {NoSelector}, names: {{}, {Spaces[2]}}, spaces: SpaceSelectors \cup {NoSelector}]
SpaceNames == {Spaces[i] : i \in DOMAIN Spaces}

\* An affinity term of a pod selects on the host the copies of the pods that it selects in
\* the virtual cluster, and none of another namespace or another vCluster, whatever became
\* of the labels of the pod and its namespace (translatePodAffinityTerm, Diff). Terms with
\* both namespaces and a selector for them are not supported.
AffinitySame ==
    (part = "selection" /\ LabelsSettled) =>
        \A t \in Terms, own \in SpaceNames :
            (t.names = {} \/ t.spaces = NoSelector \/ IsEmpty(t.spaces)) =>
                HostSelected(translatePodAffinityTerm(own, t))
                  = Selected(t.labels, LAMBDA space : InNamespaces(own, t.names, t.spaces, space))

\* The peers of a network policy, and the pods that it is for, are on the host the copies
\* of those in the virtual cluster (translateNetworkPolicyPeers, translateSpec).
PolicySame ==
    (part = "selection" /\ LabelsSettled) =>
        \A s \in Selectors, own \in SpaceNames :
            /\ HostSelected(translatePolicy(own, s)) = Selected(s, LAMBDA space : space = own)
            /\ \A spaces \in SpaceSelectors \cup {NoSelector}, labels \in {s, NoSelector} :
                  (labels # NoSelector \/ spaces # NoSelector) =>
                      HostSelected(translateNetworkPolicyPeer(own, [labels |-> labels, spaces |-> spaces]))
                        = Selected(IF labels = NoSelector THEN Everything ELSE labels,
                                   LAMBDA space : InNamespaces(own, {}, spaces, space))

\* A Service and a topology spread select on the host the copies of the pods of their
\* namespace that they select in the virtual cluster (HostLabelsMap,
\* translateTopologySpreadConstraints); a disruption budget selects at least those: its
\* selector is not restricted to the namespace.
NamespaceSame ==
    (part = "selection" /\ LabelsSettled) =>
        \A s \in Selectors, own \in SpaceNames :
            /\ HostSelected(translateTopologySpread(own, s)) = Selected(s, LAMBDA space : space = own)
            /\ Selected(s, LAMBDA space : space = own) \subseteq HostSelected(translateBudget(s))
            /\ (s.expressions = {} /\ ~IsEmpty(s)) =>
                  HostSelected(translateService(own, s.labels)) = Selected(s, LAMBDA space : space = own)

\* The downward API: all labels, and each of them, are those of the virtual pod
\* (translateFieldRef, LabelsAnnotation).
DownwardSame ==
    (part = "selection" /\ LabelsSettled) =>
        /\ shown = LabelsAnnotation(vLabels)
        /\ \A k \in VirtualKeys :
              /\ k \in DOMAIN vLabels <=> HostLabel(k) \in DOMAIN pLabels
              /\ k \in DOMAIN vLabels => vLabels[k] = pLabels[HostLabel(k)]

\* Every selector means on the host what it means in the virtual cluster, and a pod
\* reads the labels it has there (translateSelector, the policies and the services).
SelectionSame == AffinitySame /\ PolicySame /\ NamespaceSame /\ DownwardSame

=============================================================================
