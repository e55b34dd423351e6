------------------------- MODULE MCMappingReplication -------------------------
(***************************************************************************)
(* A small instance of MappingReplication: a pod that can refer to a       *)
(* service of the same name, and the service under two host names.         *)
(***************************************************************************)
EXTENDS MappingReplication, TLC

CONSTANTS Pod, Service, lower, a, S, T, q, r, w

PodA == [kind |-> Pod, v |-> a, p |-> S]
ServiceS == [kind |-> Service, v |-> a, p |-> S]
ServiceT == [kind |-> Service, v |-> a, p |-> T]

MCPairs == {PodA, ServiceS, ServiceT}
MCOwners == {PodA}
\* No object has a kind in lower case; one stands for all of them.
MCLower == [k \in Kinds |-> lower]
MCBackends ==
    {[k \in Keys |-> NothingSaved],
     [k \in Keys |-> IF k = <<Pod, a>> THEN [p |-> S, refs |-> {ServiceS}] ELSE NothingSaved]}
\* A third process takes part as long as there are two writes, of the service alone, and
\* there are three writes only to an etcd that was empty.
Bounded ==
    /\ Len(log) = MaxLog => first[<<Pod, a>>] = NothingSaved
    /\ \/ \E x \in Processes : status[x] = "new"
       \/ /\ Len(log) <= 2 /\ first[<<Pod, a>>] = NothingSaved
          /\ \A x \in Processes : PodA \notin stores[x].mappings
\* Processes are interchangeable.
Symmetry == Permutations(Processes)
=============================================================================
