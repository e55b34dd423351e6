---------------------------- MODULE MCMappingStore ----------------------------
(***************************************************************************)
(* A small instance of MappingStore: a pod, the default/kubernetes service *)
(* with a host name left by an earlier version and the one it has now, and *)
(* a service whose host name collides with the latter.                     *)
(***************************************************************************)
EXTENDS MappingTable

CONSTANTS pod, svc, a, k, t, A, Old, New

Pair(kind, v, p) == [kind |-> kind, v |-> v, p |-> p]
PodA == Pair(pod, a, A)
KubernetesOld == Pair(svc, k, Old)
KubernetesNew == Pair(svc, k, New)
ServiceT == Pair(svc, t, New)

MCPairs == {PodA, KubernetesOld, KubernetesNew, ServiceT}
MCOwners == {PodA, Pair(svc, t, None)}
MCHostNameOf == [o \in VirtualObjects |->
    CASE o = <<pod, a>> -> A
      [] o = <<svc, k>> -> New
      [] o = <<svc, t>> -> New
      [] OTHER -> None]
MCVirtualNameOf == [o \in HostObjects |->
    CASE o = <<svc, New>> -> k
      [] OTHER -> None]
MCVolatile == {VirtualObject(ServiceT), HostObject(KubernetesNew)}

\* Nothing, the old mapping, a pod that refers to it, and both.
Left(k1, refs) == [o \in Keys |->
    CASE o = <<svc, k>> /\ k1 -> [p |-> Old, refs |-> {}]
      [] o = <<pod, a>> /\ refs # {} -> [p |-> A, refs |-> refs]
      [] OTHER -> NothingSaved]
MCBackends == {Left(FALSE, {}), Left(FALSE, {KubernetesOld}), Left(TRUE, {KubernetesOld})}
=============================================================================
