SPECIFICATION Spec
CONSTANTS
    pod = pod  svc = svc  a = a  k = k  t = t
    A = A  Old = Old  New = New  None = None
    Kinds = {pod, svc}
    VNames = {a, k, t}
    HNames = {A, Old, New}
    Pairs <- MCPairs
    Verified <- MCPairs
    Owners <- MCOwners
    HostNameOf <- MCHostNameOf
    VirtualNameOf <- MCVirtualNameOf
    Kubernetes <- KubernetesNew
    Volatile <- MCVolatile
    Backends <- MCBackends
    MaxCalls = 2
INVARIANTS
    TypeOK
    LookupsExact
    
    KubernetesRepaired
    DeleteReferenceHasSome
    ReliablyPersisted

    
