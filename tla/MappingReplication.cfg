SPECIFICATION Spec
CONSTANTS
    Pod = Pod  Service = Service  lower = lower
    a = a  S = S  T = T  None = None
    q = q  r = r  w = w  NoProcess = NoProcess
    Kinds = {Pod, Service, lower}
    VNames = {a}
    HNames = {S, T}
    Pairs <- MCPairs
    Verified <- MCPairs
    Processes = {q, r, w}
    Owners <- MCOwners
    Lower <- MCLower
    Backends <- MCBackends
    MaxLog = 3
SYMMETRY Symmetry
CONSTRAINT Bounded
CHECK_DEADLOCK FALSE
INVARIANTS
    TypeOK
    FollowersReplay
    ReplicasIndexed
    LeaderPersists
