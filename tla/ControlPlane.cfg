SPECIFICATION Spec
CONSTANTS
    Parts = {"serving", "certificates", "deployer", "services", "names", "boot", "selection", "pods", "spec", "plugins"}
    Nodes = {"a.b", "a-b"}
    IPs = {"ip1", "ip2"}
    NoOne = NoOne
    NodeSetups <- MCNodeSetups
    Replicas = {1, 2}
    Nothing = Nothing
    MaxKeys = 3
    MaxRotations = 2
    CertSetups <- MCCertSetups
    Objects = {"x", "y"}
    Charts = {"c", "d"}
    Nil = Nil
    MaxStarts = 3
    DeploySetups <- MCDeploySetups
    Absent = Absent
    MaxEdits = 3
    LinkSetups <- MCLinkSetups
    MaxLength = 7
    MaxChanges = 4
    NameSetups <- MCNameSetups
    MaxTroubles = 2
    BootSetups <- MCBootSetups
    Spaces <- MCSpaces
    Others <- MCOthers
    LabelValues = {"a", "b"}
    VirtualKeys <- MCVirtualKeys
    SpaceKeys <- MCSpaceKeys
    Selectors <- MCSelectors
    SpaceSelectors <- MCSpaceSelectors
    NoSelector = NoSelector
    MaxLabelEdits = 3
    HostNodes = {1, 2}
    PodSetups <- MCPodSetups
    NoPod = NoPod
    MaxPods = 3
    SpecSetups <- MCSpecSetups
    MaxSpecEdits = 3
    PluginSetups <- MCPluginSetups
    NoWrite = NoWrite
INVARIANTS
    TypeOK
    AddressServed
    CertificatesValid
    SuccessIsDeployed
    OneHostObject
    StartsSafely
    
    PodsConsistent
    
    PluginsInvoked
PROPERTIES
    NothingLost
    
CHECK_DEADLOCK FALSE
