CONSTANTS
    None = None
    Keys = {"a"}
    FirstVersion = 8
    LateVersion = 20
    Scenarios <- Everything
SPECIFICATION FairSpec
INVARIANTS
    TypeOK
    ClustersAgree
PROPERTIES
    NothingUndone
    
CHECK_DEADLOCK FALSE
