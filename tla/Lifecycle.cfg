SPECIFICATION MCSpec
CONSTANTS
    None = None
    Gone = Gone
    Restores = {r1}
    PVCs = {1, 2}
    Handles = {1, 2}
    Bump = 2
    MaxRevision = 4
    Replicas = 2
    MaxCommands = 3
    Scenarios = {"pause", "deployment", "interrupt", "create", "fresh", "recreate", "sibling", "volumes", "two", "private", "deleted", "failures"}
INVARIANTS
    TypeOK
    StoreIsWhole
    CommandsHandOver
    VolumesRestored
PROPERTIES
    NoWrongData
    RestoresEnd
CHECK_DEADLOCK FALSE
