SPECIFICATION Spec
CONSTANTS
    a = a  b = b  c = c  d = d  u = u  None = None  Gone = Gone
    Creates = {a, b, c}
    Deletes = {d}
    URLs = {u}
    PVCs = {1, 2}
    URL <- MCURL
    Created <- MCCreated
    Handles <- MCHandles
    Environments <- MCEnvironments
INVARIANTS
    TypeOK
    
    
    RecordedIsDone
PROPERTIES
    EndedForGood
CHECK_DEADLOCK FALSE
