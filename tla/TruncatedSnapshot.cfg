SPECIFICATION Spec
CONSTANTS
    a = a  b = b  c = c  d = d  u = u  None = None  Gone = Gone
    Creates = {a}
    Deletes = {d}
    URLs = {u}
    PVCs = {1}
    URL <- MCURL
    Created <- MCCreated
    Handles <- MCHandles
    Environments <- MCSingle
CHECK_DEADLOCK FALSE
INVARIANTS
    SavedSnapshotsWhole
