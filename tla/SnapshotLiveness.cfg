SPECIFICATION FairSpec
CONSTANTS
    a = a  b = b  c = c  d = d  u = u  None = None  Gone = Gone
    Creates = {a, b}
    Deletes = {d}
    URLs = {u}
    PVCs = {1}
    URL <- MCURL
    Created <- MCCreated
    Handles <- MCHandles
    Environments <- MCFair
CHECK_DEADLOCK FALSE
PROPERTIES
    RequestsFinish
    SecretsRemoved
