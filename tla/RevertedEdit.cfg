CONSTANTS
    None = None
    Keys = {"a"}
    FirstVersion = 8
    LateVersion = 20
    Scenarios <- Reverted
SPECIFICATION Spec
CHECK_DEADLOCK FALSE
PROPERTY
    SelectorEditKept
