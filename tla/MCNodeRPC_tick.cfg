CONSTANTS
    c1 = c1
    c2 = c2
    Callers <- MCCallers
    MaxCalls = 1
    ResetDrains = FALSE
SPECIFICATION Spec
PROPERTY ProcessTimeoutGenuine
CHECK_DEADLOCK FALSE
