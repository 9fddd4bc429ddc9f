CONSTANTS
    c1 = c1
    c2 = c2
    Callers <- MCCallers
    MaxCalls = 2
    ResetDrains = FALSE
SPECIFICATION Spec
INVARIANT NodeReplyNeverBlocks
PROPERTIES
    RPCRefinement
CHECK_DEADLOCK FALSE
