CONSTANTS
    a = a
    b = b
    c = c
    Peers <- MCPeers2
    MaxEvents = 4
    SeedLeafRoots = FALSE
SPECIFICATION Spec
SYMMETRY PeerSymmetry
INVARIANT FirstEventIsRoot
CHECK_DEADLOCK FALSE
