CONSTANTS
    a = a
    b = b
    c = c
    Peers <- MCPeers2
    MaxEvents = 11
    SeedLeafRoots = TRUE
SPECIFICATION Spec
SYMMETRY PeerSymmetry
INVARIANTS
    TypeOK
    RootUnique
    FlagTableDistinctCreators
CHECK_DEADLOCK FALSE
