CONSTANTS
    p1 = p1
    p2 = p2
    p3 = p3
    q1 = q1
    Peers <- MCPeers
    Strangers <- MCStrangers
    MaxBlocks = 2
    MaxPool = 3
    MaxSigs = 4
SPECIFICATION Spec
SYMMETRY PeerSymmetry
INVARIANTS
    TypeOK
    SignaturesGenuine
    AnchorJustified
