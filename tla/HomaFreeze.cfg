CONSTANTS
    c1 = c1
    c2 = c2
    p1 = p1
    p2 = p2
    p3 = p3
    Cores <- MCCores
    Peers <- MCPeers
    FreezeTypes <- MCFreezeTypes
    MaxArms <- MCMaxArms

SPECIFICATION Spec

INVARIANT FreezeReachesKnownPeers
