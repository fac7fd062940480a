SPECIFICATION Spec
CONSTANTS
    Node <- ChainNode
    Peer <- ChainPeer
    Twin <- ChainTwin
    Starters = {"S", "C"}
    Foreign = {"S"}
    Fails = TRUE
    OutMax = 1
    InMax = 2
    ChunkMax = 2
    MaxSent <- ChainSent
    MaxStarts = 2
CHECK_DEADLOCK FALSE
INVARIANTS
    TypeOK
    NothingLost
    Framed
    ToldTruly
    NoUseAfterFree
