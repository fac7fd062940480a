SPECIFICATION Spec
CONSTANTS
    MAX_USERS = 2
    LINEBUFFER_SIZE = 2
    NameMax = 1
    Char = {"q"}
    Quit <- QuitLine
    MaxConnections = 3
    MaxUnfinished = 0
CHECK_DEADLOCK FALSE
INVARIANTS
    TypeOK
    NamesUnique
    LineAsTyped
    TrackersAccounted
    SocketsOpen
    ExitsOnLoss
