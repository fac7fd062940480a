SPECIFICATION Spec
CONSTANTS
    Object = {o1, o2}
    Addr = {a1, a2, a3, a4, a5}
    Null = Null
    Fails = TRUE
    MaxDepth = 2
SYMMETRY Symmetry
CHECK_DEADLOCK FALSE
INVARIANTS
    TypeOK
    OwnTracker
    RoutedToOwner
    HeapAccounted
    MemorySafe
