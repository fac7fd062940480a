SPECIFICATION Spec
CONSTANTS
    Byte <- Mccp1Byte
    Sizes <- MCSizes
    MemoryFails = TRUE
    MaxChunk = 3
INVARIANTS
    DataInChunk
