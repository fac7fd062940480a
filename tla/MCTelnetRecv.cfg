SPECIFICATION Spec
CONSTANTS
    Byte <- MCByte
    Sizes <- MCSizes
    MemoryFails = TRUE
    MaxChunk = 3
INVARIANTS
    TypeOK
    BufferFits
PROPERTIES
    DecodesStream
