SPECIFICATION Spec
CONSTANTS
    Byte <- EnvironByte
    Sizes <- MCSizes
    MemoryFails = TRUE
    MaxChunk = 3
PROPERTIES
    BreakingCommandEvaluated
