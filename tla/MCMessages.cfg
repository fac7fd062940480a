SPECIFICATION Spec
CONSTANTS
    Byte <- MCByte
    Messages <- MCMessages
    Payload = 8
    PrintBuffer = 3
    MemoryFails = TRUE
INVARIANTS
    TypeOK
    InBounds
    Delivered
    ParsedAsWritten
    ReadsGrammar
