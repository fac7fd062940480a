SPECIFICATION Spec
CONSTANTS
    Option <- MCOption
    BINARY = "BINARY"
    Tables <- MCTables
    AppCmds <- MCAppCmds
    MaxTexts = 1
INVARIANTS
    TypeOK
    Consent
    SkewOnlyUnsettled
    FlagsAgree
    LocalOnReported
PROPERTIES
    HalvesImplemented
