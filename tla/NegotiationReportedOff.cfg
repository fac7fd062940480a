SPECIFICATION Spec
CONSTANTS
    Option <- MCOption
    BINARY = "BINARY"
    Tables <- MCTables
    AppCmds <- ReportAppCmds
    MaxTexts = 0
INVARIANTS
    RemoteOnReported
