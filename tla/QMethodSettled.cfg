SPECIFICATION Spec
CONSTANTS
    OffererCmds <- MCOffererCmds
    AskerCmds <- MCAskerCmds
INVARIANTS
    QuietMeansSettled
