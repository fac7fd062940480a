SPECIFICATION FairSpec
CONSTANTS
    OffererCmds <- MCOffererCmds
    AskerCmds <- MCAskerCmds
INVARIANTS
    TypeOK
    NoStorm
    QuietAgreement
    NoDispute
    Inv
PROPERTIES
    Settles
    WithdrawalHonoured
