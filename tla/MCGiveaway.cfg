SPECIFICATION FairSpec
CONSTANTS
    Users = {u1, u2}
    NoUser = NoUser
    WinnersCount = 1
    Handlers = {h1, h2}
    DbErrors = TRUE
    MaxCrashes = 1
INVARIANTS
    EndsOnce
    RerollIsRecorded
PROPERTIES
    FinalIsFinal
    EndsUnlessError
CHECK_DEADLOCK FALSE
