SPECIFICATION FairSpec
CONSTANTS
    MaxOps = 2
    UsesPassword = FALSE
    ToxFails = FALSE
    DiskFails = FALSE
    HQAV = TRUE
    GivesUp = FALSE
    Prompt = TRUE
INVARIANTS SavedBeforeExit
CHECK_DEADLOCK FALSE
