SPECIFICATION FairSpec
CONSTANTS
    MaxOps = 3
    UsesPassword = TRUE
    ToxFails = TRUE
    DiskFails = TRUE
    HQAV = TRUE
    GivesUp = TRUE
    Prompt = TRUE
INVARIANTS UnsavedIsFlagged 
PROPERTIES  OnlyPasswordKeepsUI KillIsObeyed
CHECK_DEADLOCK FALSE
