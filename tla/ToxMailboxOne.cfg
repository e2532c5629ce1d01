SPECIFICATION FairSpec
CONSTANTS
    Posters = {ui}
    MaxCalls = 4
    GivesUp = FALSE
PROPERTIES CallReturns HandoffSpec
CHECK_DEADLOCK FALSE
