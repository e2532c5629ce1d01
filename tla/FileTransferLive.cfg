SPECIFICATION FairSpec
CONSTANTS
    a = a
    b = b
    c = c
    x = x
    y = y
    NoFile = NoFile
    OutFile = {a, b}
    InFile = {}
    LastNumber = 0
    MaxTransfers = 1
    MaxIncoming = 1
    Extras = TRUE
    MaxQueue = 2
    UIPrompt = FALSE
    Others = TRUE
    Reconfigures = FALSE
    Crashes = TRUE
INVARIANTS NeverUndercounts
PROPERTIES  DeliverySpec
CHECK_DEADLOCK FALSE
