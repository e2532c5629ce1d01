SPECIFICATION Spec
CONSTANTS
    a = a
    b = b
    c = c
    x = x
    y = y
    NoFile = NoFile
    OutFile = {a}
    InFile = {x}
    LastNumber = 1
    MaxTransfers = 2
    MaxIncoming = 2
    Extras = FALSE
    MaxQueue = 2
    UIPrompt = TRUE
    Others = TRUE
    Reconfigures = TRUE
    Crashes = TRUE
SYMMETRY Symm
INVARIANTS CountsSlots OpenedOnlyIfAccepted DataKeptForUI BrokenWhenOffline
CHECK_DEADLOCK FALSE
