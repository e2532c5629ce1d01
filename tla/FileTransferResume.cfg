SPECIFICATION Spec
CONSTANTS
    a = a
    b = b
    c = c
    x = x
    y = y
    NoFile = NoFile
    OutFile = {a}
    InFile = {}
    LastNumber = 1
    MaxTransfers = 1
    MaxIncoming = 1
    Extras = FALSE
    MaxQueue = 2
    UIPrompt = TRUE
    Others = FALSE
    Reconfigures = FALSE
    Crashes = FALSE
SYMMETRY Symm
INVARIANTS RestartedWhenOnline
CHECK_DEADLOCK FALSE
