SPECIFICATION Spec
CONSTANTS
    ui = ui
    dialog = dialog
    Posters = {ui, dialog}
    MaxCalls = 2
    GivesUp = TRUE
SYMMETRY Symm
INVARIANTS ExactlyOnceInOrder NoDataRace
CHECK_DEADLOCK FALSE
