SPECIFICATION Spec
CONSTANTS
    Friends = {f1, f2}
    Videos = {FALSE, TRUE}
    CountModulus = 4
    MaxEvents = 4
SYMMETRY Symmetry
CHECK_DEADLOCK FALSE
INVARIANTS
    TypeOK
    AudioMatchesCalls
    
    
