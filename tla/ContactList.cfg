SPECIFICATION Spec
CONSTANTS
    p1 = p1
    p2 = p2
    p3 = p3
    Nobody = Nobody
    Person <- ThreePeople
    Limits <- FewLimits
SYMMETRY Symm
INVARIANTS TypeOK PageMatches AsksForTheRight  RequestsKept
PROPERTIES OnlyTheChosen
CHECK_DEADLOCK FALSE
