CONSTANTS
    n1 = n1
    n2 = n2
    Node = {n1, n2}
    NoBacking = NoBacking
    IntMax = 100
    History = 2
    MaxFaults = 2
    MaxStops = 1
    Stall = TRUE
    Delay = TRUE
SPECIFICATION Spec
SYMMETRY Symmetry
CHECK_DEADLOCK FALSE
INVARIANTS TypeOK AtMostOneMaster NoCheckFails
