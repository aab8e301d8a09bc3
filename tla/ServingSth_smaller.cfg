CONSTANTS
    n1 = n1
    n2 = n2
    Node = {n1, n2}
    MaxSize = 1
    MaxTime = 2
    MaxFaults = 2
    MinServingNodes = 1
    FractionNum = 1
    FractionDen = 2
    Handover = TRUE
    LateConfig = FALSE
SPECIFICATION Spec
SYMMETRY Symmetry
CHECK_DEADLOCK FALSE
VIEW Relevant
INVARIANT NoCheckFails
