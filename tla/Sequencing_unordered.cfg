CONSTANTS
    n1 = n1
    h1 = h1
    h2 = h2
    h3 = h3
    Node = {n1}
    Hash = {h1, h2, h3}
    MaxSct = 3
    MaxLog = 3
    MaxFaults = 0
    MinServingNodes = 1
    UnorderedCleanup = TRUE
    OverlappingMasters = FALSE
    LaggingWatch = FALSE
    StaleFrontend = FALSE
    ClockSkew = FALSE
SPECIFICATION Spec
SYMMETRY Symmetry
INVARIANT NumbersAreStable
