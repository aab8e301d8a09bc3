CONSTANTS
    n1 = n1
    n2 = n2
    h1 = h1
    Node = {n1, n2}
    Hash = {h1}
    MaxSct = 1
    MaxLog = 2
    MaxFaults = 0
    MinServingNodes = 2
    UnorderedCleanup = TRUE
    OverlappingMasters = TRUE
    LaggingWatch = TRUE
    StaleFrontend = TRUE
    ClockSkew = TRUE
SPECIFICATION Spec
SYMMETRY Symmetry
VIEW WithoutHistory
 
PROPERTY UnservedNumbersStay
