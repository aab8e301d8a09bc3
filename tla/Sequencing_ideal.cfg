CONSTANTS
    n1 = n1
    n2 = n2
    h1 = h1
    h2 = h2
    Node = {n1, n2}
    Hash = {h1, h2}
    MaxSct = 2
    MaxLog = 2
    MaxFaults = 1
    MinServingNodes = 1
    UnorderedCleanup = FALSE
    OverlappingMasters = FALSE
    LaggingWatch = FALSE
    StaleFrontend = FALSE
    ClockSkew = FALSE
SPECIFICATION Spec
SYMMETRY Symmetry
INVARIANTS TypeOK NumbersAreStable DatabasesAgree PromiseKept NoCheckFails
PROPERTY SequencedStays
PROPERTY ImplementsPublicLog
