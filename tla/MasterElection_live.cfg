CONSTANTS
    n1 = n1
    n2 = n2
    Node = {n1, n2}
    NoBacking = NoBacking
    IntMax = 100
    History = 2
    MaxFaults = 1
    MaxStops = 1
    Stall = TRUE
    Delay = FALSE
SPECIFICATION FairSpec
CHECK_DEADLOCK FALSE
PROPERTY MasterEmerges
