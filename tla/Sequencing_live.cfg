CONSTANTS
    n1 = n1
    n2 = n2
    h1 = h1
    Node = {n1, n2}
    Hash = {h1}
    MaxSct = 1
    MaxLog = 1
    MaxFaults = 1
    MinServingNodes = 2
    UnorderedCleanup = FALSE
    OverlappingMasters = FALSE
    LaggingWatch = FALSE
    StaleFrontend = FALSE
    ClockSkew = FALSE
SPECIFICATION FairSpec
PROPERTIES AcceptedIsServed EtcdDrains
