SPECIFICATION Spec
CONSTANTS
    Kind = "AfterRecords"
    Threshold = 2
    UsizeMax = 3
    EpochBoundaries = TRUE
    CarryFrontier = TRUE
    Sinks = {s1}
    s1 = s1
    Topology = "linear"
    MaxRecords = 4
INVARIANTS FrontierIsComplete
