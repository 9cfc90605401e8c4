SPECIFICATION Spec
CONSTANTS
    Kind = "AfterRecords"
    Threshold = 3
    UsizeMax = 3
    EpochBoundaries = TRUE
    CarryFrontier = FALSE
    Sinks = {s1, s2}
    s1 = s1
    s2 = s2
    Topology = "fanout"
    BatchSize = 2
    Prefetch = 0
    MaxRecords = 5
SYMMETRY SinkSymmetry
INVARIANTS CommittedIsDurable CommitsInSourceOrder
