SPECIFICATION Spec
CONSTANTS
    Kind = "Custom"
    Threshold = 1
    UsizeMax = 1
    EpochBoundaries = TRUE
    CarryFrontier = TRUE
    Sinks = {s1, s2}
    s1 = s1
    s2 = s2
    Topology = "fanout"
    MaxRecords = 5
INVARIANTS CommittedIsDurable CommitsInSourceOrder CleanStopCommitsAll ReturnsDrained
PROPERTIES ImplementsPromise
