SPECIFICATION FairSpec
CONSTANTS
    Kind = "AfterRecordsOrTimeout"
    Threshold = 3
    UsizeMax = 3
    EpochBoundaries = FALSE
    CarryFrontier = FALSE
    Sinks = {s1}
    s1 = s1
    Topology = "linear"
    BatchSize = 2
    Prefetch = 2
    MaxRecords = 6
INVARIANTS NothingPastAnError Backpressure CountBoundsBacklog
PROPERTIES ChunksAreDelivered TimeoutCommitsProgress ImplementsPromise
