SPECIFICATION SystemFairSpec
CONSTANTS
    Kind = "AfterRecords"
    Threshold = 3
    UsizeMax = 9
    EpochBoundaries = TRUE
    CarryFrontier = FALSE
    Sinks = {s1}
    s1 = s1
    Topology = "linear"
    MaxRecords = 6
    p = p
    q = q
    Partitions = {p, q}
    LogEnd <- LastOffset
    OffsetMax = 2
    MaxRebalances = 1
    MaxRestarts = 1
INVARIANTS NothingSkipped BacklogBounded CleanStopResumesNext
PROPERTIES CommitCoversEpoch ExhaustedCommitsNothing EveryMessageDelivered
