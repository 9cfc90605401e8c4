SPECIFICATION FairSpec
CONSTANTS
    Kind = "AfterRecordsOrTimeout"
    Threshold = 3
    UsizeMax = 3
    EpochBoundaries = TRUE
    CarryFrontier = FALSE
    Sinks = {s1, s2}
    s1 = s1
    s2 = s2
    Topology = "fanout"
    CollectSize = 2
    MaxRecords = 4
INVARIANTS CommittedIsDurable WholeCollectionsFinish
PROPERTIES PassedDeadlineIncludesUnit CollectionsFinish ImplementsPromise
