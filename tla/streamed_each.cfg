SPECIFICATION RunFairSpec
CONSTANTS
    Kind = "AfterRecordsOrTimeout"
    Threshold = 3
    UsizeMax = 3
    EpochBoundaries = FALSE
    CarryFrontier = FALSE
    Sinks = {s1}
    s1 = s1
    Topology = "linear"
    MaxRecords = 4
    Concurrency = 2
    MaxItems = 4
INVARIANTS ShutdownCommitsAdmitted ErrorsInPlace PolicyCountsPending
PROPERTIES ShutdownReturns TimeoutServedWhileTransforming DeadlineNeverExtended
