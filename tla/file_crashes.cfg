SPECIFICATION FairSpec
CONSTANTS
    a = a
    b = b
    host = host
    peer = peer
    None = None
    l = l
    Savers = {a, b}
    Loaders = {l}
    Processes = {host, peer}
    ProcessOf <- TwoProcesses
    PidOf <- SamePid
    MaxSaves = 2
    MaxCrashes = 1
    MaxPowerCuts = 1
INVARIANTS NothingLeftBehind NeverTorn
PROPERTIES SaveReturns ImplementsCheckpointStore
