SPECIFICATION Spec
CONSTANTS
    a = a
    b = b
    host = host
    peer = peer
    None = None
    l = l
    Savers = {a}
    Loaders = {l}
    Processes = {host}
    ProcessOf <- OneProcess
    PidOf <- SamePid
    MaxSaves = 2
    MaxCrashes = 0
    MaxPowerCuts = 1
INVARIANTS AcknowledgedIsDurable
