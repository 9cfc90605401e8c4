SPECIFICATION Spec
CONSTANTS
    a = a
    b = b
    c = c
    None = None
    Clients = {a, c}
    Ids <- TwoIds
    IdOf <- Assigned
    KeyOf <- IgnoringCase
    Dialect = "mysql"
    MaxSaves = 2
INVARIANTS OwnCheckpointsOnly
