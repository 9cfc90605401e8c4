SPECIFICATION Spec
CONSTANTS
    a = a
    b = b
    c = c
    None = None
    Clients = {a, b, c}
    Ids <- TwoIds
    IdOf <- Assigned
    KeyOf <- Exact
    Dialect = "postgres"
    MaxSaves = 2
INVARIANTS InitializedIsUsable OwnCheckpointsOnly
PROPERTIES ImplementsCheckpointStores
