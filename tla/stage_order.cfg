SPECIFICATION StageSpec
CONSTANTS
    Concurrency = 3
    MaxItems = 5
INVARIANTS HeldBack CutoffIsImmediate
PROPERTIES ImplementsRecordStream
