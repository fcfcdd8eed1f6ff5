SPECIFICATION Spec
CONSTANTS
    SmallInput = 8
    LogConfig <- MCLogConfig
    DiffConfig <- MCDiffConfig
    TextConfig <- MCTextConfig
    Windows <- MCWindows
    CrusherConfig <- MCCrusherConfig
    Outputs <- MCOutputs
INVARIANTS
    FirstFailureIsKept
    SignalsAreKeptFirst
    DroppedRowsAreStored
    ShownHunksKeepTheirChanges
    DroppedTextIsCovered
CHECK_DEADLOCK FALSE
