\* Build, arm, enter, exit and destroy, every command may raise.
CONSTANTS
    Pfs = {"run", "dev"}
    Excluded = {"display"}
    Restartable = {"network"}
    Encrypted = TRUE
    RetryCount = 2
    MaxBacking = 1
SPECIFICATION FlowSpec
INVARIANTS ZoneTypeOK EnteredUnmountsDisk ExitUndoesEnter InitReachable RamReleased FlowPutsBack
PROPERTIES EnterEnds FlowEnds
