\* A start of the server after the tenant's directory was lost.
SPECIFICATION SplitSpec
CONSTANTS
    Callers = {"server"}
    NoDatabase = nodb
    MaxRows = 2
    MaxUndone = 0
    DirLossKinds = {"volume"}
    MaxDirLosses = 1
INVARIANT
    RestoreLosesNothing
CHECK_DEADLOCK FALSE
