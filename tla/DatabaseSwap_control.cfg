\* The control database, and a process that may be killed.
SPECIFICATION SwapSpec
CONSTANTS
    File = {f1, f2, f3}
    NoFile = nofile
    MaxWrites = 2
    Database = {"control"}
    MaxSwapFaults = 0
INVARIANTS
    NoEmptyDatabase
CHECK_DEADLOCK FALSE
