\* One hit and one rename, and nothing fails.
SPECIFICATION RenameSpec
CONSTANTS
    Visit = {v1}
    MaxRenames = 1
    MaxRenameFaults = 0
INVARIANTS
    HitsStayHome
CHECK_DEADLOCK FALSE
