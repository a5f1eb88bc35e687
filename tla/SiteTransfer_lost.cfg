\* One hit and one transfer, and nothing fails.
SPECIFICATION TransferSpec
CONSTANTS
    Team = {ta, tb}
    HomeTeam = ta
    NoTeam = noteam
    Hit = {h1}
    MaxTransfers = 1
    MaxTransferFaults = 0
INVARIANTS
    AnalyticsMigrated
CHECK_DEADLOCK FALSE
