\* Each machine on a small instance, with faults.
SPECIFICATION UpkeepSpec
CONSTANTS
    Team = {ta, tb}
    HomeTeam = ta
    NoTeam = noteam
    Hit = {h1, h2}
    MaxTransfers = 2
    MaxTransferFaults = 1
    Visit = {v1}
    MaxRenames = 2
    MaxRenameFaults = 2
    Batch = {b1, b2}
    NoBatch = nobatch
    Refresher = {f1, f2}
    MaxRollupFaults = 1
    File = {f1, f2, f3}
    NoFile = nofile
    MaxWrites = 2
    Database = {"control", "tenant"}
    MaxSwapFaults = 1
    Callers = {"server", "direct"}
    NoDatabase = nodb
    MaxRows = 2
    MaxUndone = 1
    DirLossKinds = {"volume", "entry"}
    MaxDirLosses = 1
    Client = {c1, c2, c3}
    GateLimit = 2
    MaxDeaths = 2
    Recipient = {r1, r2}
    MaxOccurrences = 1
    ReportAttempts = 2
    MaxReportEdits = 2
    MaxReportFaults = 1
    Provider = {p1, p2}
    MaxPairs = 3
    Node = {1, 2, 3}
    Seed = 1
    MaxStarts = 3
    MaxFalseViews = 1
    Viewer = {w1}
    HistoryLimit = 2
    BufferSize = 2
    MaxEventID = 4
    MaxSevered = 2
    MaxBrokerRestarts = 1
    MaxWritten = 1
    MaxReleases = 2
    MaxTokens = 1
    MaxRestores = 1
INVARIANTS
    UpkeepTypeOK
    CarriedRowsKept
    NothingLost
    RowsSurvive
    OneAuthority
    OneInstance
    GateAccounted
    MailsAccountedFor
    CompletedMeansDelivered
    OneTokenPair
    RefusalIsFinal
    NoSilentGap
    WritesKept
PROPERTIES
    HopsDescend
    LeadersSettle
    RoutingSettles
    RenameRoutesBack
    EveryHitCounted
    DeathIsDealtWith
    EveryReportSettles
CHECK_DEADLOCK FALSE
