\* A hit with an id and one without, for two tenants, and two faults.
SPECIFICATION FairSpec
CONSTANTS
    m1 = m1  m2 = m2  s1 = s1  s2 = s2
    Message = {m1, m2}
    Identified = {m1}
    Store = {s1, s2}
    StoreOf <- TwoStores
    Handler = {h1, h2}
    None = None
    BatchSize = 2
    MaxAttempts = 3
    MaxFaults = 2
INVARIANTS
    TypeOK
    RowsCountedOnce
    FinishedIsStored
PROPERTIES
    MessageSettles
CHECK_DEADLOCK FALSE
