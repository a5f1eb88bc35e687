\* A hit without an id, as the HTTP handlers send it.
SPECIFICATION Spec
CONSTANTS
    m1 = m1  m2 = m2  s1 = s1  s2 = s2
    Message = {m1}
    Identified = {}
    Store = {s1}
    StoreOf <- OneStore
    Handler = {h1}
    None = None
    BatchSize = 2
    MaxAttempts = 2
    MaxFaults = 1
INVARIANTS
    RequeueIsSafe
CHECK_DEADLOCK FALSE
