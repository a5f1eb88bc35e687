\* One delivery, two handlers, an emitter and two faults.
SPECIFICATION Spec
CONSTANTS
    d1 = d1  d2 = d2  e1 = e1
    Delivery = {d1}
    Endpoint = {e1}
    EndpointOf <- OneEndpoint
    Worker = {w1, w2}
    Emitter = {p1}
    Sweeper = sweeper
    None = None
    MaxAttempts = 2
    EndpointLimit = 2
    MaxCopies = 2
    MaxFaults = 2
    Timely = TRUE
SYMMETRY WorkerSymmetry
INVARIANTS
    TypeOK
    ClaimExclusive
    AttemptLogFaithful
    SettledForAReason
    RequestsAccountedFor
PROPERTIES
    SettledIsFinal
    BackoffRespected
    KeepsPromise
CHECK_DEADLOCK FALSE
