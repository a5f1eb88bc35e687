\* One delivery and two handlers, with a fault anywhere: it settles.
SPECIFICATION FairSpec
CONSTANTS
    d1 = d1  d2 = d2  e1 = e1
    Delivery = {d1}
    Endpoint = {e1}
    EndpointOf <- OneEndpoint
    Worker = {w1, w2}
    Emitter = {p1}
    Sweeper = sweeper
    None = None
    MaxAttempts = 2
    EndpointLimit = 1
    MaxCopies = 2
    MaxFaults = 1
    Timely = TRUE
PROPERTIES
    EveryDeliverySettles
CHECK_DEADLOCK FALSE
