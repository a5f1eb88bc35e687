\* Two ingest batches with a common event, one webhook of the site, one deletion.
SPECIFICATION Spec
CONSTANTS
    p1 = p1  p2 = p2  c1 = c1  c2 = c2
    Webhook = {own}
    SiteWebhook = {own}
    Event = {c1, c2}
    Deletion = {d1}
    Emitter = {p1, p2}
    Ingest = {p1, p2}
    Batch <- OverlappingBatches
    Sweeper = sweeper
    None = None
    MaxRotations = 1
    MaxFaults = 1
INVARIANTS
    TypeOK
    OneDeliveryPerEvent
    AcknowledgedIsStored
    RotationReachesStored
CHECK_DEADLOCK FALSE
