\* An event emitted while the secret of its webhook is rotated.
SPECIFICATION Spec
CONSTANTS
    p1 = p1  p2 = p2  c1 = c1  c2 = c2
    Webhook = {own}
    SiteWebhook = {own}
    Event = {c1}
    Deletion = {}
    Emitter = {p1}
    Ingest = {p1}
    Batch <- SingleEvents
    Sweeper = sweeper
    None = None
    MaxRotations = 1
    MaxFaults = 1
INVARIANTS
    PendingUseNewSecret
CHECK_DEADLOCK FALSE
