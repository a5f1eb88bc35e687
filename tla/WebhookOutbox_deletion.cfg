\* Two requests delete a site with an instance webhook and one of its own.
SPECIFICATION FairSpec
CONSTANTS
    p1 = p1  p2 = p2  c1 = c1  c2 = c2
    Webhook = {instance, own}
    SiteWebhook = {own}
    Event = {}
    Deletion = {d1, d2}
    Emitter = {}
    Ingest = {}
    Batch <- OverlappingBatches
    Sweeper = sweeper
    None = None
    MaxRotations = 0
    MaxFaults = 1
INVARIANTS
    AnnouncedAfterDeletion
    AnnouncementKept
PROPERTIES
    AnnouncementDelivered
CHECK_DEADLOCK FALSE
