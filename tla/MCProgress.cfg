\* A change and its publish, by anyone; a reader who opens the page at any moment and may
\* lose the connection once; calls fail, the process restarts.
SPECIFICATION FairSpec
CONSTANTS
    c1 = c1
    p = p
    Requests = {c1, p}
    KindOf <- MCKinds
    None = None
    MaxHistory = 2
    PageSize = 2
    MaxDrops = 1
    Faults = TRUE
INVARIANTS
    TypeOK
    PageAgreesWithBus
    FollowedTrailIsWhole
    ToldOnlyWhenRecorded
    OfferIsCurrent
PROPERTIES
    InFlightClears
CHECK_DEADLOCK FALSE
