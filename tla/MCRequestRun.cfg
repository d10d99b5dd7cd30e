\* Two requests of one conversation; every call may fail and the process may
\* restart.
SPECIFICATION FairSpec
CONSTANTS
    home = home
    away = away
    Requests = {r1, r2}
    Conversations = {home}
    Of <- MCShared
    None = None
    Site = Site
    Faults = TRUE
    Crashes = TRUE
    Overrun = FALSE
INVARIANTS
    TypeOK
    
    SuccessIsPublished
    SlotWithinLock
    LiveRequestIsAnnounced
PROPERTIES
    StageAdvancesLegally
    PublishedWasJudged
    
    EveryRequestLetsGo
CHECK_DEADLOCK FALSE
