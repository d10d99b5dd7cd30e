\* Three requests, time passing beyond the threshold, every call may fail.
SPECIFICATION FairSpec
CONSTANTS
    Requests = {r1, r2, r3}
    None = None
    MaxAge = 1
    MaxClock = 2
    Faults = TRUE
INVARIANTS
    TypeOK
    OneHolderUntilRobbed
    NobodyRobbedWhileYoung
    AbandonedHadExpired
PROPERTIES
    MutexUntilRobbed
    ExpiredLockGivesWay
CHECK_DEADLOCK FALSE
