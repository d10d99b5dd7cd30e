SPECIFICATION Spec
CONSTANTS
    home = home
    away = away
    Requests = {r1, r2}
    Conversations = {home, away}
    Of <- MCApart
    None = None
    Site = Site
    Faults = FALSE
    Crashes = TRUE
    Overrun = FALSE
INVARIANTS
    EndingsAreFiledAtHome
CHECK_DEADLOCK FALSE
