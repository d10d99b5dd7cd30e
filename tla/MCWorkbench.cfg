\* Three requests of one conversation; docker and git may fail at every call.
SPECIFICATION Spec
CONSTANTS
    page = page
    photo1 = photo1
    photo2 = photo2
    key = key
    lib = lib
    odd = odd
    log = log
    None = None
    Paths <- MCPaths
    ClassesOf <- MCClassesOf
    UploadNames <- MCUploadNames
    AgentMoves <- MCMoves
    Refusals <- MCRefusals
    Conversations = {1}
    Branches = {1}
    Faults = TRUE
    MaxEdits = 2
    MaxRequests = 3
PROPERTY
    OnlyTheJudgedLeaves
CHECK_DEADLOCK FALSE
