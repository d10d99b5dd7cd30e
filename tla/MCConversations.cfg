\* Every call to the repository host and to the mail server may fail; the bench
\* runs without a fault.
SPECIFICATION Spec
CONSTANTS
    r1 = r1
    r2 = r2
    index = index
    photo1 = photo1
    photo2 = photo2
    key = key
    None = None
    Requests = {r1, r2}
    Paths <- MCPaths
    ClassesOf <- MCClassesOf
    UploadNames <- MCUploadNames
    AgentMoves <- MCMoves
    Refusals <- MCRefusals
    Conversations = {1, 2, 3}
    Branches = {1, 2, 3, 4}
    Faults = FALSE
    HostFaults = TRUE
    MaxEdits = 1
    Forms <- MCForms
    PolicyFiles <- MCPolicyFiles
    PageSize = 3
    MaxClaims = 2
SYMMETRY MCSymmetry
INVARIANTS
    TypeOK
    StashLivesAsLongAsItsRequest
    EveryTurnIsAnswered
    AgentIsToldTheRefusals
    ConversationsAreApart
PROPERTY
    PolicyIsOfItsDay
CHECK_DEADLOCK FALSE
