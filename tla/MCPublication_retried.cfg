\* Expected to fail: a change goes live whose rebuilt preview had failed.
SPECIFICATION Spec
CONSTANTS
    a = a
    r1 = r1
    r2 = r2
    p1 = p1
    p2 = p2
    d1 = d1
    Conversations <- MCConversations
    Requests <- MCRequests
    Of <- MCOf
    Publications <- MCPublications
    Developers <- MCDevelopers
    PageSize = 2
    None = None
SYMMETRY Symmetry
INVARIANTS
    OnlyTheRebuiltGoesLive
CHECK_DEADLOCK FALSE
