SPECIFICATION Spec
CONSTANTS
    ann = ann
    Ann = Ann
    bob = bob
    typo = typo
    s1 = s1
    s2 = s2
    seed1 = seed1
    seed2 = seed2
    short = short
    None = None
    Spellings = {ann, Ann, bob, typo}
    Plain <- MCPlain
    Asked = {ann, Ann}
    Browsers = {b1}
    UsableSeeds = {seed1, seed2}
    Addresses = {office, home}
    Deployments <- MCDeployments
    LinkTTL = 1
    PendingTTL = 1
    SessionTTL = 2
    EnrollTTL = 1
    Second = 1
    CodeStep = 1
    Drift = 1
    Offsets = {0, 2}
    BodyWait = 1
    Window = 2
    Posts = {p1, p2}
    LimitOf <- MCLimitOf
    MaxClock = 3
    MaxLinks = 2
    MaxReads = 1
    MaxBoots = 2
    MaxWire = 2
CONSTRAINT MCBounds
SYMMETRY MCSymmetry
INVARIANTS
    SessionsAreEarned
    TriesAreBounded
CHECK_DEADLOCK FALSE
