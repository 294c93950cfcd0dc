SPECIFICATION Spec
CONSTANTS
    None = None
    ann = ann
    i1 = i1
    i2 = i2
    r1 = r1
    r2 = r2
    Accounts = {ann}
    Instances = {i1, i2}
    Requests = {r1, r2}
    StopAt = 1
    AccountCap = 1
    Window = 1
    CacheLife = 2
    STRIKES_BEFORE_LOCK = 3
    StrikeLock = 2
    MaxDuration = 1
    FirstStrikes = {1}
    Reached = {i1}
    MaxClock = 3
    MaxPosts = 3
    MaxFlips = 1
    MaxFailures = 1
    LastFlip = 0
INVARIANTS TypeOK BreakerIsHeeded StrikesFollowTheRow
SYMMETRY Symmetry
CHECK_DEADLOCK FALSE
