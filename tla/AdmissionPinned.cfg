SPECIFICATION Spec
CONSTANTS
    None = None
    ann = ann
    i1 = i1
    i2 = i2
    r1 = r1
    r2 = r2
    Accounts = {ann}
    Instances = {i1, i2}
    Requests = {r1, r2}
    StopAt = 1
    AccountCap = 1
    Window = 1
    CacheLife = 2
    STRIKES_BEFORE_LOCK = 3
    StrikeLock = 3
    MaxDuration = 2
    FirstStrikes = {0}
    Reached = {i1}
    MaxClock = 4
    MaxPosts = 2
    MaxFlips = 0
    MaxFailures = 1
    LastFlip = 0
INVARIANTS FailedReadPinsNothing
CHECK_DEADLOCK FALSE
