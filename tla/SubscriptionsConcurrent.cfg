SPECIFICATION Spec
CONSTANTS
    None = None
    A = A
    B = B
    X = X
    paid = paid
    r1 = r1
    r2 = r2
    c1 = c1
    Purchases = {paid}
    Users = {A, B}
    Strangers = {X}
    EventIds = {"bought", "refunded", "moved"}
    Event <- ConcurrentEvents
    Codes <- Codes1
    BoundTo <- ForA
    Deadline <- NoDeadline
    Term <- TermTwo
    Requests = {r1, r2}
    Prompt = {}
    AdminOn = {A}
    MaxClock = 1
    MaxFaults = 1
    MaxDuplicates = 1
    MaxAdmin = 1
INVARIANTS TypeOK EntitlementHasTrace
PROPERTIES EffectAtMostOnce
SYMMETRY TwoRequests
CHECK_DEADLOCK FALSE
