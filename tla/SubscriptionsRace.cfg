SPECIFICATION Spec
CONSTANTS
    None = None
    A = A
    B = B
    X = X
    paid = paid
    r1 = r1
    r2 = r2
    c1 = c1
    Purchases = {paid}
    Users = {A, B}
    Strangers = {X}
    EventIds = {"renewed", "refunded"}
    Event <- RacingEvents
    Codes <- NoCodes
    BoundTo <- NoCodeFor
    Deadline <- NoTerm
    Term <- NoTerm
    Requests = {r1, r2}
    Prompt = {}
    AdminOn = {A}
    MaxClock = 1
    MaxFaults = 0
    MaxDuplicates = 0
    MaxAdmin = 0
INVARIANT NewestEntrySays
CHECK_DEADLOCK FALSE
