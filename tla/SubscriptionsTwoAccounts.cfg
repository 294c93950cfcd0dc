SPECIFICATION Spec
CONSTANTS
    None = None
    A = A
    B = B
    X = X
    paid = paid
    r1 = r1
    r2 = r2
    c1 = c1
    Purchases = {paid}
    Users = {A, B}
    Strangers = {X}
    EventIds = {"bought", "renewed", "moved"}
    Event <- LateRenewalEvents
    Codes <- NoCodes
    BoundTo <- NoCodeFor
    Deadline <- NoTerm
    Term <- NoTerm
    Requests = {r1}
    Prompt = {"bought"}
    AdminOn = {A}
    MaxClock = 2
    MaxFaults = 1
    MaxDuplicates = 0
    MaxAdmin = 0
INVARIANT OnePurchaseOneAccount
CHECK_DEADLOCK FALSE
