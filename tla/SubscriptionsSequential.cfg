SPECIFICATION FairSpec
CONSTANTS
    None = None
    A = A
    B = B
    X = X
    paid = paid
    r1 = r1
    r2 = r2
    c1 = c1
    Purchases = {paid}
    Users = {A, B}
    Strangers = {X}
    EventIds = {"bought", "moved", "cancelled", "renewed", "refunded"}
    Event <- LifeEvents
    Codes <- Codes1
    BoundTo <- ForB
    Deadline <- NoDeadline
    Term <- TermTwo
    Requests = {r1}
    Prompt = {"bought", "moved"}
    AdminOn = {B}
    MaxClock = 3
    MaxFaults = 0
    MaxDuplicates = 1
    MaxAdmin = 2
INVARIANTS NewestEntrySays OnePurchaseOneAccount NoEndlessStoreRow UndoRestoresWhatWas
PROPERTIES AppliedTakesEffect
CHECK_DEADLOCK FALSE
