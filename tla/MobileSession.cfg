SPECIFICATION Spec
CONSTANTS
    ann = ann
    ben = ben
    Accounts = {ann, ben}
    None = None
    MAX_CACHE_ENTRIES = 2
    MaxSessions = 2
    MaxGenerations = 3
    MaxVersion = 1
    MaxRequests = 3
    MaxUnderWay = 2
    MaxFaults = 1
INVARIANTS TypeOK SignedInSeesItsOwn OneRequestPerKey  BuyerIsBilled
PROPERTIES AnswersInOrder
SYMMETRY Symmetry
CHECK_DEADLOCK FALSE
