SPECIFICATION Spec
CONSTANTS
    None = None
    r1 = r1
    r2 = r2
    Days = 3
    Routes <- TripRoutes
    NewRoutes <- Reroutings
    FirstRoutes <- Trips
    Ranges = {0, 4}
    Declarable = {1}
    Requests = {r1, r2}
    MaxStopsPerLeg = 8
    Upsets = {"threw", "killed", "force", "expire", "reroute", "assign", "vehicle", "declare", "dismiss", "select", "add", "unread"}
    MaxUpsets = 1
    MaxOpens = 2
SYMMETRY Symmetry
INVARIANTS TypeOK OpeningOrderDoesNotMatter NeverPastRange WarnedOnlyIfImpossible FewestStopsThatReachTomorrow NeverOverUnplannedDays OneSearchPerLeg ComputingIsHeld
PROPERTIES PicksAreKept
CHECK_DEADLOCK FALSE
