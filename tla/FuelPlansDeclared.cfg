SPECIFICATION Spec
CONSTANTS
    None = None
    r1 = r1
    r2 = r2
    Days = 3
    Routes <- TripRoutes
    NewRoutes <- Reroutings
    FirstRoutes <- Trips
    Ranges = {4}
    Declarable = {4}
    Requests = {r1}
    MaxStopsPerLeg = 8
    Upsets = {"declare"}
    MaxUpsets = 1
    MaxOpens = 1
INVARIANTS NothingUnplannedBehind
CHECK_DEADLOCK FALSE
