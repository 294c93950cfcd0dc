SPECIFICATION Spec
CONSTANTS
    None = None
    k1 = k1
    k2 = k2
    k3 = k3
    t = t
    Keys = {k1, k2}
    Trips = {t}
    TripOf <- OneTrip
    Requests = {"r1", "r2"}
    MaxDrain = 1
    Mishaps = {}
    MaxMishaps = 0
INVARIANT OneLoopPerTrip
CHECK_DEADLOCK FALSE
