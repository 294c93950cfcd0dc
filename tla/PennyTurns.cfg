SPECIFICATION FairSpec
CONSTANTS
    None = None
    k1 = k1
    k2 = k2
    k3 = k3
    t = t
    Keys = {k1, k2, k3}
    Trips = {t}
    TripOf <- OneTrip
    Requests = {"r1", "r2"}
    MaxDrain = 1
    Mishaps = {"failed", "crashed", "killed"}
    MaxMishaps = 1
INVARIANTS TypeOK OneTurnPerTrip DoneMeansApplied
PROPERTIES AppliedAtMostOnce NoForgottenTurn
CHECK_DEADLOCK FALSE
