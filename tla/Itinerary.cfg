SPECIFICATION Spec
CONSTANTS
    None = None
    Places = {0, 100, 130, 300}
    Trips <- FirstTrips
    Batches <- SomeBatches
    MaxTurns = 2
    MaxMishaps = 2
INVARIANTS TypeOK DaysInOrder NeverJumps RouteIsOfItsLeg RebuildSettles DeletesLeaveNoNewGap BehindYouUntouched EndDateIsLastDay
PROPERTIES RebuildKeepsTheRoute
CHECK_DEADLOCK FALSE
