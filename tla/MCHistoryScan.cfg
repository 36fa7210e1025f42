SPECIFICATION Spec
CONSTANTS
    Newest = 2
    Recent <- ThisMonth
    Settled <- OldMonth
    Runs = {r1, r2}
    Workers = {tick, call}
    Base = Base
    None = None
    Rides <- ThreeRides
    Capacity <- FewOldRides
    MaxPages = 2
    MaxActive = 1
    MaxEvents = 2
SYMMETRY Alike
INVARIANT ArchiveOpens
 
INVARIANT RunsAreKept
PROPERTY CheckpointsStand
CHECK_DEADLOCK FALSE
