SPECIFICATION SumSpec
CONSTANTS
    Callers = {c1, c2}
    Jobs = {j1, j2, j3}
    Reads = {"r1", "r2"}
    Commands = {}
    Priorities = {0, 2}
    Vehicles = {"v1", "v2"}
    VehicleOf <- MCVehicleOf
    None = None
    MaxPending = 3
    JobWaiters = 2
    AllWaiters = 2
    WireSlots = 1
    MaxRetry = 0
    MaxBackoff = 2
    Versions = {s1, s2, s3}
    Nothing = Nothing
    Torn = Torn
    OtherSetups = FALSE
    MaxCrashes = 1
    MaxFaults = 1
    Calls = {c1, c2}
    Actions = {"buck", "bell"}
    NoOne = NoOne
    Others = {o1}
    Polls = {}
    MaxCalls = 1
    Slots = 1
    MaxRevision = 2
    MaxGeneration = 2
    MaxSerial = 2
    Rides = {1, 2}
    Hashes = {1, 2}
    MaxDisturbances = 1
    Fleet = {1, 2}
    Works <- MCWorks
    MaxWait = 2
    MaxFamilyWait = 0
INVARIANTS
    DetailsAreTrue
    
    NoTickIsWasted
    
PROPERTIES
    
    PartsEnd
CHECK_DEADLOCK FALSE
