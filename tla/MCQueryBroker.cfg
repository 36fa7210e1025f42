SPECIFICATION Safe
CONSTANTS
    v1 = v1
    Callers = {c1, c2}
    Jobs = {j1, j2, j3}
    Reads = {r1, r2}
    Commands = {m1}
    Priorities = {0, 2}
    Vehicles = {v1}
    VehicleOf <- MCOneVehicle
    None = None
    MaxPending = 2
    JobWaiters = 2
    AllWaiters = 2
    WireSlots = 1
    MaxRetry = 0
    MaxBackoff = 2
SYMMETRY Alike
INVARIANT TypeOK
INVARIANT Coalescing
INVARIANT NoStrandedCaller
INVARIANT AdmissionBounds
INVARIANT WireIsWarranted
PROPERTY SharedReadSurvives
CHECK_DEADLOCK FALSE
