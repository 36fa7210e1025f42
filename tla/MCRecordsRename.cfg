SPECIFICATION Spec
CONSTANTS
    Versions = {s1, s2, s3}
    Nothing = Nothing
    Torn = Torn
    OtherSetups = TRUE
    MaxCrashes = 2
    MaxFaults = 1
    Calls = {c1, c2}
    Actions = {"engine/start"}
    NoOne = NoOne
    Others = {}
    Polls = {p1}
    MaxCalls = 2
    Slots = 1
    MaxRevision = 2
    MaxGeneration = 2
    MaxSerial = 2
    Objects = {1, 2, 3, 4}
    Vehicle <- MCVehicle
    Kind <- MCKind
    Conflicting = {3}
    Held = {3}
    BackgroundBatch = 1
    OwnerBatch = 2
    MaxWrites = 2
    MaxDecays = 1
    Rows = {1, 2}
    Original <- MCOriginal
    Canonical <- MCCanonical
    OwnNames = {"b", "d"}
    MaxStops = 0
    MaxFailures = 0
    MaxTouches = 1
SYMMETRY Alike
PROPERTY OwnersNameStands
CHECK_DEADLOCK FALSE
