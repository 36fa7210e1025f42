SPECIFICATION Spec
CONSTANTS
    SyncMonths = {1, 2}
    MaxMissing = 1
    MaxJobs = 2
    MaxFaults = 1
    RepairMonths = {1, 2}
    MaxTasks = 1
    MaxAttempts = 2
    MaxSchedules = 2
    MaxTaskFaults = 2
    Saved = {1, 2}
    Copies = {1, 2}
    Batch = 1
    MaxRebuilds = 2
    MaxMishaps = 2
PROPERTY JobMovesForward
CHECK_DEADLOCK FALSE
