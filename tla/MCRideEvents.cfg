SPECIFICATION Spec
CONSTANTS
    r1 = r1
    r2 = r2
    Rides = {r1, r2}
    End <- EndOf
    Quiet = 1
    LateWindow = 2
    RebaselineGap = 2
    SeenLimit = 1
    MaxTime = 3
    MaxSteps = 1
INVARIANT EventsAreOnce
INVARIANT NewestIsProcessed
