SPECIFICATION Spec
CONSTANTS
    Entries = {1, 2}
    Account <- MCAccount
    MaxPending = 2
    MaxLives = 1
    MaxBackups = 1
    Stores = {1, 2}
    Trips = {1, 2}
    Periods = {1, 2}
    Lists <- MCLists
    WalkFrom = 1
    Ledger <- MCLedger
    Times <- MCTimes
    Quality <- MCQuality
    Facts = {1, 2, 3}
    OldFiles <- MCOldFiles
    New = {1}
    Late = {3}
    MaxStarts = 2
    MaxCrashes = 1
    MaxOutside = 1
    Exports = {1, 2, 3}
    MaxExports = 2
    Packed = {1, 2}
    MaxTries = 3
INVARIANT CrashIsHarmless
CHECK_DEADLOCK FALSE
