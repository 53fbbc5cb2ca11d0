SPECIFICATION Spec
CONSTANTS
    MonthMinutes = 4
    Jitter = 2
    MaxCycle = 3
    MaxNow = 5
    MaxCycles = 2
    MaxRevisions = 0
    MaxFaults = 0
    MaxInFlight = 2
INVARIANTS NoFalseZero
CHECK_DEADLOCK FALSE
