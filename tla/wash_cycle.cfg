SPECIFICATION Spec
CONSTANTS
    MonthMinutes = 4
    Jitter = 2
    MaxCycle = 2
    MaxNow = 4
    MaxCycles = 2
    MaxRevisions = 2
    MaxFaults = 1
    MaxInFlight = 2
INVARIANTS TypeOK EndTimeIsCurrent CountdownIsCurrent
PROPERTIES CountdownEnds
