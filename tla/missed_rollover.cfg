SPECIFICATION Spec
CONSTANTS
    HoursPerDay = 3
    MaxDay = 2
    MaxFlows = 2
    MaxStarts = 1
    Fields <- TwoFields
    Skipped <- NoSkip
    Corrupt = Corrupt
    HourlyTraffic = FALSE
    CalmSignals = TRUE
    DiskOK = TRUE
INVARIANTS
    OneDayInMemory
CHECK_DEADLOCK FALSE
