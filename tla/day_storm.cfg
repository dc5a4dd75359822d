SPECIFICATION Spec
CONSTANTS
    HoursPerDay = 2
    MaxDay = 2
    MaxFlows = 1
    MaxStarts = 2
    Fields <- AllFields
    Skipped <- NoSkip
    Corrupt = Corrupt
    HourlyTraffic = FALSE
    CalmSignals = FALSE
    DiskOK = FALSE
INVARIANTS
    NoFutureFlows
    ImbalanceIsTorn
CHECK_DEADLOCK FALSE
