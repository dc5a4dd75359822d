SPECIFICATION Spec
CONSTANTS
    HoursPerDay = 3
    MaxDay = 2
    MaxFlows = 2
    MaxStarts = 3
    Fields <- TwoFields
    Skipped <- NoSkip
    Corrupt = Corrupt
    HourlyTraffic = TRUE
    CalmSignals = TRUE
    DiskOK = TRUE
INVARIANTS
    TypeOK
    OneDayPerFile
    OneDayInMemory
PROPERTIES
    NothingDiscarded
    NothingOverwritten
    PastDaysSettled
    KeepsLedger
CHECK_DEADLOCK FALSE
