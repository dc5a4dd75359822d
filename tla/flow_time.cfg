SPECIFICATION Spec
CONSTANTS
    Milli = 3
    Nano = 2
    Word = 97
    HourSecs = 2
    HoursPerDay = 2
    DaysPerMonth = 5
    WideTime = FALSE
    Epoch = 13
    Reboots <- Restarts
    MaxTime = 125
    MaxAge = 13
    MaxDelay = 3
INVARIANTS
    TypeOK
    StartFound
    CountedWhereItBegan
    MissedForAReason
CHECK_DEADLOCK FALSE
