SPECIFICATION Spec
CONSTANTS
    Addr <- Addresses
    MAX_WHITELIST = 3
    Lists <- Whitelists
    Today <- Networks
    TodaysTotals <- Counted
    Days <- Files
    CutLists <- Leftovers
    Rubbish <- Garbage
    MBYTES = 2
    UINT = 16
    Args <- Arguments
    Bad = Bad
    MaxReloads = 1
INVARIANTS
    TypeOK
    OverrunHasCause
    ListIsRight
    HiddenAllAlong
    OfTheDayAsked
PROPERTIES
    OnlyFirstHidden
    QueryEnds
CHECK_DEADLOCK FALSE
