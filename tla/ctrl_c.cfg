SPECIFICATION Spec
CONSTANTS
    Client = {"c1", "c2"}
    Asks <- TopAndPast
    None = None
    MaxDatagrams = 2
    SocketBuffer = 2
    Backlog = 3
INVARIANTS
    TodaysFileIsToday
CHECK_DEADLOCK FALSE
