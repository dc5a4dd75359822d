SPECIFICATION FairSpec
CONSTANTS
    Client = {"c1", "c2"}
    Asks <- TopAndPast
    None = None
    MaxDatagrams = 2
    SocketBuffer = 2
    Backlog = 3
INVARIANTS
    TypeOK
    AnswersAreLatest
PROPERTIES
    DatagramsAreRead
    AcceptedOrBlocked
    ChildrenEnd
CHECK_DEADLOCK FALSE
