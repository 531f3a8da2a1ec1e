SPECIFICATION ExamplesSpec
CONSTANTS
    Me = Me
    None = None
    Requests = {Me}
    Payloads = {1, 2}
    Limits = {1, 2}
    MaxMsgs <- Limit
    MayCancel = {}
    MayDrop = {Me}
    ServerMay = {"message", "close", "misgreet", "hang"}
    ChanCapacity = 2
    CommandCapacity = 2
    TcpCapacity = 3
    PingInterval = 1
    PongDelay = 0
    KeepAlive = 2
    Period = 1
    MaxRtt = 0
    MaxTime = 4
    MaxPublishes = 2
    MaxSerial = 2
    MaxPings = 0
INVARIANTS
    MainPanicsOnlyWhenOver
    NothingLeftUnsent
PROPERTIES
    EndsOnlyAtLimit
    SubscriberEnds
\* The programs return.
CHECK_DEADLOCK FALSE
