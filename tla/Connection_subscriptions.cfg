SPECIFICATION Spec
CONSTANTS
    r1 = r1
    r2 = r2
    None = None
    Requests = {r1, r2}
    Payloads = {1, 2}
    Limits = {1}
    MaxMsgs <- Limited
    MayCancel = {r2}
    MayDrop = {r1, r2}
    ServerMay = {"message", "close", "ping", "misgreet"}
    ChanCapacity = 1
    CommandCapacity = 2
    TcpCapacity = 2
    PingInterval = 1
    PongDelay = 0
    KeepAlive = 2
    Period = 1
    MaxRtt = 0
    MaxTime = 0
    MaxPublishes = 1
    MaxSerial = 2
    MaxPings = 0
INVARIANTS
    TypeOK
    NoMessageLost
    ServedMeansRouted
    
    
PROPERTIES
    
    CrashOnlyWhenOverOrFull
\* The task of run() may have ended, and users may have nothing left to do.
CHECK_DEADLOCK FALSE
