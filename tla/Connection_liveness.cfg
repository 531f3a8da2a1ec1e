SPECIFICATION FairSpec
CONSTANTS
    r1 = r1
    r2 = r2
    None = None
    Requests = {r1}
    Payloads = {1, 2}
    Limits = {1}
    MaxMsgs <- Limited
    MayCancel = {}
    MayDrop = {}
    ServerMay = {"ping", "close", "garble", "headers"}
    ChanCapacity = 2
    CommandCapacity = 1
    TcpCapacity = 1
    PingInterval = 1
    PongDelay = 0
    KeepAlive = 2
    Period = 1
    MaxRtt = 0
    MaxTime = 0
    MaxPublishes = 1
    MaxSerial = 1
    MaxPings = 1
PROPERTIES
    CallsReturn
    
    PublishesArrive
\* The task of run() may have ended, and users may have nothing left to do.
CHECK_DEADLOCK FALSE
