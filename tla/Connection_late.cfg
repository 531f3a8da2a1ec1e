SPECIFICATION Spec
CONSTANTS
    r1 = r1
    r2 = r2
    None = None
    Requests = {}
    Payloads = {1, 2}
    Limits = {1}
    MaxMsgs <- Limited
    MayCancel = {}
    MayDrop = {}
    ServerMay = {"ping", "garble"}
    ChanCapacity = 2
    CommandCapacity = 2
    TcpCapacity = 2
    PingInterval = 1
    PongDelay = 1
    KeepAlive = 2
    Period = 1
    MaxRtt = 1
    MaxTime = 4
    MaxPublishes = 0
    MaxSerial = 2
    MaxPings = 2
INVARIANTS
    NoUnsolicitedPong
    IdleMeansNothingDue
\* The task of run() may have ended, and users may have nothing left to do.
CHECK_DEADLOCK FALSE
