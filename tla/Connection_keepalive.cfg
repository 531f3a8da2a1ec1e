SPECIFICATION PromptSpec
CONSTANTS
    r1 = r1
    r2 = r2
    None = None
    Requests = {}
    Payloads = {1, 2}
    Limits = {1}
    MaxMsgs <- Limited
    MayCancel = {}
    MayDrop = {}
    ServerMay = {"ping", "hang"}
    ChanCapacity = 2
    CommandCapacity = 2
    TcpCapacity = 3
    PingInterval = 2
    PongDelay = 1
    KeepAlive = 4
    Period = 1
    MaxRtt = 1
    MaxTime = 9
    MaxPublishes = 0
    MaxSerial = 2
    MaxPings = 3
INVARIANTS
    NoFalseLoss
    HangDetected
    OnePingUnread
\* The task of run() may have ended, and users may have nothing left to do.
CHECK_DEADLOCK FALSE
