SPECIFICATION PromptSpec
CONSTANTS
    r1 = r1
    r2 = r2
    None = None
    Requests = {}
    Payloads = {1, 2}
    Limits = {1}
    MaxMsgs <- Unlimited
    MayCancel = {}
    MayDrop = {}
    ServerMay = {"hang"}
    ChanCapacity = 2
    CommandCapacity = 2
    TcpCapacity = 9
    PingInterval = 1
    PongDelay = 0
    KeepAlive = 2
    Period = 1
    MaxRtt = 0
    MaxTime = 6
    MaxPublishes = 0
    MaxSerial = 2
    MaxPings = 0
INVARIANT SilenceDetected
CHECK_DEADLOCK FALSE
