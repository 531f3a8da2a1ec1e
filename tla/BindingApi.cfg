\* Any caller, any order of API calls, a peer that sends anything.
SPECIFICATION Spec
CONSTANTS
    r1 = r1
    r2 = r2
    p1 = p1
    None = None
    Requests = {r1, r2}
    MayLeave = {r1}
    Payloads = {p1}
    Limits = {1}
    Instants = {0, 1}
    ChanCapacity = 1
    PingInterval = 1
    PongDelay = 0
    KeepAlive = 1
    WithHeaders = TRUE
    MaxSid = 2
    MaxTransmits = 5
INVARIANTS
    TypeOK
    ConnectFirst
    RoutingAgreement
    AnswerMeansSubscribed
    NoRequestForgotten
    Delivered
    TimersActWhenPolled
PROPERTIES
    
    ImplementsCommandPipe
\* After a panic the binding is gone and nothing more happens.
CHECK_DEADLOCK FALSE
