---------------------------- MODULE NatsBinding ----------------------------
(***************************************************************************)
(* The sans-IO NATS client state machine of nats_sans_io: ConnState and    *)
(* its two Step implementations (state.rs) behind the API of NatsBinding   *)
(* (lib.rs).  Handlers change the binding's own state and the channels it  *)
(* shares with callers.  The modules that compose this one say who calls   *)
(* the handlers, and when: BindingApi anyone at any time, Connection the   *)
(* event loop of nats_client.                                              *)
(*                                                                         *)
(* A request is one call of UserHandle::subscribe.  It names the subject   *)
(* and queue group asked for, the oneshot channel its answer comes back    *)
(* on, and the message channel of the answer.                              *)
(***************************************************************************)
EXTENDS Naturals, Sequences

CONSTANTS
    Requests,       \* calls of subscribe
    Payloads,       \* message bodies
    Limits,         \* values of max_msgs
    None,           \* Option::None
    ChanCapacity,   \* capacity of a subscriber's channel (1024 in the code)
    PingInterval, PongDelay, KeepAlive   \* Timeouts

ASSUME LimitsAssumption   == Limits \subseteq Nat \ {0}
ASSUME NoneAssumption     == None \notin Nat /\ None \notin Requests
ASSUME CapacityAssumption == ChanCapacity \in Nat \ {0}
ASSUME TimeoutsAssumption == PingInterval \in Nat /\ PongDelay \in Nat /\ KeepAlive \in Nat

VARIABLES
    conn_state,          \* variant of ConnState, or "Panicked": a step unwound
    preliminary,         \* AwaitingInfo: the backlog of commands
    buffered_transmits,  \* InfoReceived: commands for the server
    keep_alive,          \* InfoReceived: the three timestamps
    sid_generator,       \* InfoReceived: the next sid
    sid2subscriber,      \* InfoReceived: sid -> request whose channel it feeds
    answer,              \* request -> sid sent on its oneshot, or None
    msg_chan,            \* request -> messages in its channel
    caller               \* request -> "idle", "live" or "gone" (receivers dropped)

inner   == <<buffered_transmits, keep_alive, sid_generator, sid2subscriber>>
binding == <<conn_state, preliminary, inner, answer, msg_chan>>

-----------------------------------------------------------------------------
(* Commands.                                                               *)

Connect         == [type |-> "CONNECT"]
Ping            == [type |-> "PING"]
Pong            == [type |-> "PONG"]
Pub(p)          == [type |-> "PUB", payload |-> p]
Sub(r, sid)     == [type |-> "SUB", request |-> r, sid |-> sid]
Unsub(sid, max) == [type |-> "UNSUB", sid |-> sid, max_msgs |-> max]

\* ClientCommand, as far as this client ever builds one.
ClientCommand ==
    {Connect, Ping, Pong} \cup [type : {"PUB"}, payload : Payloads]
    \cup [type : {"SUB"}, request : Requests, sid : Nat]
    \cup [type : {"UNSUB"}, sid : Nat, max_msgs : Limits \cup {None}]

Subscribe(r, max) == [type |-> "Subscribe", request |-> r, max_msgs |-> max]
Unsubscribe(sid)  == [type |-> "Unsubscribe", sid |-> sid, max_msgs |-> None]
Publish(p)        == [type |-> "Publish", payload |-> p]

\* ConnectionCommand.  The only Unsubscribe built in the repository is the one
\* of Subscriber's Drop, and it has max_msgs None.
ConnectionCommand ==
    [type : {"Subscribe"}, request : Requests, max_msgs : Limits \cup {None}]
    \cup [type : {"Unsubscribe"}, sid : Nat, max_msgs : {None}]
    \cup [type : {"Publish"}, payload : Payloads]

\* ServerCommand.
Info     == [type |-> "INFO"]
SPing    == [type |-> "PING"]
SPong    == [type |-> "PONG"]
OkOrErr  == [type |-> "OK"]
Message  == [type : {"MSG"}, sid : Nat, payload : Payloads]
HMessage == [type : {"HMSG"}, sid : Nat, payload : Payloads]

-----------------------------------------------------------------------------
Terminal   == {"NotInfoReceived", "ConnectionLost", "Panicked"}
NeverHeard == [last_ping_sent_at |-> None, last_ping_received_at |-> None,
               last_pong_received_at |-> None]
NoSubscribers == [sid \in {} |-> None]

BindingInit ==
    /\ conn_state = "AwaitingInfo"
    /\ preliminary = <<>>
    /\ buffered_transmits = <<>>
    /\ keep_alive = NeverHeard
    /\ sid_generator = 1
    /\ sid2subscriber = NoSubscribers
    /\ answer = [r \in Requests |-> None]
    /\ msg_chan = [r \in Requests |-> <<>>]
    /\ caller = [r \in Requests |-> "idle"]

BindingTypeOK ==
    /\ conn_state \in {"AwaitingInfo", "InfoReceived"} \cup Terminal
    /\ preliminary \in Seq(ConnectionCommand)
    /\ buffered_transmits \in Seq(ClientCommand)
    /\ keep_alive \in [{"last_ping_sent_at", "last_ping_received_at", "last_pong_received_at"}
                          -> Nat \cup {None}]
    /\ sid_generator \in Nat \ {0}
    /\ DOMAIN sid2subscriber \subseteq Nat
    /\ sid2subscriber \in [DOMAIN sid2subscriber -> Requests]
    /\ answer \in [Requests -> Nat \cup {None}]
    /\ msg_chan \in [Requests -> Seq(Message)]
    /\ caller \in [Requests -> {"idle", "live", "gone"}]

\* Faulty: the senders outlive the connection.
LeaveKeepsTable(state) ==
    /\ conn_state' = state
    /\ preliminary' = <<>>
    /\ buffered_transmits' = <<>>
    /\ keep_alive' = NeverHeard
    /\ sid_generator' = 1
    /\ UNCHANGED sid2subscriber

\* Leaving a variant drops its fields: queued commands with the oneshot senders
\* in them, and the senders of the subscribers' channels.
Leave(state) ==
    /\ conn_state' = state
    /\ preliminary' = <<>>
    /\ buffered_transmits' = <<>>
    /\ keep_alive' = NeverHeard
    /\ sid_generator' = 1
    /\ sid2subscriber' = NoSubscribers

-----------------------------------------------------------------------------
(* Step<ConnectionCommand>, as a function on what it reads and writes, so  *)
(* that the replay of the backlog folds the same definition.               *)

InfoReceived(transmits, sid, subscribers) ==
    [buffered_transmits |-> transmits, sid_generator |-> sid,
     sid2subscriber |-> subscribers, answer |-> answer, panicked |-> FALSE]

\* What a command puts on the wire when the next sid is sid.
Transmits(cmd, sid) ==
    CASE cmd.type = "Publish"     -> <<Pub(cmd.payload)>>
      [] cmd.type = "Unsubscribe" -> <<Unsub(cmd.sid, cmd.max_msgs)>>
      [] cmd.type = "Subscribe"   ->
            <<Sub(cmd.request, sid)>> \o
            (IF cmd.max_msgs = None THEN <<>> ELSE <<Unsub(sid, cmd.max_msgs)>>)

\* HashMap::insert and HashMap::remove.
Extend(f, x, y) == [z \in DOMAIN f \cup {x} |-> IF z = x THEN y ELSE f[z]]

\* Faulty: the entry is emptied, not removed.
WithoutKeepsKey(f, x) == [z \in DOMAIN f |-> IF z = x THEN None ELSE f[z]]

Without(f, x) == [z \in DOMAIN f \ {x} |-> f[z]]

\* Faulty: the answer names the generator's value after fetch_add.
StepSubscribeNextSid(s, cmd) ==
    LET sid == s.sid_generator
    IN  [s EXCEPT !.sid_generator = sid + 1,
                  !.sid2subscriber = Extend(s.sid2subscriber, sid, cmd.request),
                  !.answer = [s.answer EXCEPT ![cmd.request] = sid + 1],
                  !.buffered_transmits = @ \o Transmits(cmd, sid)]

\* Faulty: the smallest free sid is taken, so sids of the past return.
StepSubscribeFreeSid(s, cmd) ==
    LET sid == CHOOSE n \in 1..s.sid_generator :
                   /\ n \notin DOMAIN s.sid2subscriber
                   /\ \A m \in 1..(n - 1) : m \in DOMAIN s.sid2subscriber
    IN  [s EXCEPT !.sid_generator = @ + 1,
                  !.sid2subscriber = Extend(s.sid2subscriber, sid, cmd.request),
                  !.answer = [s.answer EXCEPT ![cmd.request] = sid],
                  !.buffered_transmits = @ \o Transmits(cmd, sid)]

\* Faulty: an UNSUB with a maximum takes the sid from the table at once.
StepSubscribeLimitedUnrouted(s, cmd) ==
    LET sid == s.sid_generator
    IN  [s EXCEPT !.sid_generator = sid + 1,
                  !.sid2subscriber = IF cmd.max_msgs = None
                                     THEN Extend(@, sid, cmd.request) ELSE @,
                  !.answer = [s.answer EXCEPT ![cmd.request] = sid],
                  !.buffered_transmits = @ \o Transmits(cmd, sid)]

\* The answer is sent with unwrap(): it panics when the caller has gone.
StepSubscribe(s, cmd) ==
    LET sid == s.sid_generator
        r   == cmd.request
    IN  IF caller[r] = "gone"
        THEN [s EXCEPT !.panicked = TRUE]
        ELSE [s EXCEPT !.sid_generator = sid + 1,
                       !.sid2subscriber = Extend(s.sid2subscriber, sid, r),
                       !.answer = [s.answer EXCEPT ![r] = sid],
                       !.buffered_transmits = @ \o Transmits(cmd, sid)]

\* Faulty: UNSUB is sent and the table left alone.
StepUnsubscribeKeepsEntry(s, cmd) ==
    [s EXCEPT !.buffered_transmits = @ \o Transmits(cmd, s.sid_generator)]

\* Faulty: the table is changed and the server not told.
StepUnsubscribeUntold(s, cmd) ==
    [s EXCEPT !.sid2subscriber = Without(s.sid2subscriber, cmd.sid)]

StepUnsubscribe(s, cmd) ==
    [s EXCEPT !.sid2subscriber = Without(s.sid2subscriber, cmd.sid),
              !.buffered_transmits = @ \o Transmits(cmd, s.sid_generator)]

StepPublish(s, cmd) ==
    [s EXCEPT !.buffered_transmits = @ \o Transmits(cmd, s.sid_generator)]

StepCommand(s, cmd) ==
    CASE s.panicked               -> s
      [] cmd.type = "Subscribe"   /\ ~s.panicked -> StepSubscribe(s, cmd)
      [] cmd.type = "Unsubscribe" /\ ~s.panicked -> StepUnsubscribe(s, cmd)
      [] cmd.type = "Publish"     /\ ~s.panicked -> StepPublish(s, cmd)

\* The fold over the backlog: CONNECT first, then every command in its order.
Connected == InfoReceived(<<Connect>>, 1, NoSubscribers)

ReplayOnto(start, backlog) ==
    LET replayed[n \in 0..Len(backlog)] ==
            IF n = 0 THEN start ELSE StepCommand(replayed[n - 1], backlog[n])
    IN  replayed[Len(backlog)]

\* Faulty: CONNECT is pushed behind the backlog.
ReplayConnectLast(backlog) ==
    LET s == ReplayOnto(InfoReceived(<<>>, 1, NoSubscribers), backlog)
    IN  [s EXCEPT !.buffered_transmits = Append(@, Connect)]

\* Faulty: the backlog is taken from its end.
ReplayReversed(backlog) ==
    ReplayOnto(Connected, [i \in DOMAIN backlog |-> backlog[Len(backlog) + 1 - i]])

\* Faulty: the backlog is lost.
ReplayForgets(backlog) == Connected

Replay(backlog) == ReplayOnto(Connected, backlog)

\* The state after a step, answers sent before a panic included.
Become(s) ==
    /\ answer' = s.answer
    /\ \/ s.panicked /\ Leave("Panicked")
       \/ /\ ~s.panicked
          /\ conn_state' = "InfoReceived"
          /\ preliminary' = <<>>
          /\ buffered_transmits' = s.buffered_transmits
          /\ sid_generator' = s.sid_generator
          /\ sid2subscriber' = s.sid2subscriber
          /\ UNCHANGED keep_alive

-----------------------------------------------------------------------------
(* handle_client_input                                                     *)

\* Faulty: commands before INFO are discarded.
HandleClientInputNoBacklog(cmd) ==
    /\ conn_state # "Panicked"
    /\ UNCHANGED msg_chan
    /\ \/ /\ conn_state = "InfoReceived"
          /\ Become(StepCommand(
                 InfoReceived(buffered_transmits, sid_generator, sid2subscriber), cmd))
       \/ /\ conn_state # "InfoReceived"
          /\ UNCHANGED <<conn_state, preliminary, inner, answer>>

HandleClientInput(cmd) ==
    /\ conn_state # "Panicked"
    /\ UNCHANGED msg_chan
    /\ \/ /\ conn_state = "InfoReceived"
          /\ Become(StepCommand(
                 InfoReceived(buffered_transmits, sid_generator, sid2subscriber), cmd))
       \/ /\ conn_state = "AwaitingInfo"
          /\ preliminary' = Append(preliminary, cmd)
          /\ UNCHANGED <<conn_state, inner, answer>>
       \/ /\ conn_state \in Terminal
          /\ UNCHANGED <<conn_state, preliminary, inner, answer>>

-----------------------------------------------------------------------------
(* handle_server_input                                                     *)

ReceiveInfo ==
    /\ conn_state = "AwaitingInfo"
    /\ Become(Replay(preliminary))
    /\ UNCHANGED msg_chan

ReceiveNotInfo ==
    /\ conn_state = "AwaitingInfo"
    /\ Leave("NotInfoReceived")
    /\ UNCHANGED <<answer, msg_chan>>

\* try_send(..).unwrap(): panics when the receiver is gone or the channel full.
DeliverWithin(cmd, bound) ==
    /\ conn_state = "InfoReceived"
    /\ cmd.sid \in DOMAIN sid2subscriber
    /\ UNCHANGED answer
    /\ LET r == sid2subscriber[cmd.sid]
       IN  \/ /\ caller[r] = "live" /\ Len(msg_chan[r]) < bound
              /\ msg_chan' = [msg_chan EXCEPT ![r] = Append(@, cmd)]
              /\ UNCHANGED <<conn_state, preliminary, inner>>
           \/ /\ caller[r] = "gone" \/ Len(msg_chan[r]) >= bound
              /\ Leave("Panicked")
              /\ UNCHANGED msg_chan

\* Faulty: off by one either way.
ReceiveMsgOverfull(cmd)  == DeliverWithin(cmd, ChanCapacity + 1)
ReceiveMsgUnderfull(cmd) == DeliverWithin(cmd, ChanCapacity - 1)

ReceiveMsg(cmd) == DeliverWithin(cmd, ChanCapacity)

\* blocking_send panics on a thread of the runtime, where run() calls it.
ReceiveHMsg(cmd) ==
    /\ conn_state = "InfoReceived"
    /\ cmd.sid \in DOMAIN sid2subscriber
    /\ Leave("Panicked")
    /\ UNCHANGED <<answer, msg_chan>>

\* Faulty: only the first PING and PONG are noted.
ReceiveKeepAliveOnce(field, now) ==
    /\ conn_state = "InfoReceived"
    /\ keep_alive' = [keep_alive EXCEPT ![field] = IF @ = None THEN now ELSE @]
    /\ UNCHANGED <<conn_state, preliminary, buffered_transmits, sid_generator,
                   sid2subscriber, answer, msg_chan>>

ReceiveKeepAlive(field, now) ==
    /\ conn_state = "InfoReceived"
    /\ keep_alive' = [keep_alive EXCEPT ![field] = now]
    /\ UNCHANGED <<conn_state, preliminary, buffered_transmits, sid_generator,
                   sid2subscriber, answer, msg_chan>>

\* Logged only: a message for an unknown sid, +OK, -ERR, a second INFO.
Disregard(cmd) ==
    /\ \/ conn_state \in Terminal \ {"Panicked"}
       \/ /\ conn_state = "InfoReceived"
          /\ \/ cmd.type \in {"OK", "INFO"}
             \/ cmd.type \in {"MSG", "HMSG"} /\ cmd.sid \notin DOMAIN sid2subscriber
    /\ UNCHANGED binding

HandleServerInput(cmd, now) ==
    \/ cmd.type = "INFO" /\ ReceiveInfo
    \/ cmd.type # "INFO" /\ ReceiveNotInfo
    \/ cmd.type = "MSG"  /\ ReceiveMsg(cmd)
    \/ cmd.type = "HMSG" /\ ReceiveHMsg(cmd)
    \/ cmd.type = "PING" /\ ReceiveKeepAlive("last_ping_received_at", now)
    \/ cmd.type = "PONG" /\ ReceiveKeepAlive("last_pong_received_at", now)
    \/ Disregard(cmd)

-----------------------------------------------------------------------------
(* Timers.  duration_since saturates at zero.                              *)

Elapsed(now, then) == IF now >= then THEN now - then ELSE 0

PingDue(now) ==
    \/ keep_alive.last_ping_sent_at = None
    \/ Elapsed(now, keep_alive.last_ping_sent_at) >= PingInterval
\* Faulty: strictly more than the delay.
PongDueLate(now) ==
    /\ keep_alive.last_ping_received_at # None
    /\ Elapsed(now, keep_alive.last_ping_received_at) > PongDelay

PongDue(now) ==
    /\ keep_alive.last_ping_received_at # None
    /\ Elapsed(now, keep_alive.last_ping_received_at) >= PongDelay

LossDue(now) ==
    /\ keep_alive.last_pong_received_at # None
    /\ Elapsed(now, keep_alive.last_pong_received_at) >= KeepAlive

\* Faulty: the timestamp is not updated.
EnqueueUnrecorded(command, field, value) ==
    /\ buffered_transmits' = Append(buffered_transmits, command)
    /\ UNCHANGED <<conn_state, preliminary, keep_alive, sid_generator, sid2subscriber,
                   answer, msg_chan>>

Enqueue(command, field, value) ==
    /\ buffered_transmits' = Append(buffered_transmits, command)
    /\ keep_alive' = [keep_alive EXCEPT ![field] = value]
    /\ UNCHANGED <<conn_state, preliminary, sid_generator, sid2subscriber, answer, msg_chan>>

HandleSendPingTimeout(now) ==
    IF conn_state = "InfoReceived" /\ PingDue(now)
    THEN Enqueue(Ping, "last_ping_sent_at", now)
    ELSE UNCHANGED binding

HandleSendPongTimeout(now) ==
    IF conn_state = "InfoReceived" /\ PongDue(now)
    THEN Enqueue(Pong, "last_ping_received_at", None)
    ELSE UNCHANGED binding

HandleKeepAliveTimeout(now) ==
    IF conn_state = "InfoReceived" /\ LossDue(now)
    THEN Leave("ConnectionLost") /\ UNCHANGED <<answer, msg_chan>>
    ELSE UNCHANGED binding

\* When the caller should call each of them next.
PollSendPingTimeout(now) ==
    CASE conn_state # "InfoReceived" -> None
      [] conn_state = "InfoReceived" /\ keep_alive.last_ping_sent_at = None -> now
      [] OTHER -> keep_alive.last_ping_sent_at + PingInterval
PollSendPongTimeout ==
    IF conn_state = "InfoReceived" /\ keep_alive.last_ping_received_at # None
    THEN keep_alive.last_ping_received_at + PongDelay ELSE None
\* Faulty: postponed by the client's own PINGs.
PollKeepAliveSincePing ==
    IF conn_state = "InfoReceived" /\ keep_alive.last_ping_sent_at # None
    THEN keep_alive.last_ping_sent_at + KeepAlive ELSE None

PollKeepAliveTimeout ==
    IF conn_state = "InfoReceived" /\ keep_alive.last_pong_received_at # None
    THEN keep_alive.last_pong_received_at + KeepAlive ELSE None

-----------------------------------------------------------------------------
(* poll_transmit hands out Head(buffered_transmits).                       *)

PollTransmit ==
    /\ buffered_transmits # <<>>
    /\ buffered_transmits' = Tail(buffered_transmits)
    /\ UNCHANGED <<conn_state, preliminary, keep_alive, sid_generator, sid2subscriber,
                   answer, msg_chan>>

-----------------------------------------------------------------------------
(* The callers' ends of the channels.                                      *)

\* The future of subscribe(), or the Subscriber, is dropped with its receiver.
DropReceiver(r) ==
    /\ caller[r] = "live"
    /\ caller' = [caller EXCEPT ![r] = "gone"]
    /\ msg_chan' = [msg_chan EXCEPT ![r] = <<>>]
    /\ UNCHANGED <<conn_state, preliminary, inner, answer>>

TakeMsg(r) ==
    /\ caller[r] = "live" /\ msg_chan[r] # <<>>
    /\ msg_chan' = [msg_chan EXCEPT ![r] = Tail(@)]
    /\ UNCHANGED <<conn_state, preliminary, inner, answer, caller>>

=============================================================================
