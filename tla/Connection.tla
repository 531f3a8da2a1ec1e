----------------------------- MODULE Connection -----------------------------
(***************************************************************************)
(* nats_client's event loop (tokio/connection.rs, tokio/subscriber.rs)     *)
(* around the sans-IO binding: run() drains transmits, then selects over   *)
(* three tickers, the command queue and the TCP reader.  Users call        *)
(* subscribe() and publish() and drop Subscribers from their own tasks; a  *)
(* NATS server is at the other end of the two TCP directions.              *)
(*                                                                         *)
(* A message's payload is its serial number on its subscription, and a     *)
(* publication's its serial number on the handle, so that loss and         *)
(* reordering show.                                                        *)
(***************************************************************************)
EXTENDS NatsBinding, FiniteSets

CONSTANTS
    MaxMsgs,          \* request -> its max_msgs option
    MayCancel,        \* requests whose subscribe() future may be dropped
    MayDrop,          \* requests whose Subscriber may be dropped
    ServerMay,        \* subset of {"ping", "message", "headers", "garble", "close", "hang", "misgreet"}
    CommandCapacity,  \* of the command queue (1024 * 1024 in the code)
    TcpCapacity,      \* commands the socket takes before writer.send() waits
    Period,           \* of the tickers (5 s in the code)
    MaxRtt,           \* longest a prompt server leaves a command unread
    MaxTime, MaxPublishes, MaxSerial, MaxPings   \* bounds

ASSUME ConnectionAssumption ==
    /\ MaxMsgs \in [Requests -> Limits \cup {None}]
    /\ MayCancel \subseteq Requests /\ MayDrop \subseteq Requests
    /\ {CommandCapacity, TcpCapacity, Period} \subseteq Nat \ {0}
    /\ {MaxRtt, MaxTime, MaxPublishes, MaxSerial, MaxPings} \subseteq Nat
    /\ 1..MaxSerial \subseteq Payloads /\ 1..MaxPublishes \subseteq Payloads
    /\ Payloads \subseteq Nat

VARIABLES
    task,        \* the task of run(): "running" or "ended"
    now,
    tickers,     \* deadlines of the three intervals
    chan,        \* the command queue
    outbound,    \* to the server: commands with the time they were written
    inbound,     \* from the server: commands, Garbled bytes, Eof
    server,
    holds,       \* requests whose subscribe() has returned a Subscriber
    taken,       \* request -> serial of the last message its stream yielded
    published,   \* publish() calls that returned
    crashed      \* users that panicked: requests, or "publisher"

loop == <<task, tickers, chan>>
net  == <<outbound, inbound, server>>
user == <<holds, taken, published, crashed>>
cvars == <<binding, caller, loop, net, user, now>>

Eof     == [type |-> "EOF"]
Garbled == [type |-> "garbled"]

Init ==
    /\ BindingInit
    /\ task = "running" /\ now = 0
    /\ tickers = [ping |-> 0, pong |-> 0, keep_alive |-> 0]
    /\ chan = <<>> /\ outbound = <<>> /\ inbound = <<>>
    /\ server = [mode |-> "new", hung_at |-> None, pings |-> 0, pongs |-> 0,
                 subs |-> NoSubscribers, serials |-> NoSubscribers, heard |-> 0]
    /\ holds = {} /\ crashed = {} /\ published = 0
    /\ taken = [r \in Requests |-> 0]

-----------------------------------------------------------------------------
(* run()                                                                   *)

\* poll_transmit comes first; writer.send() waits while the socket is full, and
\* its error, once the server is gone, is ignored.
Transmit ==
    /\ task = "running"
    /\ PollTransmit
    /\ \/ /\ server.mode # "closed" /\ Len(outbound) < TcpCapacity
          /\ outbound' = Append(outbound, [command |-> Head(buffered_transmits), at |-> now])
       \/ server.mode = "closed" /\ UNCHANGED outbound
    /\ UNCHANGED <<caller, loop, inbound, server, user, now>>

\* select! is reached only when there is nothing to transmit.
Selecting == task = "running" /\ buffered_transmits = <<>>

\* Faulty: no ticker is reset.
LoopUnreset(ticked, queue, input) ==
    /\ UNCHANGED now
    /\ IF conn_state' = "Panicked"
       THEN task' = "ended" /\ chan' = <<>> /\ inbound' = <<>> /\ UNCHANGED tickers
       ELSE chan' = queue /\ inbound' = input /\ tickers' = ticked /\ UNCHANGED task

\* The end of the loop's body: each ticker is reset to the time polled, if any.
\* After a panic everything the task owned is gone.
Loop(ticked, queue, input) ==
    LET reset(polled, ticker) == IF polled # None THEN polled ELSE ticker
    IN  /\ UNCHANGED now
        /\ IF conn_state' = "Panicked"
           THEN task' = "ended" /\ chan' = <<>> /\ inbound' = <<>> /\ UNCHANGED tickers
           ELSE /\ chan' = queue
                /\ inbound' = input
                /\ tickers' = [ping |-> reset(PollSendPingTimeout(now)', ticked.ping),
                               pong |-> reset(PollSendPongTimeout', ticked.pong),
                               keep_alive |-> reset(PollKeepAliveTimeout', ticked.keep_alive)]
                /\ UNCHANGED task

\* A tick passes on the deadline it was due at, however late it is served, and
\* the next is a period later.
Ticked(ticker) == [tickers EXCEPT ![ticker] = @ + Period]

TickPing ==
    /\ Selecting /\ tickers.ping <= now
    /\ HandleSendPingTimeout(tickers.ping)
    /\ Loop(Ticked("ping"), chan, inbound)
    /\ UNCHANGED <<caller, outbound, server, user>>

TickPong ==
    /\ Selecting /\ tickers.pong <= now
    /\ HandleSendPongTimeout(tickers.pong)
    /\ Loop(Ticked("pong"), chan, inbound)
    /\ UNCHANGED <<caller, outbound, server, user>>

TickKeepAlive ==
    /\ Selecting /\ tickers.keep_alive <= now
    /\ HandleKeepAliveTimeout(tickers.keep_alive)
    /\ Loop(Ticked("keep_alive"), chan, inbound)
    /\ UNCHANGED <<caller, outbound, server, user>>

RecvCommand ==
    /\ Selecting /\ chan # <<>>
    /\ HandleClientInput(Head(chan))
    /\ Loop(tickers, Tail(chan), inbound)
    /\ UNCHANGED <<caller, outbound, server, user>>

ReadCommand ==
    /\ Selecting /\ inbound # <<>> /\ Head(inbound).type \notin {"EOF", "garbled"}
    /\ HandleServerInput(Head(inbound), now)
    /\ Loop(tickers, chan, Tail(inbound))
    /\ UNCHANGED <<caller, outbound, server, user>>

\* A decoding error is logged; FramedRead, having failed, ends at the next poll.
ReadError ==
    /\ Selecting /\ inbound # <<>> /\ Head(inbound).type = "garbled"
    /\ UNCHANGED binding
    /\ Loop(tickers, chan, <<Eof>>)
    /\ UNCHANGED <<caller, outbound, server, user>>

ReadEof ==
    /\ Selecting /\ inbound # <<>> /\ Head(inbound) = Eof
    /\ task' = "ended"
    /\ Leave(conn_state)
    /\ chan' = <<>> /\ inbound' = <<>>
    /\ UNCHANGED <<answer, msg_chan, tickers, caller, outbound, server, user, now>>

Run == \/ Transmit \/ TickPing \/ TickPong \/ TickKeepAlive
       \/ RecvCommand \/ ReadCommand \/ ReadError \/ ReadEof

-----------------------------------------------------------------------------
(* UserHandle and Subscriber                                               *)

Offer(cmd) == Len(chan) < CommandCapacity /\ chan' = Append(chan, cmd)

\* The future of subscribe() until its command is queued; a failed send is ignored.
CallSubscribe(r) ==
    /\ caller[r] = "idle"
    /\ caller' = [caller EXCEPT ![r] = "live"]
    /\ \/ task = "running" /\ Offer(Subscribe(r, MaxMsgs[r]))
       \/ task = "ended" /\ UNCHANGED chan
    /\ UNCHANGED <<binding, task, tickers, net, user, now>>

\* The oneshot sender of a call still exists while its command does.
Held(r) == \E cmd \in {chan[i] : i \in DOMAIN chan} \cup {preliminary[i] : i \in DOMAIN preliminary} :
               cmd.type = "Subscribe" /\ cmd.request = r

\* Faulty: a call whose command was dropped is not woken.
SubscribeReturnsAnswered(r) ==
    /\ caller[r] = "live" /\ r \notin holds /\ answer[r] # None
    /\ holds' = holds \cup {r}
    /\ UNCHANGED <<crashed, binding, caller, loop, net, taken, published, now>>

\* receiver.await.unwrap()
SubscribeReturns(r) ==
    /\ caller[r] = "live" /\ r \notin holds
    /\ \/ /\ answer[r] # None
          /\ holds' = holds \cup {r}
          /\ UNCHANGED <<crashed, binding, caller>>
       \/ /\ answer[r] = None /\ ~Held(r)
          /\ crashed' = crashed \cup {r}
          /\ DropReceiver(r)
          /\ UNCHANGED holds
    /\ UNCHANGED <<loop, net, taken, published, now>>

CancelSubscribe(r) ==
    /\ r \notin holds
    /\ DropReceiver(r)
    /\ UNCHANGED <<loop, net, user, now>>

\* ReceiverStream, with take(limit) when the request has one.
NextMessage(r) ==
    /\ r \in holds
    /\ MaxMsgs[r] # None => taken[r] < MaxMsgs[r]
    /\ TakeMsg(r)
    /\ taken' = [taken EXCEPT ![r] = Head(msg_chan[r]).payload]
    /\ UNCHANGED <<loop, net, holds, published, crashed, now>>

\* Drop: try_send(Unsubscribe).unwrap(), then the receiver is dropped.
DropSubscriber(r) ==
    /\ r \in holds
    /\ DropReceiver(r)
    /\ \/ task = "running" /\ Offer(Unsubscribe(answer[r])) /\ UNCHANGED crashed
       \/ /\ task = "ended" \/ Len(chan) >= CommandCapacity
          /\ crashed' = crashed \cup {r}
          /\ UNCHANGED chan
    /\ UNCHANGED <<task, tickers, net, holds, taken, published, now>>

\* send(..).await.unwrap()
CallPublish ==
    /\ published < MaxPublishes /\ "publisher" \notin crashed
    /\ \/ /\ task = "running" /\ Offer(Publish(published + 1))
          /\ published' = published + 1
          /\ UNCHANGED crashed
       \/ /\ task = "ended"
          /\ crashed' = crashed \cup {"publisher"}
          /\ UNCHANGED <<chan, published>>
    /\ UNCHANGED <<binding, caller, task, tickers, net, holds, taken, now>>

Users ==
    \/ \E r \in Requests : CallSubscribe(r) \/ SubscribeReturns(r) \/ NextMessage(r)
    \/ \E r \in MayCancel : CancelSubscribe(r)
    \/ \E r \in MayDrop : DropSubscriber(r)
    \/ CallPublish

-----------------------------------------------------------------------------
(* The server, as far as the client's code relies on it.                   *)

ServerSends(item) ==
    /\ task = "running"
    /\ inbound' = Append(inbound, item)
    /\ UNCHANGED <<binding, caller, loop, outbound, user, now>>

Greet ==
    /\ server.mode = "new"
    /\ server' = [server EXCEPT !.mode = "up"]
    /\ \/ ServerSends(Info)
       \/ "misgreet" \in ServerMay /\ ServerSends(OkOrErr)

\* What a command does to the server.  UNSUB with a maximum ends the
\* subscription once that many messages have been delivered on it.
Serve(cmd) ==
    CASE cmd.type = "SUB" ->
            [server EXCEPT !.subs = Extend(@, cmd.sid, None), !.serials = Extend(@, cmd.sid, 0)]
      [] cmd.type = "UNSUB" /\ cmd.sid \in DOMAIN server.subs ->
            IF cmd.max_msgs = None \/ server.serials[cmd.sid] >= cmd.max_msgs
            THEN [server EXCEPT !.subs = Without(@, cmd.sid)]
            ELSE [server EXCEPT !.subs[cmd.sid] = cmd.max_msgs]
      [] cmd.type = "PUB"  -> [server EXCEPT !.heard = cmd.payload]
      [] cmd.type = "PONG" -> [server EXCEPT !.pongs = @ + 1]
      [] OTHER -> server

ServerReads ==
    /\ server.mode \in {"new", "up"} /\ outbound # <<>>
    /\ LET cmd == Head(outbound).command
       IN  /\ server' = Serve(cmd)
           /\ inbound' = IF cmd.type = "PING" /\ task = "running"
                         THEN Append(inbound, SPong) ELSE inbound
    /\ outbound' = Tail(outbound)
    /\ UNCHANGED <<binding, caller, loop, user, now>>

\* Somebody publishes on the subject of a subscription.
ServerDelivers(sid) ==
    LET serial == server.serials[sid] + 1
    IN  /\ server.mode = "up" /\ serial <= MaxSerial
        /\ server' = [server EXCEPT !.serials[sid] = serial,
                                    !.subs = IF @[sid] = serial THEN Without(@, sid) ELSE @]
        /\ \/ "message" \in ServerMay
              /\ ServerSends([type |-> "MSG", sid |-> sid, payload |-> serial])
           \/ "headers" \in ServerMay
              /\ ServerSends([type |-> "HMSG", sid |-> sid, payload |-> serial])

ServerPings ==
    /\ "ping" \in ServerMay /\ server.mode = "up" /\ server.pings < MaxPings
    /\ server' = [server EXCEPT !.pings = @ + 1]
    /\ ServerSends(SPing)

ServerGarbles ==
    /\ "garble" \in ServerMay /\ server.mode = "up"
    /\ {Garbled, Eof} \cap {inbound[i] : i \in DOMAIN inbound} = {}
    /\ ServerSends(Garbled) /\ UNCHANGED server

ServerCloses ==
    /\ "close" \in ServerMay /\ server.mode = "up"
    /\ server' = [server EXCEPT !.mode = "closed"]
    /\ ServerSends(Eof)

\* The server stops reading and writing without closing.
ServerHangs ==
    /\ "hang" \in ServerMay /\ server.mode = "up"
    /\ server' = [server EXCEPT !.mode = "hung", !.hung_at = now]
    /\ UNCHANGED <<binding, caller, loop, outbound, inbound, user, now>>

Server ==
    \/ Greet \/ ServerReads \/ ServerPings \/ ServerGarbles \/ ServerCloses \/ ServerHangs
    \/ \E sid \in DOMAIN server.subs : ServerDelivers(sid)

-----------------------------------------------------------------------------
Tick ==
    /\ now < MaxTime
    /\ now' = now + 1
    /\ UNCHANGED <<binding, caller, loop, net, user>>

Next == Run \/ Users \/ Server \/ Tick

Spec == Init /\ [][Next]_cvars

-----------------------------------------------------------------------------
(* A prompt system: time passes only while run() has nothing it can do, and a
   server that is up reads each command within MaxRtt.                     *)

Blocked == buffered_transmits # <<>> /\ Len(outbound) >= TcpCapacity /\ server.mode # "closed"
Idle ==
    \/ task = "ended" \/ Blocked
    \/ /\ Selecting /\ chan = <<>> /\ inbound = <<>>
       /\ \A ticker \in DOMAIN tickers : tickers[ticker] > now

PromptTick ==
    /\ Idle
    /\ server.mode = "up" /\ outbound # <<>> => now < Head(outbound).at + MaxRtt
    /\ Tick

PromptNext == Run \/ Users \/ Server \/ PromptTick

PromptSpec == Init /\ [][PromptNext]_cvars

\* select! starts at a random branch, so a branch that is ready again and again is
\* taken; tasks that can proceed are scheduled; the server reads and greets.
Fairness ==
    /\ WF_cvars(Transmit)
    /\ SF_cvars(TickPing) /\ SF_cvars(TickPong) /\ SF_cvars(TickKeepAlive)
    /\ SF_cvars(RecvCommand) /\ SF_cvars(ReadCommand \/ ReadError \/ ReadEof)
    /\ \A r \in Requests : WF_cvars(SubscribeReturns(r))
    /\ WF_cvars(Greet) /\ WF_cvars(ServerReads)

FairSpec == Spec /\ Fairness

-----------------------------------------------------------------------------
(* Properties.                                                             *)

Live == task = "running" /\ conn_state = "InfoReceived"

\* On the way to the server: in the socket, and behind it in the transmit buffer.
Sent  == [i \in DOMAIN outbound |-> outbound[i].command]
Ahead == Sent \o buffered_transmits

Publications == [type : {"PUB", "Publish"}, payload : Payloads]
Deliveries(sid) == [type : {"MSG", "HMSG"}, sid : {sid}, payload : Payloads]

\* The members of kind in a queue carry the serial numbers after first, up to last, each
\* once and in their order.
InOrder(queue, kind, first, last) ==
    LET at == {i \in DOMAIN queue : queue[i] \in kind}
    IN  /\ first <= last
        /\ {queue[i].payload : i \in at} = (first + 1)..last
        /\ \A i, j \in at : i < j => queue[i].payload < queue[j].payload

\* How often a command is in a queue.
Count(queue, cmd) == Cardinality({i \in DOMAIN queue : queue[i] = cmd})

\* The variables have their types.
TypeOK ==
    /\ BindingTypeOK
    /\ task \in {"running", "ended"}
    /\ now \in 0..MaxTime
    /\ tickers \in [{"ping", "pong", "keep_alive"} -> Nat]
    /\ chan \in Seq(ConnectionCommand) /\ Len(chan) <= CommandCapacity
    /\ outbound \in Seq([command : ClientCommand, at : Nat]) /\ Len(outbound) <= TcpCapacity
    /\ inbound \in Seq({Info, SPing, SPong, OkOrErr, Eof, Garbled} \cup Message \cup HMessage)
    /\ server.mode \in {"new", "up", "hung", "closed"}
    /\ holds \subseteq Requests /\ taken \in [Requests -> Nat]
    /\ published \in Nat /\ crashed \subseteq Requests \cup {"publisher"}

\* No message is lost, repeated, reordered or misrouted between the server and a
\* subscription that is still wanted, until the stream from the server is at its end: what
\* its Subscriber has yielded, what waits in its channel and what is on the way are the
\* server's messages from first to last.
NoMessageLost ==
    Live /\ (inbound # <<>> => Head(inbound) # Eof) =>
        \A r \in Requests :
            caller[r] = "live" /\ answer[r] \in DOMAIN server.serials =>
                LET sid == answer[r]
                IN  /\ \A i \in DOMAIN msg_chan[r] : msg_chan[r][i].sid = sid
                    /\ InOrder(msg_chan[r] \o inbound, Deliveries(sid),
                               taken[r], server.serials[sid])

\* While the server may still deliver on a sid, and no UNSUB for it is under way, the
\* sid is in the routing table and stands for the request that was answered with it.
ServedMeansRouted ==
    Live /\ server.mode = "up" => \A sid \in DOMAIN server.subs :
        (\A i \in DOMAIN Ahead : Ahead[i] # Unsub(sid, None)) =>
            sid \in DOMAIN sid2subscriber /\ answer[sid2subscriber[sid]] = sid

\* Publications reach the server in the order of the calls, none missing and none
\* twice, across the queue, the backlog, the transmit buffer and the socket.
PublishedInOrder ==
    task = "running" /\ conn_state \notin Terminal /\ server.mode # "closed" =>
        InOrder(Ahead \o preliminary \o chan, Publications, server.heard, published)

\* The user's tasks panic only when the connection is over, or has failed, or in dropping
\* a Subscriber while the command queue is full.
CrashOnlyWhenOverOrFull ==
    [][crashed' # crashed =>
           \/ task = "ended" \/ conn_state \in Terminal
           \/ /\ Len(chan) = CommandCapacity
              /\ \E r \in holds : caller[r] = "live" /\ caller'[r] = "gone"]_cvars

\* The connection's task panics only on a message for a receiver that is gone or whose
\* channel is full, on an answer for a caller that is gone, or on a message with headers.
PanicsOnlyOnGoneOrSlow ==
    [][conn_state # "Panicked" /\ conn_state' = "Panicked" =>
           \/ \E r \in Requests : caller[r] = "gone" \/ Len(msg_chan[r]) = ChanCapacity
           \/ inbound # <<>> /\ Head(inbound).type = "HMSG"]_cvars

\* Never more PONGs than PINGs received, counting those queued and owed.
NoUnsolicitedPong ==
    server.pongs + Count(Ahead, Pong)
        + (IF keep_alive.last_ping_received_at = None THEN 0 ELSE 1)
        + (IF task = "running" THEN Count(inbound, SPing) ELSE 0) <= server.pings

\* The loop never sleeps past a deadline of the binding: when it has nothing to do,
\* no handler would act.  (Each ticker must be reset after every event, not only its own.)
IdleMeansNothingDue ==
    Live /\ Idle /\ ~Blocked => ~PingDue(now) /\ ~PongDue(now) /\ ~LossDue(now)

\* Prompt only: a server that answers every PING within MaxRtt is never given up, given
\* KeepAlive > PingInterval + MaxRtt and a socket that has room: a PING that waits behind
\* other commands to be written is answered late.
NoFalseLoss == server.mode = "up" => conn_state # "ConnectionLost"

\* Prompt only: while the server keeps up, PINGs do not pile up, given MaxRtt < PingInterval
\* and a socket that has room.
OnePingUnread == server.mode = "up" => Count(Ahead, Ping) <= 1

\* Prompt only: a server that stops answering is given up KeepAlive after it hung, at the
\* latest, once it had answered a PING and unless the socket is full: the loop, waiting in
\* writer.send(), serves no timer.
HangDetected ==
    Live /\ ~Blocked /\ server.mode = "hung" /\ keep_alive.last_pong_received_at # None =>
        now <= server.hung_at + KeepAlive

\* The same with no such condition: ConnectionLost is documented (state.rs:21) as "Server
\* is not responding to `PINGs`".
SilenceDetected ==
    Live /\ server.mode = "hung" => now <= server.hung_at + PingInterval + KeepAlive

\* run()'s unwraps assert that delivering a message and answering a call cannot fail.
NeverPanics == conn_state # "Panicked"

Over == task = "ended" \/ conn_state \in Terminal

\* Every call of subscribe() comes to an end: with a Subscriber, or with a panic of its
\* user when the connection is over; none waits for ever.
CallsReturn == \A r \in Requests : (caller[r] = "live") ~> (r \in holds \/ caller[r] = "gone")

\* A PING from the server is answered in the end, whatever else keeps the loop busy.
PingsAnswered ==
    (SPing \in {inbound[i] : i \in DOMAIN inbound} \/ keep_alive.last_ping_received_at # None)
        ~> (Over \/ (keep_alive.last_ping_received_at = None /\ server.pongs > 0))

\* What is published reaches the server, unless the connection ends.
PublishesArrive ==
    \A n \in 1..MaxPublishes :
        (published = n) ~> (server.heard >= n \/ Over \/ server.mode = "closed")

=============================================================================
