-------------------------- MODULE ConnectionProofs --------------------------
(***************************************************************************)
(* Theorems about Connection, for every set of requests, every capacity of *)
(* the queues, every interval and every behaviour of the server: types,    *)
(* deadlines, when the connection's task and its users panic, and, across  *)
(* queue, backlog, transmit buffer and socket, that the client routes what *)
(* the server may deliver.                                                 *)
(***************************************************************************)
EXTENDS Connection, HandlerProofs

-----------------------------------------------------------------------------
(* Types.                                                                  *)

\* Tables of the server, by sid.
BySid(V) == UNION {[D -> V] : D \in SUBSET Nat}

ServerState ==
    [mode : {"new", "up", "hung", "closed"}, hung_at : Nat \cup {None}, pings : Nat, pongs : Nat,
     subs : BySid(Limits \cup {None}), serials : BySid(Nat), heard : Nat]

\* The server delivers on sids it has counters for.
ServerTyped == server \in ServerState /\ DOMAIN server.subs \subseteq DOMAIN server.serials

Tickers == [{"ping", "pong", "keep_alive"} -> Nat]
Inbound == {Info, SPing, SPong, OkOrErr, Eof, Garbled} \cup Message \cup HMessage

\* The conjuncts of TypeOK, by what changes them.
LoopTyped ==
    /\ task \in {"running", "ended"}
    /\ now \in 0..MaxTime
    /\ tickers \in Tickers
    /\ chan \in Seq(ConnectionCommand) /\ Len(chan) <= CommandCapacity
StreamsTyped ==
    /\ outbound \in Seq([command : ClientCommand, at : Nat]) /\ Len(outbound) <= TcpCapacity
    /\ inbound \in Seq(Inbound)
UsersTyped ==
    /\ holds \subseteq Requests /\ taken \in [Requests -> Nat]
    /\ published \in Nat /\ crashed \subseteq Requests \cup {"publisher"}

\* A Subscriber is built from an answer.
HoldersAnswered == \A r \in holds : answer[r] # None

\* No channel holds more than its capacity.
ChannelsBounded == \A r \in Requests : Len(msg_chan[r]) <= ChanCapacity

\* What the types rest on: an Unsubscribe names the sid of an answer.
TInv ==
    /\ FieldsTyped /\ CallerTyped
    /\ LoopTyped /\ StreamsTyped /\ ServerTyped /\ UsersTyped
    /\ HoldersAnswered /\ ChannelsBounded

\* The invariant contains the type invariant of the runs.
LEMMA TInvTypes == TInv => TypeOK
BY TypeParts
   DEF TInv, TypeOK, LoopTyped, StreamsTyped, ServerTyped, ServerState, UsersTyped, Tickers, Inbound

\* Functions on a set of sids, and how the model updates them.
LEMMA BySidIs ==
    ASSUME NEW V, NEW f
    PROVE  f \in BySid(V) <=> DOMAIN f \subseteq Nat /\ f \in [DOMAIN f -> V]
BY DEF BySid

\* A sid bound to one more value.
LEMMA BySidTyped ==
    ASSUME NEW V, NEW f \in BySid(V), NEW sid \in Nat, NEW v \in V
    PROVE  Extend(f, sid, v) \in BySid(V)
<1> DEFINE D == DOMAIN f \cup {sid}
<1>1. D \in SUBSET Nat /\ f \in [DOMAIN f -> V]
  BY BySidIs
<1>2. Extend(f, sid, v) \in [D -> V]
  BY <1>1 DEF Extend
<1>. QED BY <1>1, <1>2 DEF BySid

\* A sid removed.
LEMMA BySidWithout ==
    ASSUME NEW V, NEW f \in BySid(V), NEW sid
    PROVE  Without(f, sid) \in BySid(V) /\ DOMAIN Without(f, sid) \subseteq DOMAIN f
<1> DEFINE D == DOMAIN f \ {sid}
<1>1. D \in SUBSET Nat /\ f \in [DOMAIN f -> V]
  BY BySidIs
<1>2. Without(f, sid) \in [D -> V]
  BY <1>1 DEF Without
<1>. QED BY <1>1, <1>2 DEF BySid

\* The value of a sid replaced.
LEMMA BySidExcept ==
    ASSUME NEW V, NEW f \in BySid(V), NEW sid \in DOMAIN f, NEW v \in V
    PROVE  [f EXCEPT ![sid] = v] \in BySid(V)
<1>1. DOMAIN f \in SUBSET Nat /\ f \in [DOMAIN f -> V]
  BY BySidIs
<1>2. [f EXCEPT ![sid] = v] \in [DOMAIN f -> V]
  BY <1>1
<1>. QED BY <1>1, <1>2 DEF BySid

\* Reading any command leaves the server a state of its type.
LEMMA ServeTyped ==
    ASSUME ServerTyped, NEW cmd \in ClientCommand
    PROVE  /\ Serve(cmd) \in ServerState
           /\ DOMAIN Serve(cmd).subs \subseteq DOMAIN Serve(cmd).serials
           /\ Serve(cmd).mode = server.mode
<1> USE DEF ServerTyped
<1>1. /\ server.subs \in BySid(Limits \cup {None}) /\ server.serials \in BySid(Nat)
      /\ server.pongs \in Nat
  BY DEF ServerState
<1>2. CASE cmd.type = "SUB"
  <2> DEFINE subs    == Extend(server.subs, cmd.sid, None)
             serials == Extend(server.serials, cmd.sid, 0)
  <2>1. cmd.sid \in Nat /\ None \in Limits \cup {None} /\ 0 \in Nat
    BY <1>2 DEF ClientCommand, Connect, Ping, Pong
  <2>2. subs \in BySid(Limits \cup {None})
    BY <1>1, <2>1, BySidTyped
  <2>3. serials \in BySid(Nat)
    BY <1>1, <2>1, BySidTyped
  <2>4. DOMAIN subs = DOMAIN server.subs \cup {cmd.sid} /\ DOMAIN serials = DOMAIN server.serials \cup {cmd.sid}
    BY DEF Extend
  <2>5. Serve(cmd) = [server EXCEPT !.subs = subs, !.serials = serials]
    BY <1>2 DEF Serve
  <2> HIDE DEF subs, serials
  <2>. QED BY <2>2, <2>3, <2>4, <2>5 DEF ServerState
<1>3. CASE cmd.type = "UNSUB" /\ cmd.sid \in DOMAIN server.subs
  <2>1. CASE Serve(cmd) = [server EXCEPT !.subs = Without(@, cmd.sid)]
    <3> DEFINE subs == Without(server.subs, cmd.sid)
    <3>1. subs \in BySid(Limits \cup {None}) /\ DOMAIN subs \subseteq DOMAIN server.subs
      BY <1>1, BySidWithout
    <3>2. Serve(cmd) = [server EXCEPT !.subs = subs]
      BY <2>1
    <3> HIDE DEF subs
    <3>. QED BY <3>1, <3>2 DEF ServerState
  <2>2. CASE Serve(cmd) = [server EXCEPT !.subs[cmd.sid] = cmd.max_msgs]
    <3> DEFINE subs == [server.subs EXCEPT ![cmd.sid] = cmd.max_msgs]
    <3>1. cmd.max_msgs \in Limits \cup {None}
      BY <1>3 DEF ClientCommand, Connect, Ping, Pong
    <3>2. subs \in BySid(Limits \cup {None})
      BY <1>1, <1>3, <3>1, BySidExcept
    <3>3. DOMAIN subs = DOMAIN server.subs
      OBVIOUS
    <3>4. Serve(cmd) = [server EXCEPT !.subs = subs]
      BY <2>2
    <3> HIDE DEF subs
    <3>. QED BY <3>2, <3>3, <3>4 DEF ServerState
  <2>. QED BY <1>3, <2>1, <2>2 DEF Serve
<1>4. CASE cmd.type = "PUB"
  <2>1. cmd.payload \in Nat
    <3>1. cmd.payload \in Payloads
      BY <1>4 DEF ClientCommand, Connect, Ping, Pong
    <3>. QED BY <3>1, ConnectionAssumption
  <2>2. Serve(cmd) = [server EXCEPT !.heard = cmd.payload]
    BY <1>4 DEF Serve
  <2>. QED BY <2>1, <2>2 DEF ServerState
<1>5. CASE cmd.type = "PONG"
  <2>1. Serve(cmd) = [server EXCEPT !.pongs = server.pongs + 1]
    BY <1>5 DEF Serve
  <2>. QED BY <1>1, <2>1 DEF ServerState
<1>6. CASE Serve(cmd) = server
  BY <1>6
<1>. QED BY <1>2, <1>3, <1>4, <1>5, <1>6 DEF Serve

\* The connection starts typed.
LEMMA TInvInit == Init => TInv
<1> SUFFICES ASSUME Init PROVE TInv
  OBVIOUS
<1> USE DEF Init, BindingInit
<1>1. FieldsTyped /\ CallerTyped
  BY NeverHeardTyped, NoSubscribersTyped DEF FieldsTyped, CallerTyped
<1>2. LoopTyped /\ StreamsTyped /\ UsersTyped
  BY ConnectionAssumption DEF LoopTyped, StreamsTyped, UsersTyped, Tickers
<1>3. ServerTyped
  <2>1. \A V : NoSubscribers \in BySid(V)
    BY BySidIs DEF NoSubscribers
  <2>. QED BY <2>1 DEF ServerTyped, ServerState
<1>4. HoldersAnswered /\ ChannelsBounded
  BY CapacityAssumption DEF HoldersAnswered, ChannelsBounded
<1>. QED BY <1>1, <1>2, <1>3, <1>4 DEF TInv

-----------------------------------------------------------------------------
(* The loop.                                                               *)

\* What polling returns is a time or None.
LEMMA PollTypedNext ==
    ASSUME FieldsTyped', NEW t \in Nat
    PROVE  /\ PollSendPingTimeout(t)' \in Nat \cup {None}
           /\ PollSendPongTimeout' \in Nat \cup {None}
           /\ PollKeepAliveTimeout' \in Nat \cup {None}
BY TimeoutsAssumption
   DEF FieldsTyped, KeepAliveState, PollSendPingTimeout, PollSendPongTimeout, PollKeepAliveTimeout

\* The end of an iteration leaves the tickers, the queue and the input their types.
LEMMA LoopKeepsTypes ==
    ASSUME TInv, FieldsTyped', NEW ticked \in Tickers, NEW queue \in Seq(ConnectionCommand),
           Len(queue) <= CommandCapacity, NEW input \in Seq(Inbound), Loop(ticked, queue, input)
    PROVE  LoopTyped' /\ inbound' \in Seq(Inbound)
<1>1. /\ task \in {"running", "ended"} /\ now' = now /\ now \in 0..MaxTime /\ tickers \in Tickers
      /\ MaxTime \in Nat /\ CommandCapacity \in Nat
  BY ConnectionAssumption DEF TInv, LoopTyped, Loop
<1>2. CASE conn_state' = "Panicked"
  <2>1. task' = "ended" /\ chan' = <<>> /\ inbound' = <<>> /\ tickers' = tickers
    BY <1>2 DEF Loop
  <2>. QED BY <1>1, <2>1 DEF LoopTyped
<1>3. CASE conn_state' # "Panicked"
  <2>1. chan' = queue /\ inbound' = input /\ task' = task
    BY <1>3 DEF Loop
  <2>2. tickers' \in Tickers
    <3>1. now \in Nat
      BY <1>1
    <3>2. tickers' = [ping |-> IF PollSendPingTimeout(now)' # None
                               THEN PollSendPingTimeout(now)' ELSE ticked.ping,
                      pong |-> IF PollSendPongTimeout' # None
                               THEN PollSendPongTimeout' ELSE ticked.pong,
                      keep_alive |-> IF PollKeepAliveTimeout' # None
                                     THEN PollKeepAliveTimeout' ELSE ticked.keep_alive]
      BY <1>3 DEF Loop
    <3>. QED BY <1>1, <3>1, <3>2, PollTypedNext DEF Tickers
  <2>. QED BY <1>1, <2>1, <2>2 DEF LoopTyped
<1>. QED BY <1>2, <1>3

\* The handlers of the binding, as the loop calls them: at no time but the past or now.
Handles ==
    \/ \E cmd \in ConnectionCommand : HandleClientInput(cmd)
    \/ \E cmd \in Inbound, t \in 0..now : HandleServerInput(cmd, t)
    \/ \E t \in 0..now : \/ HandleSendPingTimeout(t)
                          \/ HandleSendPongTimeout(t)
                          \/ HandleKeepAliveTimeout(t)

\* Only messages of type MSG look like one.
LEMMA InboundMessages == \A cmd \in Inbound : cmd.type = "MSG" => cmd \in Message
BY DEF Inbound, Message, HMessage, Info, SPing, SPong, OkOrErr, Eof, Garbled

\* No handler overfills a channel, and none takes an answer away.
LEMMA HandlesKeeps ==
    ASSUME TInv, Handles
    PROVE  FieldsTyped' /\ ChannelsBounded' /\ \A r \in Requests : answer[r] # None => answer'[r] # None
<1>. USE DEF TInv
<1>1. FieldsTyped'
  <2>1. ASSUME NEW cmd \in Inbound, NEW t \in Nat, HandleServerInput(cmd, t) PROVE FieldsTyped'
    BY <2>1, InboundMessages, ServerInputTyped
  <2>. QED BY <2>1, ClientInputTyped, TimeoutTyped DEF Handles
<1>2. CASE UNCHANGED <<answer, msg_chan>>
  BY <1>1, <1>2 DEF ChannelsBounded
<1>3. ASSUME NEW cmd \in ConnectionCommand, HandleClientInput(cmd)
      PROVE  ChannelsBounded' /\ \A r \in Requests : answer[r] # None => answer'[r] # None
  <2>1. UNCHANGED msg_chan
    BY <1>3 DEF HandleClientInput
  <2>. QED BY <1>3, <2>1, AnswersStay DEF ChannelsBounded
<1>4. ASSUME NEW cmd \in Inbound, NEW t \in Nat, HandleServerInput(cmd, t)
      PROVE  ChannelsBounded' /\ \A r \in Requests : answer[r] # None => answer'[r] # None
  <2>1. \A r \in Requests : answer[r] # None => answer'[r] # None
    BY <1>4, AnswersStay
  <2>2. CASE UNCHANGED msg_chan
    BY <2>1, <2>2 DEF ChannelsBounded
  <2>3. ASSUME ReceiveMsg(cmd), ~UNCHANGED msg_chan PROVE ChannelsBounded'
    <3>1. PICK q \in Requests : Len(msg_chan[q]) < ChanCapacity
                                /\ msg_chan' = [msg_chan EXCEPT ![q] = Append(@, cmd)]
      <4>1. sid2subscriber[cmd.sid] \in Requests
        BY <2>3, TableIs DEF ReceiveMsg, DeliverWithin, FieldsTyped
      <4>. QED BY <2>3, <4>1 DEF ReceiveMsg, DeliverWithin
    <3>2. msg_chan \in [Requests -> Seq(Message)] /\ ChanCapacity \in Nat
      BY CapacityAssumption DEF FieldsTyped
    <3>3. ASSUME NEW r \in Requests PROVE Len(msg_chan'[r]) <= ChanCapacity
      <4>1. Len(msg_chan[r]) \in Nat /\ Len(msg_chan[r]) <= ChanCapacity
        BY <3>2 DEF ChannelsBounded
      <4>2. msg_chan'[r] = msg_chan[r] \/ (r = q /\ msg_chan'[r] = Append(msg_chan[r], cmd))
        BY <3>1, <3>2
      <4>3. Len(Append(msg_chan[r], cmd)) = Len(msg_chan[r]) + 1
        BY <3>2
      <4>. QED BY <3>1, <3>2, <4>1, <4>2, <4>3
    <3>. QED BY <3>3 DEF ChannelsBounded
  <2>. QED BY <1>4, <2>1, <2>2, <2>3
           DEF HandleServerInput, ReceiveInfo, ReceiveNotInfo, ReceiveHMsg, ReceiveKeepAlive,
               Disregard, binding
<1>5. ASSUME NEW t \in Nat,
             HandleSendPingTimeout(t) \/ HandleSendPongTimeout(t) \/ HandleKeepAliveTimeout(t)
      PROVE  UNCHANGED <<answer, msg_chan>>
  BY <1>5 DEF HandleSendPingTimeout, HandleSendPongTimeout, HandleKeepAliveTimeout, Enqueue, binding
<1>. QED BY <1>1, <1>2, <1>3, <1>4, <1>5 DEF Handles

\* An iteration that calls a handler keeps the invariant.
LEMMA IterationTyped ==
    ASSUME TInv, Handles, NEW ticked \in Tickers, NEW queue \in Seq(ConnectionCommand),
           Len(queue) <= CommandCapacity, NEW input \in Seq(Inbound), Loop(ticked, queue, input),
           UNCHANGED <<caller, outbound, server, user>>
    PROVE  TInv'
<1>1. /\ FieldsTyped' /\ ChannelsBounded'
      /\ \A r \in Requests : answer[r] # None => answer'[r] # None
  BY HandlesKeeps
<1>2. LoopTyped' /\ inbound' \in Seq(Inbound)
  BY <1>1, LoopKeepsTypes
<1>3. holds' = holds /\ holds \subseteq Requests
  BY DEF user, TInv, UsersTyped
<1>4. HoldersAnswered'
  BY <1>1, <1>3 DEF TInv, HoldersAnswered
<1>. QED BY <1>1, <1>2, <1>4
         DEF TInv, CallerTyped, StreamsTyped, ServerTyped, UsersTyped, user

\* What the loop takes its input from is typed.
LEMMA HeadsTyped ==
    ASSUME TInv
    PROVE  /\ now \in Nat /\ \A ticker \in {"ping", "pong", "keep_alive"} :
                   tickers[ticker] \in Nat /\ Ticked(ticker) \in Tickers
           /\ chan \in Seq(ConnectionCommand) /\ Len(chan) <= CommandCapacity
           /\ chan # <<>> => /\ Head(chan) \in ConnectionCommand
                             /\ Tail(chan) \in Seq(ConnectionCommand)
                             /\ Len(Tail(chan)) <= CommandCapacity
           /\ inbound \in Seq(Inbound)
           /\ inbound # <<>> => Head(inbound) \in Inbound /\ Tail(inbound) \in Seq(Inbound)
           /\ tickers \in Tickers
<1>1. now \in Nat /\ tickers \in Tickers /\ Period \in Nat /\ CommandCapacity \in Nat
  BY ConnectionAssumption DEF TInv, LoopTyped
<1>2. \A ticker \in {"ping", "pong", "keep_alive"} :
          tickers[ticker] \in Nat /\ Ticked(ticker) \in Tickers
  BY <1>1 DEF Tickers, Ticked
<1>3. chan \in Seq(ConnectionCommand) /\ Len(chan) <= CommandCapacity /\ inbound \in Seq(Inbound)
  BY DEF TInv, LoopTyped, StreamsTyped
<1>. QED BY <1>1, <1>2, <1>3

\* Each branch of select! keeps the types.
LEMMA RunTyped ==
    ASSUME TInv, Run
    PROVE  TInv'
<1>1. CASE TickPing
  <2>1. Handles
    BY <1>1, HeadsTyped DEF TickPing, Handles
  <2>. QED BY <1>1, <2>1, HeadsTyped, IterationTyped DEF TickPing
<1>2. CASE TickPong
  <2>1. Handles
    BY <1>2, HeadsTyped DEF TickPong, Handles
  <2>. QED BY <1>2, <2>1, HeadsTyped, IterationTyped DEF TickPong
<1>3. CASE TickKeepAlive
  <2>1. Handles
    BY <1>3, HeadsTyped DEF TickKeepAlive, Handles
  <2>. QED BY <1>3, <2>1, HeadsTyped, IterationTyped DEF TickKeepAlive
<1>4. CASE RecvCommand
  <2>1. Handles
    BY <1>4, HeadsTyped DEF RecvCommand, Handles
  <2>. QED BY <1>4, <2>1, HeadsTyped, IterationTyped DEF RecvCommand
<1>5. CASE ReadCommand
  <2>1. Handles
    BY <1>5, HeadsTyped DEF ReadCommand, Handles
  <2>. QED BY <1>5, <2>1, HeadsTyped, IterationTyped DEF ReadCommand
<1>6. CASE ReadError
  <2>1. FieldsTyped'
    BY <1>6 DEF ReadError, TInv, FieldsTyped, binding, inner
  <2>2. <<Eof>> \in Seq(Inbound)
    BY DEF Inbound
  <2>3. LoopTyped' /\ inbound' \in Seq(Inbound)
    BY <1>6, <2>1, <2>2, HeadsTyped, LoopKeepsTypes DEF ReadError
  <2>. QED BY <1>6, <2>1, <2>3
           DEF ReadError, TInv, CallerTyped, StreamsTyped, ServerTyped, UsersTyped,
               HoldersAnswered, ChannelsBounded, user, binding
<1>7. CASE ReadEof
  <2>1. /\ task' = "ended" /\ Leave(conn_state) /\ chan' = <<>> /\ inbound' = <<>>
        /\ UNCHANGED <<answer, msg_chan, tickers, caller, outbound, server, user, now>>
    BY <1>7 DEF ReadEof
  <2>2. FieldsTyped'
    BY <2>1, NeverHeardTyped, NoSubscribersTyped DEF TInv, FieldsTyped, Leave
  <2>3. LoopTyped' /\ StreamsTyped'
    BY <2>1, ConnectionAssumption DEF TInv, LoopTyped, StreamsTyped
  <2>. QED BY <2>1, <2>2, <2>3
           DEF TInv, CallerTyped, ServerTyped, UsersTyped, HoldersAnswered, ChannelsBounded, user
<1>8. CASE Transmit
  <2>1. /\ buffered_transmits # <<>> /\ buffered_transmits' = Tail(buffered_transmits)
        /\ UNCHANGED <<conn_state, preliminary, keep_alive, sid_generator, sid2subscriber,
                       answer, msg_chan>>
        /\ UNCHANGED <<caller, loop, inbound, server, user, now>>
    BY <1>8 DEF Transmit, PollTransmit
  <2>2. FieldsTyped' /\ Head(buffered_transmits) \in ClientCommand
    BY <2>1 DEF TInv, FieldsTyped
  <2>3. StreamsTyped'
    <3>1. CASE UNCHANGED outbound
      BY <2>1, <3>1 DEF TInv, StreamsTyped
    <3>2. CASE Len(outbound) < TcpCapacity
               /\ outbound' = Append(outbound, [command |-> Head(buffered_transmits), at |-> now])
      <4> DEFINE sent == [command |-> Head(buffered_transmits), at |-> now]
      <4>1. sent \in [command : ClientCommand, at : Nat] /\ TcpCapacity \in Nat
        BY <2>2, HeadsTyped, ConnectionAssumption
      <4> HIDE DEF sent
      <4>2. outbound' = Append(outbound, sent)
        BY <3>2 DEF sent
      <4>. QED BY <2>1, <3>2, <4>1, <4>2 DEF TInv, StreamsTyped
    <3>. QED BY <1>8, <3>1, <3>2 DEF Transmit
  <2>. QED BY <2>1, <2>2, <2>3
           DEF TInv, CallerTyped, LoopTyped, ServerTyped, UsersTyped, HoldersAnswered,
               ChannelsBounded, user, loop
<1>. QED BY <1>1, <1>2, <1>3, <1>4, <1>5, <1>6, <1>7, <1>8 DEF Run

-----------------------------------------------------------------------------
(* Users, the server and time.                                             *)

\* A command is offered only while there is room for it.
LEMMA OfferTyped ==
    ASSUME TInv, NEW cmd \in ConnectionCommand, Offer(cmd)
    PROVE  chan' \in Seq(ConnectionCommand) /\ Len(chan') <= CommandCapacity
<1>1. chan \in Seq(ConnectionCommand) /\ CommandCapacity \in Nat
  BY ConnectionAssumption DEF TInv, LoopTyped
<1>. QED BY <1>1 DEF Offer

\* Dropping the ends of a request keeps the fields, and can only empty its channel.
LEMMA DropTyped ==
    ASSUME TInv, NEW r \in Requests, DropReceiver(r)
    PROVE  FieldsTyped' /\ CallerTyped' /\ HoldersAnswered /\ ChannelsBounded' /\ UNCHANGED answer
<1>1. FieldsTyped' /\ CallerTyped' /\ UNCHANGED answer
  BY DEF DropReceiver, TInv, FieldsTyped, CallerTyped, inner
<1>2. \A q \in Requests : msg_chan'[q] = msg_chan[q] \/ msg_chan'[q] = <<>>
  BY DEF DropReceiver, TInv, FieldsTyped
<1>3. ChannelsBounded'
  BY <1>2, CapacityAssumption DEF TInv, ChannelsBounded
<1>. QED BY <1>1, <1>3 DEF TInv

\* Each step of a user keeps the types.
LEMMA UsersKeepTypes ==
    ASSUME TInv, Users
    PROVE  TInv'
<1> USE DEF TInv
<1>1. ASSUME NEW r \in Requests, CallSubscribe(r) PROVE TInv'
  <2>1. CallerTyped' /\ UNCHANGED <<binding, task, tickers, net, user, now>>
    BY <1>1 DEF CallSubscribe, CallerTyped
  <2>2. Subscribe(r, MaxMsgs[r]) \in ConnectionCommand
    BY ConnectionAssumption DEF Subscribe, ConnectionCommand
  <2>3. LoopTyped'
    BY <1>1, <2>1, <2>2, OfferTyped DEF CallSubscribe, LoopTyped
  <2>. QED BY <2>1, <2>3
           DEF FieldsTyped, StreamsTyped, ServerTyped, UsersTyped, HoldersAnswered,
               ChannelsBounded, binding, inner, net, user
<1>2. ASSUME NEW r \in Requests, SubscribeReturns(r) PROVE TInv'
  <2>1. UNCHANGED <<loop, net, taken, published, now>>
    BY <1>2 DEF SubscribeReturns
  <2>2. CASE answer[r] # None /\ holds' = holds \cup {r} /\ UNCHANGED <<crashed, binding, caller>>
    BY <2>1, <2>2
       DEF FieldsTyped, CallerTyped, LoopTyped, StreamsTyped, ServerTyped, UsersTyped,
           HoldersAnswered, ChannelsBounded, binding, inner, loop, net
  <2>3. CASE crashed' = crashed \cup {r} /\ DropReceiver(r) /\ UNCHANGED holds
    BY <2>1, <2>3, DropTyped
       DEF LoopTyped, StreamsTyped, ServerTyped, UsersTyped, HoldersAnswered, loop, net
  <2>. QED BY <1>2, <2>2, <2>3 DEF SubscribeReturns
<1>3. ASSUME NEW r \in Requests, CancelSubscribe(r) PROVE TInv'
  BY <1>3, DropTyped
     DEF CancelSubscribe, LoopTyped, StreamsTyped, ServerTyped, UsersTyped, HoldersAnswered,
         loop, net, user
<1>4. ASSUME NEW r \in Requests, NextMessage(r) PROVE TInv'
  <2>1. /\ caller[r] = "live" /\ msg_chan[r] # <<>>
        /\ msg_chan' = [msg_chan EXCEPT ![r] = Tail(@)]
        /\ UNCHANGED <<conn_state, preliminary, inner, answer, caller>>
        /\ taken' = [taken EXCEPT ![r] = Head(msg_chan[r]).payload]
        /\ UNCHANGED <<loop, net, holds, published, crashed, now>>
    BY <1>4 DEF NextMessage, TakeMsg
  <2>2. /\ msg_chan[r] \in Seq(Message) /\ msg_chan \in [Requests -> Seq(Message)]
        /\ ChanCapacity \in Nat /\ Payloads \subseteq Nat
    BY CapacityAssumption, ConnectionAssumption DEF FieldsTyped
  <2>3. Head(msg_chan[r]).payload \in Nat
    <3>1. Head(msg_chan[r]) \in Message
      BY <2>1, <2>2
    <3>. QED BY <2>2, <3>1 DEF Message
  <2>4. UsersTyped'
    BY <2>1, <2>3 DEF UsersTyped
  <2>5. msg_chan' \in [Requests -> Seq(Message)] /\ ChannelsBounded'
    BY <2>1, <2>2 DEF ChannelsBounded
  <2>. QED BY <2>1, <2>4, <2>5
           DEF FieldsTyped, CallerTyped, LoopTyped, StreamsTyped, ServerTyped, HoldersAnswered,
               inner, loop, net
<1>5. ASSUME NEW r \in Requests, DropSubscriber(r) PROVE TInv'
  <2>1. /\ r \in holds /\ DropReceiver(r) /\ UNCHANGED <<task, tickers, net, holds, taken, published, now>>
    BY <1>5 DEF DropSubscriber
  <2>2. LoopTyped' /\ UsersTyped'
    <3>1. CASE Offer(Unsubscribe(answer[r])) /\ UNCHANGED crashed
      <4>1. Unsubscribe(answer[r]) \in ConnectionCommand
        BY <2>1 DEF HoldersAnswered, FieldsTyped, Unsubscribe, ConnectionCommand
      <4>. QED BY <2>1, <3>1, <4>1, OfferTyped DEF LoopTyped, UsersTyped
    <3>2. CASE crashed' = crashed \cup {r} /\ UNCHANGED chan
      BY <2>1, <3>2 DEF LoopTyped, UsersTyped
    <3>. QED BY <1>5, <3>1, <3>2 DEF DropSubscriber
  <2>. QED BY <2>1, <2>2, DropTyped DEF StreamsTyped, ServerTyped, HoldersAnswered, net
<1>6. CASE CallPublish
  <2>1. UNCHANGED <<binding, caller, task, tickers, net, holds, taken, now>>
    BY <1>6 DEF CallPublish
  <2>2. LoopTyped' /\ UsersTyped'
    <3>1. CASE Offer(Publish(published + 1)) /\ published' = published + 1 /\ UNCHANGED crashed
      <4>1. Publish(published + 1) \in ConnectionCommand
        <5>1. published + 1 \in 1..MaxPublishes
          BY <1>6, ConnectionAssumption DEF CallPublish, UsersTyped
        <5>. QED BY <5>1, ConnectionAssumption DEF Publish, ConnectionCommand
      <4>. QED BY <2>1, <3>1, <4>1, OfferTyped DEF LoopTyped, UsersTyped
    <3>2. CASE crashed' = crashed \cup {"publisher"} /\ UNCHANGED <<chan, published>>
      BY <2>1, <3>2 DEF LoopTyped, UsersTyped
    <3>. QED BY <1>6, <3>1, <3>2 DEF CallPublish
  <2>. QED BY <2>1, <2>2
           DEF FieldsTyped, CallerTyped, StreamsTyped, ServerTyped, HoldersAnswered,
               ChannelsBounded, binding, inner, net
<1>. QED BY <1>1, <1>2, <1>3, <1>4, <1>5, <1>6, ConnectionAssumption DEF Users

\* A step of the server that is typed keeps the rest.
LEMMA ServerStepTyped ==
    ASSUME TInv, ServerTyped', inbound' \in Seq(Inbound), UNCHANGED <<binding, caller, loop, user, now>>,
           outbound' = outbound \/ (outbound # <<>> /\ outbound' = Tail(outbound))
    PROVE  TInv'
<1> DEFINE Written == [command : ClientCommand, at : Nat]
<1>1. outbound \in Seq(Written) /\ Len(outbound) <= TcpCapacity /\ TcpCapacity \in Nat
  BY ConnectionAssumption DEF TInv, StreamsTyped
<1>2. outbound' \in Seq(Written) /\ Len(outbound') <= TcpCapacity
  <2> HIDE DEF Written
  <2>. QED BY <1>1
<1>. QED BY <1>2
         DEF TInv, FieldsTyped, CallerTyped, LoopTyped, StreamsTyped, UsersTyped,
             HoldersAnswered, ChannelsBounded, binding, inner, loop, user

\* Each step of the server keeps the types.
LEMMA ServerKeepsTypes ==
    ASSUME TInv, Server
    PROVE  TInv'
<1>1. /\ server \in ServerState /\ DOMAIN server.subs \subseteq DOMAIN server.serials
      /\ inbound \in Seq(Inbound) /\ outbound \in Seq([command : ClientCommand, at : Nat])
      /\ now \in Nat
  BY HeadsTyped DEF TInv, ServerTyped, StreamsTyped
<1>2. ASSUME NEW item \in Inbound, ServerSends(item), ServerTyped' PROVE TInv'
  <2>1. inbound' \in Seq(Inbound) /\ UNCHANGED <<binding, caller, loop, outbound, user, now>>
    BY <1>1, <1>2 DEF ServerSends
  <2>. QED BY <1>2, <2>1, ServerStepTyped
<1>3. Info \in Inbound /\ OkOrErr \in Inbound /\ SPing \in Inbound /\ SPong \in Inbound
      /\ Eof \in Inbound /\ Garbled \in Inbound
  BY DEF Inbound
<1>4. CASE Greet
  <2>1. ServerTyped'
    BY <1>1, <1>4 DEF Greet, ServerTyped, ServerState
  <2>. QED BY <1>2, <1>3, <1>4, <2>1 DEF Greet
<1>5. CASE ServerReads
  <2> DEFINE cmd == Head(outbound).command
             Written == [command : ClientCommand, at : Nat]
  <2>1. cmd \in ClientCommand /\ server' = Serve(cmd)
    <3>1. outbound \in Seq(Written) /\ outbound # <<>>
      BY <1>1, <1>5 DEF ServerReads
    <3>2. Head(outbound) \in Written
      <4> HIDE DEF Written
      <4>. QED BY <3>1
    <3>3. cmd \in ClientCommand
      BY <3>2
    <3>4. server' = Serve(cmd)
      BY <1>5 DEF ServerReads
    <3>. QED BY <3>3, <3>4
  <2>2. ServerTyped'
    BY <2>1, ServeTyped DEF TInv, ServerTyped
  <2>3. inbound' \in Seq(Inbound)
    <3>1. inbound' = Append(inbound, SPong) \/ inbound' = inbound
      BY <1>5 DEF ServerReads
    <3>. QED BY <1>1, <1>3, <3>1
  <2>4. /\ UNCHANGED <<binding, caller, loop, user, now>>
        /\ outbound # <<>> /\ outbound' = Tail(outbound)
    BY <1>5, Zenon DEF ServerReads
  <2>. QED BY <2>2, <2>3, <2>4, ServerStepTyped, Zenon
<1>6. CASE ServerPings
  <2>1. ServerTyped'
    <3>1. server' = [server EXCEPT !.pings = @ + 1]
      BY <1>6, Zenon DEF ServerPings
    <3>2. /\ server' \in ServerState
          /\ server'.subs = server.subs /\ server'.serials = server.serials
      <4>1. server \in ServerState
        BY <1>1, Zenon
      <4>2. server.pings + 1 \in Nat
        BY <4>1 DEF ServerState
      <4>3. server' = [server EXCEPT !.pings = server.pings + 1]
        BY <3>1, Zenon
      <4> DEFINE pings == server.pings + 1
      <4> HIDE DEF pings
      <4>4. server' = [server EXCEPT !.pings = pings] /\ pings \in Nat
        BY <4>2, <4>3, Zenon DEF pings
      <4>. QED BY <4>1, <4>4 DEF ServerState
    <3>. QED BY <1>1, <3>2 DEF ServerTyped
  <2>. QED BY <1>2, <1>3, <1>6, <2>1 DEF ServerPings
<1>7. CASE ServerGarbles
  BY <1>2, <1>3, <1>7 DEF ServerGarbles, TInv, ServerTyped
<1>8. CASE ServerCloses
  <2>1. ServerTyped'
    BY <1>1, <1>8 DEF ServerCloses, ServerTyped, ServerState
  <2>. QED BY <1>2, <1>3, <1>8, <2>1 DEF ServerCloses
<1>9. CASE ServerHangs
  <2>1. ServerTyped'
    BY <1>1, <1>9 DEF ServerHangs, ServerTyped, ServerState
  <2>. QED BY <1>1, <1>9, <2>1, ServerStepTyped DEF ServerHangs
<1>10. ASSUME NEW sid \in DOMAIN server.subs, ServerDelivers(sid) PROVE TInv'
  <2> DEFINE serial  == server.serials[sid] + 1
             subs    == IF server.subs[sid] = serial THEN Without(server.subs, sid) ELSE server.subs
             serials == [server.serials EXCEPT ![sid] = serial]
  <2>1. server.serials \in BySid(Nat) /\ server.subs \in BySid(Limits \cup {None})
    BY <1>1 DEF ServerState
  <2>2. sid \in Nat /\ sid \in DOMAIN server.serials /\ server.serials[sid] \in Nat
    BY <1>1, <2>1, BySidIs
  <2>3. serial \in Payloads /\ serial \in Nat
    <3>1. serial \in 1..MaxSerial
      BY <1>10, <2>2, ConnectionAssumption DEF ServerDelivers
    <3>. QED BY <3>1, ConnectionAssumption
  <2>4. server' = [server EXCEPT !.serials = serials, !.subs = subs]
    BY <1>10 DEF ServerDelivers
  <2>5. \/ ServerSends([type |-> "MSG", sid |-> sid, payload |-> serial])
        \/ ServerSends([type |-> "HMSG", sid |-> sid, payload |-> serial])
    BY <1>10 DEF ServerDelivers
  <2>6. /\ [type |-> "MSG", sid |-> sid, payload |-> serial] \in Inbound
        /\ [type |-> "HMSG", sid |-> sid, payload |-> serial] \in Inbound
    BY <2>2, <2>3 DEF Inbound, Message, HMessage
  <2>7. serials \in BySid(Nat)
    BY <2>1, <2>2, <2>3, BySidExcept
  <2>8. subs \in BySid(Limits \cup {None}) /\ DOMAIN subs \subseteq DOMAIN server.subs
    BY <2>1, BySidWithout
  <2>9. DOMAIN serials = DOMAIN server.serials
    OBVIOUS
  <2> HIDE DEF serials, subs
  <2>10. ServerTyped'
    BY <1>1, <2>4, <2>7, <2>8, <2>9 DEF ServerTyped, ServerState
  <2>. QED BY <1>2, <2>5, <2>6, <2>10
<1>. QED BY <1>4, <1>5, <1>6, <1>7, <1>8, <1>9, <1>10 DEF Server

\* The invariant is inductive.
LEMMA TInvStep == TInv /\ [Next]_cvars => TInv'
<1> SUFFICES ASSUME TInv, [Next]_cvars PROVE TInv'
  OBVIOUS
<1>1. CASE Tick
  <2>1. now' \in 0..MaxTime
    BY <1>1, ConnectionAssumption DEF Tick, TInv, LoopTyped
  <2>. QED BY <1>1, <2>1
           DEF Tick, TInv, FieldsTyped, CallerTyped, LoopTyped, StreamsTyped, ServerTyped,
               UsersTyped, HoldersAnswered, ChannelsBounded, binding, inner, loop, net, user
<1>2. CASE UNCHANGED cvars
  BY <1>2
     DEF TInv, FieldsTyped, CallerTyped, LoopTyped, StreamsTyped, ServerTyped,
         UsersTyped, HoldersAnswered, ChannelsBounded, cvars, binding, inner, loop, net, user
<1>. QED BY <1>1, <1>2, RunTyped, UsersKeepTypes, ServerKeepsTypes DEF Next

\* Every reachable state of the client, its users and the server is typed, with no channel
\* over its bound and a receiver only for callers that are answered: the inductive invariant.
THEOREM TypesInvariant == Spec => []TInv
BY TInvInit, TInvStep, PTL DEF Spec

\* In particular the type invariant of the runs holds, for every number of requests and
\* every bound of the queues, the socket and the channels.
THEOREM TypesCorrect == Spec => []TypeOK
BY TypesInvariant, TInvTypes, PTL

-----------------------------------------------------------------------------
(* Panics of the connection's task.                                        *)

\* The task of run() panics only while a receiver is gone, a channel is full, or a message
\* with headers comes in: no other unwrap on its paths can fail.
THEOREM PanicsCorrect == Spec => PanicsOnlyOnGoneOrSlow
<1> DEFINE Cause == conn_state # "Panicked" /\ conn_state' = "Panicked" =>
                        \/ \E r \in Requests : caller[r] = "gone" \/ Len(msg_chan[r]) = ChanCapacity
                        \/ inbound # <<>> /\ Head(inbound).type = "HMSG"
<1>1. TInv /\ [Next]_cvars => [Cause]_cvars
  <2> SUFFICES ASSUME TInv, Next, conn_state # "Panicked", conn_state' = "Panicked"
               PROVE  \/ \E r \in Requests : caller[r] = "gone" \/ Len(msg_chan[r]) = ChanCapacity
                      \/ inbound # <<>> /\ Head(inbound).type = "HMSG"
    OBVIOUS
  <2>1. FieldsTyped /\ \A r \in Requests : Len(msg_chan[r]) <= ChanCapacity
    BY DEF TInv, ChannelsBounded
  <2>2. CASE RecvCommand
    BY <2>1, <2>2, PanicsOn, HeadsTyped DEF RecvCommand
  <2>3. CASE ReadCommand
    BY <2>1, <2>3, PanicsOn DEF ReadCommand
  <2>4. CASE UNCHANGED conn_state
    BY <2>4
  <2>5. CASE TickPing \/ TickPong \/ TickKeepAlive
    BY <2>5
       DEF TickPing, TickPong, TickKeepAlive, HandleSendPingTimeout, HandleSendPongTimeout,
           HandleKeepAliveTimeout, Enqueue, Leave, binding
  <2>6. CASE Transmit \/ ReadError \/ ReadEof \/ Tick
    BY <2>6 DEF Transmit, PollTransmit, ReadError, ReadEof, Leave, Tick, binding
  <2>7. CASE Users
    BY <2>7
       DEF Users, CallSubscribe, SubscribeReturns, NextMessage, TakeMsg, CancelSubscribe,
           DropSubscriber, DropReceiver, CallPublish, binding
  <2>8. CASE Server
    BY <2>8
       DEF Server, Greet, ServerReads, ServerPings, ServerGarbles, ServerCloses, ServerHangs,
           ServerDelivers, ServerSends, binding
  <2>. QED BY <2>2, <2>3, <2>4, <2>5, <2>6, <2>7, <2>8 DEF Next, Run
<1>. QED BY <1>1, TypesInvariant, PTL DEF Spec, PanicsOnlyOnGoneOrSlow

-----------------------------------------------------------------------------
(* Deadlines.                                                              *)

\* No timestamp is in the future.
TimesPast == \A field \in DOMAIN keep_alive : keep_alive[field] # None => keep_alive[field] <= now

\* The tickers stand at the deadlines of the binding.
Polled ==
    /\ IF keep_alive.last_ping_sent_at = None
       THEN tickers.ping <= now
       ELSE tickers.ping = keep_alive.last_ping_sent_at + PingInterval
    /\ keep_alive.last_ping_received_at # None =>
           tickers.pong = keep_alive.last_ping_received_at + PongDelay
    /\ keep_alive.last_pong_received_at # None =>
           tickers.keep_alive = keep_alive.last_pong_received_at + KeepAlive

Deadlines == TimesPast /\ (Live => Polled)

\* Before INFO there are no deadlines.
LEMMA DeadlinesInit == Init => Deadlines
BY DEF Init, BindingInit, NeverHeard, Deadlines, TimesPast, Live

\* A handler stamps the time it is given.
LEMMA HandlesPast ==
    ASSUME TInv, TimesPast, Handles, UNCHANGED now
    PROVE  TimesPast'
<1>1. keep_alive \in KeepAliveState /\ now \in Nat
  BY HeadsTyped DEF TInv, FieldsTyped
<1>2. CASE UNCHANGED keep_alive
  BY <1>2 DEF TimesPast
<1>3. ASSUME keep_alive' = NeverHeard PROVE TimesPast'
  BY <1>3 DEF TimesPast, NeverHeard
<1>4. ASSUME NEW field \in {"last_ping_sent_at", "last_ping_received_at", "last_pong_received_at"},
             NEW t \in (0..now) \cup {None}, keep_alive' = [keep_alive EXCEPT ![field] = t]
      PROVE  TimesPast'
  BY <1>1, <1>4 DEF TimesPast, KeepAliveState
<1>5. ASSUME NEW cmd \in ConnectionCommand, HandleClientInput(cmd) PROVE TimesPast'
  BY <1>2, <1>3, <1>5 DEF HandleClientInput, Become, Leave, inner
<1>6. ASSUME NEW cmd \in Inbound, NEW t \in 0..now, HandleServerInput(cmd, t) PROVE TimesPast'
  BY <1>2, <1>3, <1>4, <1>6
     DEF HandleServerInput, ReceiveInfo, Become, ReceiveNotInfo, ReceiveMsg, DeliverWithin,
         ReceiveHMsg, ReceiveKeepAlive, Disregard, Leave, binding, inner
<1>7. ASSUME NEW t \in 0..now,
             HandleSendPingTimeout(t) \/ HandleSendPongTimeout(t) \/ HandleKeepAliveTimeout(t)
      PROVE  TimesPast'
  BY <1>2, <1>3, <1>4, <1>7
     DEF HandleSendPingTimeout, HandleSendPongTimeout, HandleKeepAliveTimeout, Enqueue, Leave,
         binding, inner
<1>. QED BY <1>5, <1>6, <1>7 DEF Handles

\* The end of an iteration sets every ticker to what the binding polls.
LEMMA LoopPolls ==
    ASSUME FieldsTyped', now \in Nat, NEW ticked, NEW queue, NEW input, Loop(ticked, queue, input)
    PROVE  (Live => Polled)'
<1> SUFFICES ASSUME conn_state' = "InfoReceived" PROVE Polled'
  BY DEF Live
<1>1. /\ now' = now
      /\ tickers' = [ping |-> IF PollSendPingTimeout(now)' # None
                              THEN PollSendPingTimeout(now)' ELSE ticked.ping,
                     pong |-> IF PollSendPongTimeout' # None
                              THEN PollSendPongTimeout' ELSE ticked.pong,
                     keep_alive |-> IF PollKeepAliveTimeout' # None
                                    THEN PollKeepAliveTimeout' ELSE ticked.keep_alive]
  BY DEF Loop
<1>2. keep_alive' \in KeepAliveState
  BY DEF FieldsTyped
<1>. QED BY <1>1, <1>2, NoneAssumption, TimeoutsAssumption
         DEF Polled, PollSendPingTimeout, PollSendPongTimeout, PollKeepAliveTimeout, KeepAliveState

\* Every step keeps the tickers in step with what the binding polls.
LEMMA DeadlinesStep == TInv /\ Deadlines /\ [Next]_cvars => Deadlines'
<1> SUFFICES ASSUME TInv, Deadlines, [Next]_cvars PROVE Deadlines'
  OBVIOUS
<1>1. now \in Nat /\ keep_alive \in KeepAliveState /\ tickers \in Tickers
  BY HeadsTyped DEF TInv, FieldsTyped
<1>2. ASSUME Handles, NEW ticked, NEW queue, NEW input, Loop(ticked, queue, input)
      PROVE  Deadlines'
  <2>1. UNCHANGED now
    BY <1>2 DEF Loop
  <2>. QED BY <1>1, <1>2, <2>1, HandlesKeeps, HandlesPast, LoopPolls DEF Deadlines
<1>3. CASE TickPing
  <2>1. Handles
    BY <1>3, HeadsTyped DEF TickPing, Handles
  <2>. QED BY <1>2, <1>3, <2>1 DEF TickPing
<1>4. CASE TickPong
  <2>1. Handles
    BY <1>4, HeadsTyped DEF TickPong, Handles
  <2>. QED BY <1>2, <1>4, <2>1 DEF TickPong
<1>5. CASE TickKeepAlive
  <2>1. Handles
    BY <1>5, HeadsTyped DEF TickKeepAlive, Handles
  <2>. QED BY <1>2, <1>5, <2>1 DEF TickKeepAlive
<1>6. CASE RecvCommand
  <2>1. Handles
    BY <1>6, HeadsTyped DEF RecvCommand, Handles
  <2>. QED BY <1>2, <1>6, <2>1 DEF RecvCommand
<1>7. CASE ReadCommand
  <2>1. Handles
    BY <1>7, HeadsTyped DEF ReadCommand, Handles
  <2>. QED BY <1>2, <1>7, <2>1 DEF ReadCommand
<1>8. CASE ReadError
  <2>1. FieldsTyped' /\ UNCHANGED <<keep_alive, now>>
    BY <1>8 DEF ReadError, Loop, TInv, FieldsTyped, binding, inner
  <2>. QED BY <1>1, <1>8, <2>1, LoopPolls DEF ReadError, Deadlines, TimesPast
<1>9. CASE ReadEof
  BY <1>9 DEF ReadEof, Leave, NeverHeard, Deadlines, TimesPast, Live
<1>10. CASE Tick
  <2>1. UNCHANGED <<keep_alive, tickers, task, conn_state>> /\ now' = now + 1
    BY <1>10 DEF Tick, binding, inner, loop
  <2>2. TimesPast'
    BY <1>1, <2>1 DEF Deadlines, TimesPast, KeepAliveState
  <2>3. Live' => Polled'
    BY <1>1, <2>1 DEF Deadlines, Polled, Live, Tickers
  <2>. QED BY <2>2, <2>3 DEF Deadlines
<1>11. CASE UNCHANGED <<keep_alive, tickers, task, conn_state, now>>
  BY <1>11 DEF Deadlines, TimesPast, Polled, Live
<1>12. CASE Transmit
  BY <1>11, <1>12 DEF Transmit, PollTransmit, loop
<1>13. CASE Users
  BY <1>11, <1>13
     DEF Users, CallSubscribe, SubscribeReturns, NextMessage, TakeMsg, CancelSubscribe,
         DropSubscriber, DropReceiver, CallPublish, binding, inner, loop
<1>14. CASE Server
  BY <1>11, <1>14
     DEF Server, Greet, ServerReads, ServerPings, ServerGarbles, ServerCloses, ServerHangs,
         ServerDelivers, ServerSends, binding, inner, loop
<1>. QED BY <1>3, <1>4, <1>5, <1>6, <1>7, <1>8, <1>9, <1>10, <1>11, <1>12, <1>13, <1>14
         DEF Next, Run, cvars, binding, inner, loop

\* When the loop has nothing to do, no handler of the binding would act: whatever the
\* intervals, and however long the socket was blocked before.
THEOREM DeadlinesKept == Spec => []IdleMeansNothingDue
<1>1. TInv /\ Deadlines => IdleMeansNothingDue
  <2> SUFFICES ASSUME TInv, Deadlines, Live, Idle, ~Blocked
               PROVE  ~PingDue(now) /\ ~PongDue(now) /\ ~LossDue(now)
    BY DEF IdleMeansNothingDue
  <2>1. now \in Nat /\ keep_alive \in KeepAliveState /\ tickers \in Tickers
    BY HeadsTyped DEF TInv, FieldsTyped
  <2>2. tickers.ping > now /\ tickers.pong > now /\ tickers.keep_alive > now
    BY <2>1 DEF Live, Idle, Tickers
  <2>3. ASSUME NEW field \in {"last_ping_sent_at", "last_ping_received_at", "last_pong_received_at"},
               keep_alive[field] # None
        PROVE  keep_alive[field] \in Nat /\ keep_alive[field] <= now
    BY <2>1, <2>3 DEF Deadlines, TimesPast, KeepAliveState
  <2>4. /\ keep_alive.last_ping_sent_at # None
        /\ tickers.ping = keep_alive.last_ping_sent_at + PingInterval
    <3>1. tickers.ping \in Nat
      BY <2>1 DEF Tickers
    <3>. QED BY <2>1, <2>2, <3>1 DEF Deadlines, Polled
  <2>5. ~PingDue(now)
    BY <2>1, <2>2, <2>3, <2>4, TimeoutsAssumption DEF PingDue, Elapsed
  <2>6. ~PongDue(now)
    BY <2>1, <2>2, <2>3, TimeoutsAssumption DEF Deadlines, Polled, PongDue, Elapsed
  <2>7. ~LossDue(now)
    BY <2>1, <2>2, <2>3, TimeoutsAssumption DEF Deadlines, Polled, LossDue, Elapsed
  <2>. QED BY <2>5, <2>6, <2>7
<1>. QED BY <1>1, TInvInit, TInvStep, DeadlinesInit, DeadlinesStep, PTL DEF Spec

-----------------------------------------------------------------------------
(* Panics of the users.                                                    *)

Asks(cmd, r) == cmd.type = "Subscribe" /\ cmd.request = r
HeldIn(queue, r) == \E i \in DOMAIN queue : Asks(queue[i], r)

\* A request is held in the command queue or in the backlog.
LEMMA HeldParts == \A r : Held(r) <=> HeldIn(chan, r) \/ HeldIn(preliminary, r)
BY DEF Held, HeldIn, Asks
\* The same of the next state.
LEMMA HeldPartsNext == \A r : Held(r)' <=> HeldIn(chan', r) \/ HeldIn(preliminary', r)
BY DEF Held, HeldIn, Asks

\* What is held after adding to a queue and taking from it.
LEMMA HeldInQueues ==
    ASSUME NEW queue \in Seq(ConnectionCommand), NEW r
    PROVE  /\ \A cmd \in ConnectionCommand :
                  HeldIn(Append(queue, cmd), r) <=> HeldIn(queue, r) \/ Asks(cmd, r)
           /\ queue # <<>> /\ HeldIn(queue, r) => Asks(Head(queue), r) \/ HeldIn(Tail(queue), r)
<1>1. ASSUME NEW cmd \in ConnectionCommand
      PROVE  HeldIn(Append(queue, cmd), r) <=> HeldIn(queue, r) \/ Asks(cmd, r)
  <2> DEFINE N == Len(queue)
  <2>1. /\ N \in Nat /\ DOMAIN queue = 1..N /\ DOMAIN Append(queue, cmd) = 1..(N + 1)
        /\ \A i \in 1..N : Append(queue, cmd)[i] = queue[i]
        /\ Append(queue, cmd)[N + 1] = cmd
    OBVIOUS
  <2>2. 1..(N + 1) = 1..N \cup {N + 1}
    BY <2>1
  <2> HIDE DEF N
  <2>. QED BY <2>1, <2>2 DEF HeldIn
<1>2. ASSUME queue # <<>>, NEW i \in DOMAIN queue, Asks(queue[i], r)
      PROVE  Asks(Head(queue), r) \/ HeldIn(Tail(queue), r)
  <2>1. CASE i = 1
    BY <1>2, <2>1
  <2>2. CASE i # 1
    <3>1. i - 1 \in DOMAIN Tail(queue) /\ Tail(queue)[i - 1] = queue[i]
      BY <1>2, <2>2
    <3>. QED BY <1>2, <3>1 DEF HeldIn
  <2>. QED BY <2>1, <2>2
<1>. QED BY <1>1, <1>2 DEF HeldIn

\* Once INFO has come there is no backlog.
NoBacklog == conn_state # "AwaitingInfo" => preliminary = <<>>

\* Whoever waits has an answer, or a command that will be answered.
Heeded ==
    task = "running" /\ conn_state \notin Terminal =>
        \A r \in Requests : caller[r] = "live" /\ answer[r] = None => Held(r)

\* A command of the queue is answered or joins the backlog.
LEMMA ClientInputHeeds ==
    ASSUME TInv, NoBacklog, NEW cmd \in ConnectionCommand, HandleClientInput(cmd)
    PROVE  /\ NoBacklog'
           /\ conn_state' \notin Terminal =>
                  /\ conn_state \notin Terminal
                  /\ \A r \in Requests :
                         answer'[r] = None =>
                             /\ answer[r] = None
                             /\ HeldIn(preliminary, r) \/ Asks(cmd, r) => HeldIn(preliminary', r)
<1>1. \A r \in Requests : answer'[r] = None => answer[r] = None
  BY AnswersStay DEF TInv
<1>2. CASE conn_state = "InfoReceived"
  <2> DEFINE s == InfoReceived(buffered_transmits, sid_generator, sid2subscriber)
             t == StepCommand(s, cmd)
  <2>1. s \in StepState
    BY DEF InfoReceived, StepState, TInv, FieldsTyped
  <2>2. Become(t)
    BY <1>2 DEF HandleClientInput, Terminal
  <2>3. cmd.type = "Subscribe" /\ ~t.panicked => t.answer[cmd.request] # None
    <3> HIDE DEF s
    <3>. QED BY <2>1, StepServesCaller
  <2> HIDE DEF t
  <2>4. preliminary = <<>> /\ preliminary' = <<>> /\ answer' = t.answer
        /\ (conn_state' \notin Terminal => ~t.panicked)
        /\ conn_state' # "AwaitingInfo" /\ conn_state \notin Terminal
    BY <1>2, <2>2 DEF NoBacklog, Become, Leave, Terminal
  <2>5. \A r : ~HeldIn(preliminary, r)
    BY <2>4 DEF HeldIn
  <2>. QED BY <1>1, <2>3, <2>4, <2>5 DEF NoBacklog, Asks
<1>3. CASE conn_state = "AwaitingInfo"
  <2>1. preliminary' = Append(preliminary, cmd) /\ UNCHANGED conn_state
    BY <1>3 DEF HandleClientInput, Terminal
  <2>2. \A r : HeldIn(preliminary', r) <=> HeldIn(preliminary, r) \/ Asks(cmd, r)
    BY <2>1, HeldInQueues DEF TInv, FieldsTyped
  <2>. QED BY <1>1, <1>3, <2>1, <2>2 DEF NoBacklog, Terminal
<1>4. CASE conn_state \in Terminal
  BY <1>4 DEF HandleClientInput, Terminal, NoBacklog
<1>. QED BY <1>2, <1>3, <1>4 DEF HandleClientInput

\* The server's input, and time, forget nobody who waits in the backlog.
LEMMA OthersHeed ==
    ASSUME TInv, NoBacklog,
           \/ \E cmd \in Inbound, t \in 0..now : HandleServerInput(cmd, t)
           \/ \E t \in 0..now : \/ HandleSendPingTimeout(t)
                               \/ HandleSendPongTimeout(t)
                               \/ HandleKeepAliveTimeout(t)
    PROVE  /\ NoBacklog'
           /\ conn_state' \notin Terminal =>
                  /\ conn_state \notin Terminal
                  /\ \A r \in Requests :
                         answer'[r] = None =>
                             answer[r] = None /\ (HeldIn(preliminary, r) => HeldIn(preliminary', r))
<1> DEFINE Goal == /\ NoBacklog'
                   /\ conn_state' \notin Terminal =>
                          /\ conn_state \notin Terminal
                          /\ \A r \in Requests :
                                 answer'[r] = None =>
                                     /\ answer[r] = None
                                     /\ HeldIn(preliminary, r) => HeldIn(preliminary', r)
<1>1. CASE UNCHANGED <<conn_state, preliminary, answer>>
  BY <1>1 DEF NoBacklog
<1>2. ASSUME NEW state \in Terminal, Leave(state) PROVE Goal
  BY <1>2 DEF Leave, NoBacklog
<1>3. CASE ReceiveInfo
  <2>1. conn_state = "AwaitingInfo" /\ Become(Replay(preliminary)) /\ conn_state \notin Terminal
    BY <1>3 DEF ReceiveInfo, Terminal
  <2>2. preliminary' = <<>> /\ answer' = Replay(preliminary).answer
        /\ (conn_state' \notin Terminal => ~Replay(preliminary).panicked)
    BY <2>1 DEF Become, Leave, Terminal
  <2>3. /\ \A r \in Requests : answer[r] # None => Replay(preliminary).answer[r] # None
        /\ ~Replay(preliminary).panicked =>
               \A i \in DOMAIN preliminary :
                   preliminary[i].type = "Subscribe" =>
                       Replay(preliminary).answer[preliminary[i].request] # None
    BY ReplayServesCallers DEF TInv, FieldsTyped
  <2>4. ASSUME conn_state' \notin Terminal, NEW r \in Requests, answer'[r] = None
        PROVE  answer[r] = None /\ ~HeldIn(preliminary, r)
    BY <2>2, <2>3, <2>4 DEF HeldIn, Asks
  <2>. QED BY <2>1, <2>2, <2>4 DEF NoBacklog
<1>4. ASSUME NEW cmd \in Inbound, NEW t \in 0..now, HandleServerInput(cmd, t) PROVE Goal
  BY <1>1, <1>2, <1>3, <1>4
     DEF HandleServerInput, ReceiveNotInfo, ReceiveMsg, DeliverWithin, ReceiveHMsg,
         ReceiveKeepAlive, Disregard, binding, Terminal
<1>5. ASSUME NEW t \in 0..now,
             HandleSendPingTimeout(t) \/ HandleSendPongTimeout(t) \/ HandleKeepAliveTimeout(t)
      PROVE  Goal
  BY <1>1, <1>2, <1>5
     DEF HandleSendPingTimeout, HandleSendPongTimeout, HandleKeepAliveTimeout, Enqueue, binding,
         Terminal
<1>. QED BY <1>4, <1>5

\* Nobody has asked yet.
LEMMA HeededInit == Init => NoBacklog /\ Heeded
BY DEF Init, BindingInit, NoBacklog, Heeded

\* No step loses a request that is waiting for its answer.
LEMMA HeededStep == TInv /\ NoBacklog /\ Heeded /\ [Next]_cvars => NoBacklog' /\ Heeded'
<1> SUFFICES ASSUME TInv, NoBacklog, Heeded, [Next]_cvars PROVE NoBacklog' /\ Heeded'
  OBVIOUS
<1>1. CASE RecvCommand
  <2>1. /\ task = "running" /\ chan # <<>> /\ HandleClientInput(Head(chan)) /\ UNCHANGED caller
        /\ conn_state' \notin Terminal => chan' = Tail(chan)
    BY <1>1 DEF RecvCommand, Selecting, Loop, Terminal
  <2>2. Head(chan) \in ConnectionCommand /\ chan \in Seq(ConnectionCommand)
    BY <2>1, HeadsTyped
  <2>3. NoBacklog'
    BY <2>1, <2>2, ClientInputHeeds
  <2>4. ASSUME conn_state' \notin Terminal, NEW r \in Requests, caller[r] = "live", answer'[r] = None
        PROVE  HeldIn(chan', r) \/ HeldIn(preliminary', r)
    <3>1. /\ conn_state \notin Terminal /\ answer[r] = None
          /\ HeldIn(preliminary, r) \/ Asks(Head(chan), r) => HeldIn(preliminary', r)
      BY <2>1, <2>2, <2>4, ClientInputHeeds
    <3>2. HeldIn(chan, r) \/ HeldIn(preliminary, r)
      BY <2>1, <2>4, <3>1, HeldParts DEF Heeded
    <3>3. HeldIn(chan, r) => Asks(Head(chan), r) \/ HeldIn(Tail(chan), r)
      BY <2>1, <2>2, HeldInQueues
    <3>4. chan' = Tail(chan)
      BY <2>1, <2>4
    <3>. QED BY <3>1, <3>2, <3>3, <3>4
  <2>. QED BY <2>1, <2>3, <2>4, HeldPartsNext DEF Heeded
<1>2. ASSUME \/ \E cmd \in Inbound, t \in 0..now : HandleServerInput(cmd, t)
             \/ \E t \in 0..now : \/ HandleSendPingTimeout(t)
                                 \/ HandleSendPongTimeout(t)
                                 \/ HandleKeepAliveTimeout(t),
             NEW ticked, NEW input, Loop(ticked, chan, input), task = "running", UNCHANGED caller
      PROVE  NoBacklog' /\ Heeded'
  <2>1. NoBacklog'
    BY <1>2, OthersHeed
  <2>2. conn_state' \notin Terminal => UNCHANGED chan
    BY <1>2 DEF Loop, Terminal
  <2>3. ASSUME conn_state' \notin Terminal, NEW r \in Requests, caller[r] = "live", answer'[r] = None
        PROVE  HeldIn(chan', r) \/ HeldIn(preliminary', r)
    <3>1. /\ conn_state \notin Terminal /\ answer[r] = None
          /\ HeldIn(preliminary, r) => HeldIn(preliminary', r)
      BY <1>2, <2>3, OthersHeed
    <3>2. HeldIn(chan, r) \/ HeldIn(preliminary, r)
      BY <1>2, <2>3, <3>1, HeldParts DEF Heeded
    <3>. QED BY <2>2, <2>3, <3>1, <3>2
  <2>. QED BY <1>2, <2>1, <2>3, HeldPartsNext DEF Heeded
<1>3. CASE TickPing
  BY <1>2, <1>3, HeadsTyped DEF TickPing, Selecting
<1>4. CASE TickPong
  BY <1>2, <1>4, HeadsTyped DEF TickPong, Selecting
<1>5. CASE TickKeepAlive
  BY <1>2, <1>5, HeadsTyped DEF TickKeepAlive, Selecting
<1>6. CASE ReadCommand
  BY <1>2, <1>6, HeadsTyped DEF ReadCommand, Selecting
<1>7. ASSUME UNCHANGED <<task, conn_state, preliminary, answer>>,
             \A r \in Requests : HeldIn(chan, r) => HeldIn(chan', r),
             \A r \in Requests : /\ caller'[r] = "live" /\ answer[r] = None =>
                                        caller[r] = "live" \/ HeldIn(chan', r)
      PROVE  NoBacklog' /\ Heeded'
  <2>1. NoBacklog'
    BY <1>7 DEF NoBacklog
  <2>2. ASSUME task = "running", conn_state \notin Terminal, NEW r \in Requests,
               caller'[r] = "live", answer[r] = None
        PROVE  HeldIn(chan', r) \/ HeldIn(preliminary', r)
    BY <1>7, <2>2, HeldParts DEF Heeded
  <2>. QED BY <1>7, <2>1, <2>2, HeldPartsNext DEF Heeded
<1>8. CASE ReadError
  <2>1. UNCHANGED <<conn_state, preliminary, answer, caller>> /\ conn_state' = conn_state
        /\ task = "running"
    BY <1>8 DEF ReadError, Selecting, binding
  <2>2. CASE conn_state' = "Panicked"
    BY <2>1, <2>2 DEF NoBacklog, Heeded, Terminal
  <2>3. CASE conn_state' # "Panicked"
    <3>1. UNCHANGED <<chan, task>>
      BY <1>8, <2>3 DEF ReadError, Loop
    <3>. QED BY <1>7, <2>1, <3>1
  <2>. QED BY <2>2, <2>3
<1>9. CASE ReadEof
  BY <1>9 DEF ReadEof, Leave, NoBacklog, Heeded
<1>10. CASE Transmit \/ Server \/ Tick \/ UNCHANGED cvars
  <2>1. UNCHANGED <<task, conn_state, preliminary, answer, caller, chan>>
    BY <1>10
       DEF Transmit, PollTransmit, Server, Greet, ServerReads, ServerPings, ServerGarbles,
           ServerCloses, ServerHangs, ServerDelivers, ServerSends, Tick, cvars, binding, loop
  <2>. QED BY <1>7, <2>1
<1>11. ASSUME NEW cmd \in ConnectionCommand, Offer(cmd) \/ UNCHANGED chan
       PROVE  \A r \in Requests : HeldIn(chan, r) => HeldIn(chan', r)
  BY <1>11, HeadsTyped, HeldInQueues DEF Offer
<1>12. ASSUME NEW r \in Requests, CallSubscribe(r) PROVE NoBacklog' /\ Heeded'
  <2> DEFINE cmd == Subscribe(r, MaxMsgs[r])
  <2>1. cmd \in ConnectionCommand /\ Asks(cmd, r)
    BY ConnectionAssumption DEF Subscribe, ConnectionCommand, Asks
  <2>2. /\ UNCHANGED <<task, conn_state, preliminary, answer>>
        /\ caller' = [caller EXCEPT ![r] = "live"]
        /\ (task = "running" /\ Offer(cmd)) \/ (task = "ended" /\ UNCHANGED chan)
    BY <1>12 DEF CallSubscribe, binding
  <2> HIDE DEF cmd
  <2>3. \A q \in Requests : HeldIn(chan, q) => HeldIn(chan', q)
    BY <1>11, <2>1, <2>2
  <2>4. CASE task = "ended"
    BY <2>2, <2>4 DEF NoBacklog, Heeded
  <2>5. CASE Offer(cmd)
    <3>1. HeldIn(chan', r)
      BY <2>1, <2>5, HeadsTyped, HeldInQueues DEF Offer
    <3>2. caller \in [Requests -> {"idle", "live", "gone"}]
      BY DEF TInv, CallerTyped
    <3>. QED BY <1>7, <2>2, <2>3, <3>1, <3>2
  <2>. QED BY <2>2, <2>4, <2>5
<1>13. ASSUME NEW r \in Requests,
              SubscribeReturns(r) \/ NextMessage(r) \/ CancelSubscribe(r) \/ DropSubscriber(r)
       PROVE  NoBacklog' /\ Heeded'
  <2>1. UNCHANGED <<task, conn_state, preliminary, answer>>
    BY <1>13
       DEF SubscribeReturns, NextMessage, TakeMsg, CancelSubscribe, DropSubscriber, DropReceiver,
           binding, loop
  <2>2. \A q \in Requests : caller'[q] = "live" => caller[q] = "live"
    BY <1>13
       DEF SubscribeReturns, NextMessage, TakeMsg, CancelSubscribe, DropSubscriber, DropReceiver,
           TInv, CallerTyped
  <2>3. \A q \in Requests : HeldIn(chan, q) => HeldIn(chan', q)
    <3>1. CASE DropSubscriber(r)
      <4>1. Unsubscribe(answer[r]) \in ConnectionCommand
        BY <3>1 DEF DropSubscriber, TInv, HoldersAnswered, FieldsTyped, Unsubscribe, ConnectionCommand
      <4>. QED BY <1>11, <3>1, <4>1 DEF DropSubscriber
    <3>2. CASE UNCHANGED chan
      BY <3>2
    <3>. QED BY <1>13, <3>1, <3>2 DEF SubscribeReturns, NextMessage, CancelSubscribe, loop
  <2>. QED BY <1>7, <2>1, <2>2, <2>3
<1>14. CASE CallPublish
  <2>1. UNCHANGED <<task, conn_state, preliminary, answer, caller>>
    BY <1>14 DEF CallPublish, binding
  <2>2. \A q \in Requests : HeldIn(chan, q) => HeldIn(chan', q)
    <3>1. published + 1 \in 1..MaxPublishes
      BY <1>14, ConnectionAssumption DEF CallPublish, TInv, UsersTyped
    <3>2. Publish(published + 1) \in ConnectionCommand
      BY <3>1, ConnectionAssumption DEF Publish, ConnectionCommand
    <3>. QED BY <1>11, <1>14, <3>2 DEF CallPublish
  <2>. QED BY <1>7, <2>1, <2>2
<1>. QED BY <1>1, <1>3, <1>4, <1>5, <1>6, <1>8, <1>9, <1>10, <1>12, <1>13, <1>14,
            ConnectionAssumption
         DEF Next, Run, Users

\* The user's tasks panic only when the connection is over, or in dropping a Subscriber
\* while the command queue is full: an open request always waits in the queue or backlog.
THEOREM CrashesCorrect == Spec => CrashOnlyWhenOverOrFull
<1> DEFINE Cause == crashed' # crashed =>
                        \/ task = "ended" \/ conn_state \in Terminal
                        \/ /\ Len(chan) = CommandCapacity
                           /\ \E r \in holds : caller[r] = "live" /\ caller'[r] = "gone"
<1>1. TInv /\ Heeded /\ [Next]_cvars => [Cause]_cvars
  <2> SUFFICES ASSUME TInv, Heeded, Next, crashed' # crashed
               PROVE  \/ task = "ended" \/ conn_state \in Terminal
                      \/ /\ Len(chan) = CommandCapacity
                         /\ \E r \in holds : caller[r] = "live" /\ caller'[r] = "gone"
    OBVIOUS
  <2>1. ASSUME NEW r \in Requests, SubscribeReturns(r)
        PROVE  task = "ended" \/ conn_state \in Terminal
    BY <2>1 DEF SubscribeReturns, Heeded, TInv, LoopTyped
  <2>2. ASSUME NEW r \in Requests, DropSubscriber(r)
        PROVE  \/ task = "ended"
               \/ /\ Len(chan) = CommandCapacity
                  /\ \E q \in holds : caller[q] = "live" /\ caller'[q] = "gone"
    <3>1. Len(chan) \in Nat /\ Len(chan) <= CommandCapacity /\ CommandCapacity \in Nat
      BY ConnectionAssumption DEF TInv, LoopTyped
    <3>2. r \in holds /\ caller[r] = "live" /\ caller'[r] = "gone"
      BY <2>2 DEF DropSubscriber, DropReceiver, TInv, CallerTyped
    <3>3. task = "ended" \/ Len(chan) >= CommandCapacity
      BY <2>2 DEF DropSubscriber
    <3>. QED BY <3>1, <3>2, <3>3
  <2>3. CASE CallPublish
    BY <2>3 DEF CallPublish
  <2>4. ASSUME NEW r \in Requests, CallSubscribe(r) \/ NextMessage(r) \/ CancelSubscribe(r)
        PROVE  UNCHANGED crashed
    BY <2>4 DEF CallSubscribe, NextMessage, CancelSubscribe, user
  <2>5. ASSUME Run \/ Server \/ Tick PROVE UNCHANGED crashed
    BY <2>5
       DEF Run, Transmit, TickPing, TickPong, TickKeepAlive, RecvCommand, ReadCommand, ReadError,
           ReadEof, Server, Greet, ServerReads, ServerPings, ServerGarbles, ServerCloses,
           ServerHangs, ServerDelivers, ServerSends, Tick, user
  <2>. QED BY <2>1, <2>2, <2>3, <2>4, <2>5, ConnectionAssumption DEF Next, Users
<1>. QED BY <1>1, TInvInit, TInvStep, HeededInit, HeededStep, PTL DEF Spec, CrashOnlyWhenOverOrFull

-----------------------------------------------------------------------------
(* What a stream of commands makes the server want to deliver.             *)

\* Sid is served once the stream has been read: the server serves it already, or a SUB
\* is on the way, and no UNSUB without a maximum comes behind.
Wanted(subs, stream, sid) ==
    \/ sid \in subs /\ \A j \in DOMAIN stream : stream[j] # Unsub(sid, None)
    \/ \E i \in DOMAIN stream :
           /\ stream[i].type = "SUB" /\ stream[i].sid = sid
           /\ \A j \in DOMAIN stream : j > i => stream[j] # Unsub(sid, None)

\* Whatever will be served is routed, to the request that was told so.
Routes(subs, stream, table, answers) ==
    \A sid : Wanted(subs, stream, sid) => sid \in DOMAIN table /\ answers[table[sid]] = sid

\* One more command makes the server want less, but for a SUB.
LEMMA WantedPush ==
    ASSUME NEW subs, NEW stream \in Seq(ClientCommand), NEW c \in ClientCommand, NEW sid,
           Wanted(subs, Append(stream, c), sid)
    PROVE  \/ Wanted(subs, stream, sid) /\ c # Unsub(sid, None)
           \/ c.type = "SUB" /\ c.sid = sid
<1> DEFINE longer == Append(stream, c)
           N == Len(stream)
<1>1. /\ N \in Nat /\ DOMAIN stream = 1..N /\ DOMAIN longer = 1..(N + 1)
      /\ \A i \in 1..N : longer[i] = stream[i]
      /\ longer[N + 1] = c
  BY Pushed
<1> HIDE DEF longer, N
<1>2. 1..N \subseteq 1..(N + 1) /\ N + 1 \in 1..(N + 1)
  BY <1>1
<1>3. CASE sid \in subs /\ \A j \in DOMAIN longer : longer[j] # Unsub(sid, None)
  BY <1>1, <1>2, <1>3 DEF Wanted
<1>4. ASSUME NEW i \in DOMAIN longer, longer[i].type = "SUB", longer[i].sid = sid,
             \A j \in DOMAIN longer : j > i => longer[j] # Unsub(sid, None)
      PROVE  \/ Wanted(subs, stream, sid) /\ c # Unsub(sid, None)
             \/ c.type = "SUB" /\ c.sid = sid
  <2>1. CASE i = N + 1
    BY <1>1, <1>4, <2>1
  <2>2. CASE i # N + 1
    <3>1. i \in 1..N /\ N + 1 > i
      BY <1>1, <1>4, <2>2
    <3>2. c # Unsub(sid, None)
      BY <1>1, <1>2, <1>4, <3>1
    <3>. QED BY <1>1, <1>2, <1>4, <3>1, <3>2 DEF Wanted
  <2>. QED BY <2>1, <2>2
<1>. QED BY <1>3, <1>4 DEF Wanted, longer

\* What the server does with the first command is what the stream says it wants.
LEMMA WantedPop ==
    ASSUME NEW stream \in Seq(ClientCommand), stream # <<>>, NEW subs, NEW after, NEW sid,
           \/ sid \in after => sid \in subs /\ Head(stream) # Unsub(sid, None)
           \/ Head(stream).type = "SUB" /\ Head(stream).sid = sid,
           Wanted(after, Tail(stream), sid)
    PROVE  Wanted(subs, stream, sid)
<1> DEFINE N == Len(stream)
           rest == Tail(stream)
<1>1. /\ N \in Nat \ {0} /\ DOMAIN stream = 1..N /\ DOMAIN rest = 1..(N - 1)
      /\ \A i \in 1..(N - 1) : rest[i] = stream[i + 1]
      /\ stream[1] = Head(stream)
  OBVIOUS
<1> HIDE DEF rest, N
<1>2. /\ 1 \in 1..N
      /\ \A i \in 1..(N - 1) : i + 1 \in 1..N
      /\ \A j \in 1..N : j = 1 \/ (j - 1 \in 1..(N - 1) /\ (j - 1) + 1 = j)
  BY <1>1
<1>3. \A j \in 1..N : j = 1 \/ (j - 1 \in 1..(N - 1) /\ rest[j - 1] = stream[j])
  BY <1>1, <1>2
<1>4. ASSUME sid \in after, \A j \in DOMAIN rest : rest[j] # Unsub(sid, None)
      PROVE  Wanted(subs, stream, sid)
  <2>1. ASSUME NEW j \in 1..N, j > 1 PROVE stream[j] # Unsub(sid, None)
    <3>1. j - 1 \in 1..(N - 1) /\ rest[j - 1] = stream[j]
      BY <1>1, <1>3, <2>1
    <3>. QED BY <1>1, <1>4, <3>1
  <2>2. CASE sid \in subs /\ Head(stream) # Unsub(sid, None)
    <3>1. \A j \in 1..N : j = 1 \/ j > 1
      BY <1>1
    <3>2. \A j \in DOMAIN stream : stream[j] # Unsub(sid, None)
      BY <1>1, <2>1, <2>2, <3>1
    <3>. QED BY <2>2, <3>2 DEF Wanted
  <2>3. CASE Head(stream).type = "SUB" /\ Head(stream).sid = sid
    BY <1>1, <1>2, <2>1, <2>3 DEF Wanted
  <2>. QED BY <1>4, <2>2, <2>3
<1>5. ASSUME NEW i \in DOMAIN rest, rest[i].type = "SUB", rest[i].sid = sid,
             \A j \in DOMAIN rest : j > i => rest[j] # Unsub(sid, None)
      PROVE  Wanted(subs, stream, sid)
  <2>1. i + 1 \in DOMAIN stream /\ stream[i + 1].type = "SUB" /\ stream[i + 1].sid = sid
    BY <1>1, <1>2, <1>5
  <2>2. ASSUME NEW j \in DOMAIN stream, j > i + 1 PROVE stream[j] # Unsub(sid, None)
    <3>1. j - 1 \in 1..(N - 1) /\ rest[j - 1] = stream[j] /\ j - 1 > i
      BY <1>1, <1>3, <1>5, <2>2
    <3>. QED BY <1>1, <1>5, <3>1
  <2>. QED BY <2>1, <2>2 DEF Wanted
<1>. QED BY <1>4, <1>5 DEF Wanted, rest

\* A command that is neither SUB nor UNSUB changes nothing.
LEMMA RoutesQuiet ==
    ASSUME NEW subs, NEW stream \in Seq(ClientCommand), NEW c \in ClientCommand, NEW table,
           NEW answers, c.type # "SUB", Routes(subs, stream, table, answers)
    PROVE  Routes(subs, Append(stream, c), table, answers)
BY WantedPush DEF Routes

\* A step keeps the table abreast of the stream, if its caller has no answer yet.
LEMMA StepRoutes ==
    ASSUME NEW subs, NEW out \in Seq(ClientCommand), NEW s \in StepState,
           NEW cmd \in ConnectionCommand,
           cmd.type = "Subscribe" => s.answer[cmd.request] = None,
           ~StepCommand(s, cmd).panicked,
           Routes(subs, out \o s.buffered_transmits, s.sid2subscriber, s.answer)
    PROVE  Routes(subs, out \o StepCommand(s, cmd).buffered_transmits,
                  StepCommand(s, cmd).sid2subscriber, StepCommand(s, cmd).answer)
<1> DEFINE t      == StepCommand(s, cmd)
           stream == out \o s.buffered_transmits
           wire   == out \o t.buffered_transmits
           next   == s.sid_generator
           table  == s.sid2subscriber
<1>1. /\ stream \in Seq(ClientCommand) /\ next \in Nat \ {0} /\ table \in Table
      /\ s.answer \in [Requests -> Nat \cup {None}]
  BY DEF StepState
<1>2. ~s.panicked
  BY StepServesCaller
<1>3. CASE cmd.type = "Publish"
  <2>1. Pub(cmd.payload) \in ClientCommand /\ Pub(cmd.payload).type # "SUB"
    BY <1>3, WireTyped DEF ConnectionCommand, Pub
  <2>2. Routes(subs, Append(stream, Pub(cmd.payload)), table, s.answer)
    BY <1>1, <2>1, RoutesQuiet
  <2>. QED BY <1>2, <1>3, <2>2, StepWire
<1>4. CASE cmd.type = "Unsubscribe"
  <2> DEFINE u == Unsub(cmd.sid, None)
             smaller == Without(table, cmd.sid)
  <2>1. u \in ClientCommand /\ u.type # "SUB"
    BY <1>4, WireTyped DEF ConnectionCommand, Unsub
  <2>2. /\ wire = Append(stream, u) /\ t.sid2subscriber = smaller /\ t.answer = s.answer
    BY <1>2, <1>4, StepWire
  <2>3. ASSUME NEW sid, Wanted(subs, Append(stream, u), sid)
        PROVE  sid \in DOMAIN smaller /\ s.answer[smaller[sid]] = sid
    <3>1. Wanted(subs, stream, sid) /\ u # Unsub(sid, None)
      BY <1>1, <2>1, <2>3, WantedPush
    <3>2. sid # cmd.sid
      BY <3>1
    <3>3. sid \in DOMAIN table /\ s.answer[table[sid]] = sid
      BY <3>1 DEF Routes
    <3>. QED BY <3>2, <3>3 DEF Without
  <2>. QED BY <2>2, <2>3 DEF Routes
<1>5. CASE cmd.type = "Subscribe"
  <2> DEFINE r == cmd.request
             c == Sub(r, next)
             u == Unsub(next, cmd.max_msgs)
             longer == Append(stream, c)
             larger == Extend(table, next, r)
             told   == [s.answer EXCEPT ![r] = next]
  <2>1. caller[r] # "gone"
    BY <1>2, <1>5 DEF StepCommand, StepSubscribe, StepState
  <2>2. r \in Requests /\ cmd.max_msgs \in Limits \cup {None}
    BY <1>5 DEF ConnectionCommand
  <2>3. c \in ClientCommand /\ longer \in Seq(ClientCommand) /\ c.type = "SUB" /\ c.sid = next
    BY <1>1, <2>2, WireTyped DEF Sub
  <2>4. /\ wire = IF cmd.max_msgs = None THEN longer ELSE Append(longer, u)
        /\ t.sid2subscriber = larger /\ t.answer = told
    BY <1>2, <1>5, <2>1, StepWire
  <2>5. Routes(subs, longer, larger, told)
    <3>1. ASSUME NEW sid, Wanted(subs, longer, sid)
          PROVE  sid \in DOMAIN larger /\ told[larger[sid]] = sid
      <4>1. CASE sid = next
        BY <1>1, <2>2, <4>1 DEF Extend
      <4>2. CASE sid # next
        <5>1. Wanted(subs, stream, sid)
          BY <1>1, <2>3, <3>1, <4>2, WantedPush
        <5>2. sid \in DOMAIN table /\ s.answer[table[sid]] = sid
          BY <5>1 DEF Routes
        <5>3. sid \in Nat /\ table[sid] \in Requests
          BY <1>1, <5>2, TableIs
        <5>4. table[sid] # r
          BY <1>5, <5>2, <5>3, NoneAssumption
        <5>5. sid \in DOMAIN larger /\ larger[sid] = table[sid]
          BY <4>2, <5>2 DEF Extend
        <5>. QED BY <1>1, <5>2, <5>3, <5>4, <5>5
      <4>. QED BY <4>1, <4>2
    <3>. QED BY <3>1 DEF Routes
  <2>6. ASSUME cmd.max_msgs # None PROVE Routes(subs, Append(longer, u), larger, told)
    <3>1. u \in ClientCommand /\ u.type # "SUB"
      BY <1>1, <2>2, <2>6, WireTyped DEF Unsub
    <3> HIDE DEF longer, larger, told, u
    <3>. QED BY <2>3, <2>5, <3>1, RoutesQuiet
  <2> HIDE DEF longer, larger, told, u
  <2>. QED BY <2>4, <2>5, <2>6
<1>. QED BY <1>3, <1>4, <1>5 DEF ConnectionCommand

-----------------------------------------------------------------------------
(* Each request asks once.                                                 *)

Single(queue, r) ==
    \A i, j \in DOMAIN queue : Asks(queue[i], r) /\ Asks(queue[j], r) => i = j

\* A request not in a queue may join it.
LEMMA SinglePush ==
    ASSUME NEW queue \in Seq(ConnectionCommand), NEW cmd \in ConnectionCommand, NEW r,
           Single(queue, r), ~(HeldIn(queue, r) /\ Asks(cmd, r))
    PROVE  Single(Append(queue, cmd), r)
<1> DEFINE longer == Append(queue, cmd)
           N == Len(queue)
<1>1. /\ N \in Nat /\ DOMAIN queue = 1..N /\ DOMAIN longer = 1..(N + 1)
      /\ \A i \in 1..N : longer[i] = queue[i]
      /\ longer[N + 1] = cmd
  OBVIOUS
<1> HIDE DEF longer, N
<1>2. \A i \in 1..(N + 1) : i \in 1..N \/ i = N + 1
  BY <1>1
<1>3. ASSUME NEW i \in DOMAIN longer, NEW j \in DOMAIN longer, Asks(longer[i], r), Asks(longer[j], r)
      PROVE  i = j
  BY <1>1, <1>2, <1>3 DEF Single, HeldIn
<1>. QED BY <1>3 DEF Single, longer

\* A request taken from a queue is not in the rest of it.
LEMMA SinglePop ==
    ASSUME NEW queue \in Seq(ConnectionCommand), queue # <<>>, NEW r, Single(queue, r)
    PROVE  Single(Tail(queue), r) /\ ~(Asks(Head(queue), r) /\ HeldIn(Tail(queue), r))
<1> DEFINE rest == Tail(queue)
           N == Len(queue)
<1>1. /\ N \in Nat \ {0} /\ DOMAIN queue = 1..N /\ DOMAIN rest = 1..(N - 1)
      /\ \A i \in 1..(N - 1) : rest[i] = queue[i + 1]
      /\ Head(queue) = queue[1]
  OBVIOUS
<1> HIDE DEF rest, N
<1>2. 1 \in 1..N /\ \A i \in 1..(N - 1) : i + 1 \in 1..N /\ i + 1 # 1
  BY <1>1
<1>3. ASSUME NEW i \in DOMAIN rest, NEW j \in DOMAIN rest, Asks(rest[i], r), Asks(rest[j], r)
      PROVE  i = j
  <2>1. i + 1 = j + 1
    BY <1>1, <1>2, <1>3 DEF Single
  <2>. QED BY <1>1, <2>1
<1>4. ~(Asks(queue[1], r) /\ HeldIn(rest, r))
  BY <1>1, <1>2 DEF Single, HeldIn
<1>. QED BY <1>1, <1>3, <1>4 DEF Single, rest

\* The replay keeps the table abreast of what it puts on the wire, and answers only those
\* in the backlog.
LEMMA ReplayRoutes ==
    ASSUME NEW backlog \in Seq(ConnectionCommand), answer \in [Requests -> Nat \cup {None}],
           \A r \in Requests : Single(backlog, r) /\ (HeldIn(backlog, r) => answer[r] = None)
    PROVE  LET s == Replay(backlog)
           IN  /\ ~s.panicked => Routes({}, s.buffered_transmits, s.sid2subscriber, s.answer)
               /\ \A r \in Requests : ~HeldIn(backlog, r) => s.answer[r] = answer[r]
<1> DEFINE N == Len(backlog)
           Unmet(n, s) == \A i \in (n + 1)..N : backlog[i].type = "Subscribe" =>
                              s.answer[backlog[i].request] = None
           Others(s)   == \A r \in Requests : ~HeldIn(backlog, r) => s.answer[r] = answer[r]
           Upright(s)  == ~s.panicked =>
                              Routes({}, <<>> \o s.buffered_transmits, s.sid2subscriber, s.answer)
           Good(n, s)  == s \in StepState /\ Upright(s) /\ Unmet(n, s) /\ Others(s)
<1>1. /\ N \in Nat /\ DOMAIN backlog = 1..N
      /\ \A i \in 1..N : /\ backlog[i] \in ConnectionCommand
                         /\ backlog[i].type = "Subscribe" =>
                                /\ backlog[i].request \in Requests
                                /\ HeldIn(backlog, backlog[i].request)
  BY DEF ConnectionCommand, HeldIn, Asks
<1>2. PICK f : IsFold(f, N, Connected, backlog) /\ ReplayOnto(Connected, backlog) = f[N]
  BY ReplayIs
<1> DEFINE T == {n \in Nat : n <= N => Good(n, f[n])}
<1>3. 0 \in T
  <2>1. f[0] = Connected
    BY <1>1, <1>2 DEF IsFold
  <2>2. Connected \in StepState /\ Connected.answer = answer
    BY ConnectedTyped
  <2>3. Upright(Connected)
    <3>1. <<>> \o Connected.buffered_transmits = <<Connect>>
      BY DEF Connected, InfoReceived
    <3>2. \A sid : ~Wanted({}, <<Connect>>, sid)
      BY DEF Wanted, Connect
    <3>. QED BY <3>1, <3>2 DEF Routes
  <2>. QED BY <1>1, <2>1, <2>2, <2>3
<1>4. ASSUME NEW n \in Nat, n \in T PROVE n + 1 \in T
  <2> HIDE DEF N
  <2>1. SUFFICES ASSUME n + 1 <= N PROVE Good(n + 1, f[n + 1])
    OBVIOUS
  <2> DEFINE s   == f[n]
             cmd == backlog[n + 1]
             t   == StepCommand(s, cmd)
  <2>2. n + 1 \in 0..N /\ n + 1 # 0 /\ (n + 1) - 1 = n /\ n + 1 \in 1..N
    BY <1>1, <2>1
  <2>3. f[n + 1] = t
    <3>1. f[n + 1] = StepCommand(f[(n + 1) - 1], backlog[n + 1])
      BY <1>2, <2>2 DEF IsFold
    <3>. QED BY <2>2, <3>1
  <2>4. Good(n, s)
    BY <1>1, <1>4, <2>1
  <2>5. /\ cmd \in ConnectionCommand
        /\ cmd.type = "Subscribe" => cmd.request \in Requests /\ HeldIn(backlog, cmd.request)
        /\ cmd.type = "Subscribe" => s.answer[cmd.request] = None
    BY <1>1, <2>2, <2>4
  <2>6. \A i \in 1..N : i # n + 1 /\ backlog[i].type = "Subscribe" /\ cmd.type = "Subscribe"
                          => backlog[i].request # cmd.request
    BY <1>1, <2>2 DEF Single, Asks
  <2>7. t \in StepState
    BY <2>4, <2>5, StepTyped
  <2>8. ASSUME ~t.panicked
        PROVE  Routes({}, <<>> \o t.buffered_transmits, t.sid2subscriber, t.answer)
    <3>1. <<>> \in Seq(ClientCommand)
      OBVIOUS
    <3>2. ~s.panicked
      BY <2>4, <2>5, <2>8, StepServesCaller
    <3>3. Routes({}, <<>> \o s.buffered_transmits, s.sid2subscriber, s.answer)
      BY <2>4, <3>2
    <3> HIDE DEF s, cmd
    <3>. QED BY <2>4, <2>5, <2>8, <3>1, <3>3, StepRoutes
  <2>9. \A r \in Requests :
            t.answer[r] = s.answer[r] \/ (cmd.type = "Subscribe" /\ r = cmd.request)
    BY <2>4, <2>5, StepAnswers
  <2> HIDE DEF t, cmd, s
  <2>10. Unmet(n + 1, t)
    <3>1. \A i \in ((n + 1) + 1)..N : i \in (n + 1)..N /\ i \in 1..N /\ i # n + 1
      BY <1>1
    <3>. QED BY <1>1, <2>4, <2>6, <2>9, <3>1
  <2>11. Others(t)
    BY <2>4, <2>5, <2>9
  <2>. QED BY <2>3, <2>7, <2>8, <2>10, <2>11
<1>5. N \in T
  <2> HIDE DEF T, N
  <2>. QED BY <1>1, <1>3, <1>4, NatSetInduction
<1>6. Good(N, f[N])
  BY <1>1, <1>5
<1>7. \A q \in Seq(ClientCommand) : <<>> \o q = q
  OBVIOUS
<1>8. f[N].buffered_transmits \in Seq(ClientCommand)
  BY <1>6 DEF StepState
<1>. QED BY <1>2, <1>6, <1>7, <1>8 DEF Replay

-----------------------------------------------------------------------------
(* A request that is in the queue or in the backlog is there once, and has *)
(* no answer yet.                                                          *)

AskedOnce(r) ==
    /\ caller[r] = "idle" => answer[r] = None /\ ~HeldIn(chan, r) /\ ~HeldIn(preliminary, r)
    /\ HeldIn(chan, r) \/ HeldIn(preliminary, r) => answer[r] = None
    /\ Single(chan, r) /\ Single(preliminary, r)
    /\ ~(HeldIn(chan, r) /\ HeldIn(preliminary, r))

AllOnce == \A r \in Requests : AskedOnce(r)

\* Nobody is held in an empty queue.
LEMMA EmptyQueue == \A r : Single(<<>>, r) /\ ~HeldIn(<<>>, r)
BY DEF Single, HeldIn

\* Nobody has asked yet.
LEMMA OnceInit == Init => AllOnce
BY EmptyQueue DEF Init, BindingInit, AllOnce, AskedOnce

\* A step that only drops commands, or adds one that is no Subscribe, changes nothing.
LEMMA OnceQuiet ==
    ASSUME TInv, AllOnce, UNCHANGED answer, preliminary' \in {preliminary, <<>>},
           \/ chan' \in {chan, <<>>}
           \/ chan # <<>> /\ chan' = Tail(chan)
           \/ \E cmd \in ConnectionCommand : cmd.type # "Subscribe" /\ chan' = Append(chan, cmd),
           \A r \in Requests : caller'[r] = "idle" => caller[r] = "idle"
    PROVE  AllOnce'
<1> SUFFICES ASSUME NEW r \in Requests PROVE AskedOnce(r)'
  BY DEF AllOnce
<1>1. chan \in Seq(ConnectionCommand) /\ AskedOnce(r)
  BY DEF TInv, LoopTyped, AllOnce
<1>2. Single(chan', r) /\ (HeldIn(chan', r) => HeldIn(chan, r))
  <2>1. CASE chan' \in {chan, <<>>}
    BY <1>1, <2>1, EmptyQueue DEF AskedOnce
  <2>2. CASE chan # <<>> /\ chan' = Tail(chan)
    <3>1. \A i \in DOMAIN Tail(chan) : i + 1 \in DOMAIN chan /\ Tail(chan)[i] = chan[i + 1]
      BY <1>1, <2>2
    <3>. QED BY <1>1, <2>2, <3>1, SinglePop DEF AskedOnce, HeldIn
  <2>3. ASSUME NEW cmd \in ConnectionCommand, cmd.type # "Subscribe", chan' = Append(chan, cmd)
        PROVE  Single(chan', r) /\ (HeldIn(chan', r) => HeldIn(chan, r))
    <3>1. ~Asks(cmd, r)
      BY <2>3 DEF Asks
    <3>. QED BY <1>1, <2>3, <3>1, SinglePush, HeldInQueues DEF AskedOnce
  <2>. QED BY <2>1, <2>2, <2>3
<1>3. Single(preliminary', r) /\ (HeldIn(preliminary', r) => HeldIn(preliminary, r))
  BY <1>1, EmptyQueue DEF AskedOnce
<1>. QED BY <1>1, <1>2, <1>3 DEF AskedOnce

\* A command goes from the queue to the backlog, or is answered.
LEMMA OnceRecv ==
    ASSUME TInv, NoBacklog, AllOnce, RecvCommand
    PROVE  AllOnce'
<1> DEFINE cmd == Head(chan)
<1>1. /\ chan # <<>> /\ chan \in Seq(ConnectionCommand) /\ cmd \in ConnectionCommand
      /\ HandleClientInput(cmd) /\ chan' \in {Tail(chan), <<>>} /\ UNCHANGED caller
      /\ conn_state' # "Panicked" => chan' = Tail(chan)
  BY HeadsTyped DEF RecvCommand, Loop
<1>2. \A r \in Requests :
          /\ Single(chan', r) /\ (HeldIn(chan', r) => HeldIn(chan, r))
          /\ ~(Asks(cmd, r) /\ HeldIn(chan', r))
  <2>1. \A i \in DOMAIN Tail(chan) : i + 1 \in DOMAIN chan /\ Tail(chan)[i] = chan[i + 1]
    BY <1>1
  <2>. QED BY <1>1, <2>1, SinglePop, EmptyQueue DEF AllOnce, AskedOnce, HeldIn
<1>3. \A r \in Requests : Asks(cmd, r) => HeldIn(chan, r)
  <2>1. 1 \in DOMAIN chan /\ chan[1] = cmd
    BY <1>1
  <2>. QED BY <2>1 DEF HeldIn
<1>4. CASE conn_state = "InfoReceived"
  <2> DEFINE s == InfoReceived(buffered_transmits, sid_generator, sid2subscriber)
             t == StepCommand(s, cmd)
  <2>1. s \in StepState /\ s.answer = answer
    BY DEF InfoReceived, StepState, TInv, FieldsTyped
  <2>2. answer' = t.answer /\ preliminary' = <<>>
    BY <1>1, <1>4 DEF HandleClientInput, Become, Leave, Terminal
  <2> HIDE DEF s
  <2>3. \A r \in Requests : t.answer[r] = s.answer[r] \/ Asks(cmd, r)
    BY <1>1, <2>1, StepAnswers DEF Asks
  <2> HIDE DEF t, cmd
  <2>4. \A r \in Requests : ~Asks(cmd, r) => answer'[r] = answer[r]
    BY <2>1, <2>2, <2>3
  <2>5. ASSUME NEW r \in Requests PROVE AskedOnce(r)'
    BY <1>1, <1>2, <1>3, <2>2, <2>4, EmptyQueue DEF AllOnce, AskedOnce
  <2>. QED BY <2>5 DEF AllOnce
<1>5. CASE conn_state = "AwaitingInfo"
  <2>1. preliminary' = Append(preliminary, cmd) /\ UNCHANGED <<conn_state, answer>>
        /\ preliminary \in Seq(ConnectionCommand)
    BY <1>1, <1>5 DEF HandleClientInput, Terminal, TInv, FieldsTyped
  <2> HIDE DEF cmd
  <2>2. ASSUME NEW r \in Requests PROVE AskedOnce(r)'
    <3>1. AskedOnce(r)
      BY DEF AllOnce
    <3>2. HeldIn(preliminary', r) <=> HeldIn(preliminary, r) \/ Asks(cmd, r)
      BY <1>1, <2>1, HeldInQueues
    <3>3. Single(preliminary', r)
      BY <1>1, <1>3, <2>1, <3>1, SinglePush DEF AskedOnce
    <3>. QED BY <1>1, <1>2, <1>3, <2>1, <3>1, <3>2, <3>3 DEF AskedOnce
  <2>. QED BY <2>2 DEF AllOnce
<1>6. CASE conn_state \in Terminal
  <2>1. UNCHANGED <<answer, preliminary>>
    BY <1>1, <1>6 DEF HandleClientInput, Terminal
  <2>. QED BY <1>1, <2>1, OnceQuiet
<1>. QED BY <1>1, <1>4, <1>5, <1>6 DEF HandleClientInput

\* INFO answers the backlog and leaves the queue.
LEMMA OnceInfo ==
    ASSUME TInv, AllOnce, ReceiveInfo, chan' \in {chan, <<>>}, UNCHANGED caller
    PROVE  AllOnce'
<1>1. /\ preliminary \in Seq(ConnectionCommand) /\ answer \in [Requests -> Nat \cup {None}]
      /\ preliminary' = <<>> /\ answer' = Replay(preliminary).answer
  BY DEF ReceiveInfo, Become, Leave, TInv, FieldsTyped
<1>2. \A r \in Requests : ~HeldIn(preliminary, r) => answer'[r] = answer[r]
  BY <1>1, ReplayRoutes DEF AllOnce, AskedOnce
<1>3. ASSUME NEW r \in Requests PROVE AskedOnce(r)'
  BY <1>1, <1>2, EmptyQueue DEF AllOnce, AskedOnce
<1>. QED BY <1>3 DEF AllOnce

\* No step puts a request in a queue twice, or in both queues.
LEMMA OnceStep == TInv /\ NoBacklog /\ AllOnce /\ [Next]_cvars => AllOnce'
<1> SUFFICES ASSUME TInv, NoBacklog, AllOnce, [Next]_cvars PROVE AllOnce'
  OBVIOUS
<1>1. CASE ReadCommand
  <2>1. HandleServerInput(Head(inbound), now) /\ chan' \in {chan, <<>>} /\ UNCHANGED caller
    BY <1>1 DEF ReadCommand, Loop
  <2>2. CASE ReceiveInfo
    BY <2>1, <2>2, OnceInfo
  <2>3. CASE UNCHANGED answer /\ preliminary' \in {preliminary, <<>>}
    BY <2>1, <2>3, OnceQuiet
  <2>. QED BY <2>1, <2>2, <2>3
           DEF HandleServerInput, ReceiveNotInfo, ReceiveMsg, DeliverWithin, ReceiveHMsg,
               ReceiveKeepAlive, Disregard, Leave, binding
<1>2. CASE TickPing \/ TickPong \/ TickKeepAlive
  <2>1. UNCHANGED answer /\ preliminary' \in {preliminary, <<>>} /\ UNCHANGED caller
        /\ chan' \in {chan, <<>>}
    BY <1>2
       DEF TickPing, TickPong, TickKeepAlive, Loop, HandleSendPingTimeout, HandleSendPongTimeout,
           HandleKeepAliveTimeout, Enqueue, Leave, binding
  <2>. QED BY <2>1, OnceQuiet
<1>3. CASE Transmit \/ ReadError \/ ReadEof \/ Server \/ Tick \/ UNCHANGED cvars
  <2>1. UNCHANGED answer /\ preliminary' \in {preliminary, <<>>} /\ UNCHANGED caller
        /\ chan' \in {chan, <<>>}
    BY <1>3
       DEF Transmit, PollTransmit, ReadError, ReadEof, Loop, Leave, Server, Greet, ServerReads,
           ServerPings, ServerGarbles, ServerCloses, ServerHangs, ServerDelivers, ServerSends,
           Tick, cvars, binding, loop
  <2>. QED BY <2>1, OnceQuiet
<1>4. ASSUME NEW r \in Requests, CallSubscribe(r) PROVE AllOnce'
  <2> DEFINE cmd == Subscribe(r, MaxMsgs[r])
  <2>1. /\ cmd \in ConnectionCommand /\ Asks(cmd, r) /\ \A q : q # r => ~Asks(cmd, q)
        /\ chan \in Seq(ConnectionCommand) /\ caller \in [Requests -> {"idle", "live", "gone"}]
    BY ConnectionAssumption, HeadsTyped
       DEF Subscribe, ConnectionCommand, Asks, TInv, CallerTyped
  <2>2. /\ UNCHANGED <<answer, preliminary>> /\ caller[r] = "idle"
        /\ caller' = [caller EXCEPT ![r] = "live"]
        /\ chan' = chan \/ chan' = Append(chan, cmd)
    BY <1>4 DEF CallSubscribe, Offer, binding
  <2> HIDE DEF cmd
  <2>3. ASSUME NEW q \in Requests PROVE AskedOnce(q)'
    <3>1. AskedOnce(q) /\ (q # r => caller'[q] = caller[q]) /\ caller'[r] = "live"
      BY <2>1, <2>2 DEF AllOnce
    <3>2. CASE chan' = chan
      BY <2>2, <3>1, <3>2 DEF AskedOnce
    <3>3. CASE chan' = Append(chan, cmd)
      <4>1. HeldIn(chan', q) <=> HeldIn(chan, q) \/ q = r
        BY <2>1, <3>3, HeldInQueues
      <4>2. Single(chan', q)
        BY <2>1, <2>2, <3>1, <3>3, SinglePush DEF AskedOnce
      <4>. QED BY <2>2, <3>1, <4>1, <4>2 DEF AskedOnce
    <3>. QED BY <2>2, <3>2, <3>3
  <2>. QED BY <2>3 DEF AllOnce
<1>5. ASSUME NEW r \in Requests,
             SubscribeReturns(r) \/ NextMessage(r) \/ CancelSubscribe(r) \/ DropSubscriber(r)
      PROVE  AllOnce'
  <2>1. UNCHANGED <<preliminary, answer>>
    BY <1>5
       DEF SubscribeReturns, NextMessage, TakeMsg, CancelSubscribe, DropSubscriber, DropReceiver,
           binding, loop
  <2>2. \A q \in Requests : caller'[q] = "idle" => caller[q] = "idle"
    BY <1>5
       DEF SubscribeReturns, NextMessage, TakeMsg, CancelSubscribe, DropSubscriber, DropReceiver,
           TInv, CallerTyped
  <2>3. \/ chan' = chan
        \/ \E cmd \in ConnectionCommand : cmd.type # "Subscribe" /\ chan' = Append(chan, cmd)
    <3>1. CASE DropSubscriber(r)
      <4>1. Unsubscribe(answer[r]) \in ConnectionCommand /\ Unsubscribe(answer[r]).type # "Subscribe"
        BY <3>1 DEF DropSubscriber, TInv, HoldersAnswered, FieldsTyped, Unsubscribe, ConnectionCommand
      <4>. QED BY <3>1, <4>1 DEF DropSubscriber, Offer
    <3>. QED BY <1>5, <3>1 DEF SubscribeReturns, NextMessage, CancelSubscribe, loop
  <2>. QED BY <2>1, <2>2, <2>3, OnceQuiet
<1>6. CASE CallPublish
  <2>1. UNCHANGED <<preliminary, answer, caller>>
    BY <1>6 DEF CallPublish, binding
  <2>2. \/ chan' = chan
        \/ \E cmd \in ConnectionCommand : cmd.type # "Subscribe" /\ chan' = Append(chan, cmd)
    <3>1. published + 1 \in 1..MaxPublishes
      BY <1>6, ConnectionAssumption DEF CallPublish, TInv, UsersTyped
    <3>2. Publish(published + 1) \in ConnectionCommand /\ Publish(published + 1).type # "Subscribe"
      BY <3>1, ConnectionAssumption DEF Publish, ConnectionCommand
    <3>. QED BY <1>6, <3>2 DEF CallPublish, Offer
  <2>. QED BY <2>1, <2>2, OnceQuiet
<1>. QED BY <1>1, <1>2, <1>3, <1>4, <1>5, <1>6, OnceRecv, ConnectionAssumption DEF Next, Run, Users

-----------------------------------------------------------------------------
(* The table is abreast of what the server will serve.                     *)

\* Nothing is sent, and nothing served, before INFO.
Unstarted ==
    conn_state = "AwaitingInfo" =>
        outbound = <<>> /\ buffered_transmits = <<>> /\ DOMAIN server.subs = {}

\* Until the socket is closed, when commands are lost.
Abreast ==
    Live /\ server.mode # "closed" => Routes(DOMAIN server.subs, Ahead, sid2subscriber, answer)

RInv == NoBacklog /\ AllOnce /\ Unstarted /\ Abreast

\* The stream on its way to the server is one of commands.
LEMMA AheadTyped ==
    ASSUME TInv
    PROVE  /\ Sent \in Seq(ClientCommand) /\ Ahead = Sent \o buffered_transmits
           /\ Ahead \in Seq(ClientCommand) /\ buffered_transmits \in Seq(ClientCommand)
<1>1. /\ Len(outbound) \in Nat /\ DOMAIN outbound = 1..Len(outbound)
      /\ \A i \in DOMAIN outbound : outbound[i].command \in ClientCommand
  <2> DEFINE Written == [command : ClientCommand, at : Nat]
  <2>1. outbound \in Seq(Written) /\ \A m \in Written : m.command \in ClientCommand
    BY DEF TInv, StreamsTyped
  <2> HIDE DEF Written
  <2>. QED BY <2>1
<1>2. Sent \in Seq(ClientCommand)
  BY <1>1 DEF Sent
<1>. QED BY <1>2 DEF Ahead, Sent, TInv, FieldsTyped

\* Moving the head of a sequence to the end of the one before it.
LEMMA HeadMoves ==
    ASSUME NEW C, NEW p \in Seq(C), NEW q \in Seq(C), q # <<>>
    PROVE  Append(p, Head(q)) \o Tail(q) = p \o q
OBVIOUS

\* The head of the first sequence is the head of both together.
LEMMA HeadLeaves ==
    ASSUME NEW C, NEW p \in Seq(C), NEW q \in Seq(C), p # <<>>
    PROVE  p \o q # <<>> /\ Head(p \o q) = Head(p) /\ Tail(p \o q) = Tail(p) \o q
OBVIOUS

\* Transmitting moves a command, and the server reads the first.
LEMMA AheadMoves ==
    ASSUME TInv
    PROVE  /\ /\ buffered_transmits # <<>> /\ buffered_transmits' = Tail(buffered_transmits)
              /\ outbound' = Append(outbound, [command |-> Head(buffered_transmits), at |-> now])
              => Ahead' = Ahead
           /\ outbound # <<>> /\ outbound' = Tail(outbound) /\ UNCHANGED buffered_transmits =>
                  Ahead # <<>> /\ Head(Ahead) = Head(outbound).command /\ Ahead' = Tail(Ahead)
<1> DEFINE Written == [command : ClientCommand, at : Nat]
           N == Len(outbound)
<1>1. outbound \in Seq(Written)
  BY DEF TInv, StreamsTyped
<1>2. N \in Nat /\ DOMAIN outbound = 1..N
  <2> HIDE DEF Written
  <2>. QED BY <1>1
<1>3. ASSUME buffered_transmits # <<>>, buffered_transmits' = Tail(buffered_transmits),
             outbound' = Append(outbound, [command |-> Head(buffered_transmits), at |-> now])
      PROVE  Ahead' = Ahead
  <2> DEFINE m == [command |-> Head(buffered_transmits), at |-> now]
  <2>1. m \in Written /\ m.command = Head(buffered_transmits)
    BY <1>3, AheadTyped, HeadsTyped
  <2> HIDE DEF m, Written
  <2>2. /\ DOMAIN outbound' = 1..(N + 1) /\ outbound'[N + 1] = m
        /\ \A i \in 1..N : outbound'[i] = outbound[i]
    BY <1>1, <1>2, <1>3, <2>1 DEF m
  <2>3. Sent' = Append(Sent, Head(buffered_transmits))
    <3>1. Len(Sent) = N
      BY <1>2, AheadTyped DEF Sent
    <3>. QED BY <1>2, <2>1, <2>2, <3>1 DEF Sent
  <2>4. Ahead' = Sent' \o buffered_transmits'
    BY DEF Ahead, Sent
  <2>. QED BY <1>3, <2>3, <2>4, AheadTyped, HeadMoves
<1>4. ASSUME outbound # <<>>, outbound' = Tail(outbound), UNCHANGED buffered_transmits
      PROVE  Ahead # <<>> /\ Head(Ahead) = Head(outbound).command /\ Ahead' = Tail(Ahead)
  <2> HIDE DEF Written
  <2>1. /\ N # 0 /\ DOMAIN outbound' = 1..(N - 1) /\ Head(outbound) = outbound[1]
        /\ \A i \in 1..(N - 1) : outbound'[i] = outbound[i + 1]
    BY <1>1, <1>2, <1>4
  <2>2. Sent # <<>> /\ Head(Sent) = Head(outbound).command /\ Sent' = Tail(Sent)
    <3>1. Len(Sent) = N
      BY <1>2, AheadTyped DEF Sent
    <3>2. Sent # <<>> /\ Head(Sent) = Sent[1] /\ 1 \in DOMAIN outbound
      BY <1>2, <2>1, <3>1, AheadTyped
    <3>3. /\ Tail(Sent) \in [1..(N - 1) -> ClientCommand]
          /\ \A i \in 1..(N - 1) : Tail(Sent)[i] = Sent[i + 1]
      <4>1. /\ Tail(Sent) \in Seq(ClientCommand) /\ Len(Tail(Sent)) = N - 1
            /\ \A i \in 1..Len(Tail(Sent)) : Tail(Sent)[i] = Sent[i + 1]
        BY <3>1, <3>2, AheadTyped, HeadTailProperties
      <4>. QED BY <4>1, LenProperties
    <3>4. Sent' = [i \in 1..(N - 1) |-> outbound[i + 1].command]
      BY <1>2, <2>1 DEF Sent
    <3>5. \A i \in 1..(N - 1) : Sent[i + 1] = outbound[i + 1].command
      BY <1>2, <2>1 DEF Sent
    <3>6. Tail(Sent) = [i \in 1..(N - 1) |-> outbound[i + 1].command]
      BY <3>3, <3>5
    <3>. QED BY <2>1, <3>2, <3>4, <3>6 DEF Sent
  <2>3. Ahead' = Sent' \o buffered_transmits'
    BY DEF Ahead, Sent
  <2>. QED BY <1>4, <2>2, <2>3, AheadTyped, HeadLeaves
<1>. QED BY <1>3, <1>4

\* Before INFO there are no answers.
LEMMA AbreastInit == Init => Unstarted /\ Abreast
<1> SUFFICES ASSUME Init PROVE Unstarted /\ Abreast
  OBVIOUS
<1>1. conn_state = "AwaitingInfo" /\ DOMAIN server.subs = {}
  BY DEF Init, BindingInit, NoSubscribers
<1>. QED BY <1>1 DEF Init, BindingInit, Unstarted, Abreast, Live

\* A step that leaves the stream, the table and the answers alone, and in which the
\* server gives up subscriptions at most.
LEMMA AbreastQuiet ==
    ASSUME Unstarted, Abreast, UNCHANGED <<outbound, buffered_transmits, sid2subscriber, answer>>,
           DOMAIN server'.subs \subseteq DOMAIN server.subs,
           Live' => Live, server'.mode # "closed" => server.mode # "closed",
           conn_state' = "AwaitingInfo" => conn_state = "AwaitingInfo"
    PROVE  Unstarted' /\ Abreast'
<1>1. Ahead' = Ahead
  BY DEF Ahead, Sent
<1>2. \A sid : Wanted(DOMAIN server'.subs, Ahead, sid) => Wanted(DOMAIN server.subs, Ahead, sid)
  BY DEF Wanted
<1>3. Abreast'
  BY <1>1, <1>2 DEF Abreast, Routes
<1>. QED BY <1>3 DEF Unstarted

\* A step that leaves the variant.
LEMMA AbreastLeft ==
    ASSUME Unstarted, NEW state, Leave(state), UNCHANGED <<outbound, server>>,
           state = "InfoReceived" => task' = "ended",
           state = "AwaitingInfo" => conn_state = "AwaitingInfo"
    PROVE  Unstarted' /\ Abreast'
BY DEF Leave, Unstarted, Abreast, Live

\* The loop takes a command from the queue.
LEMMA AbreastRecv ==
    ASSUME TInv, RInv, RecvCommand
    PROVE  Unstarted' /\ Abreast'
<1> DEFINE cmd == Head(chan)
<1>1. /\ chan # <<>> /\ chan \in Seq(ConnectionCommand) /\ cmd \in ConnectionCommand
      /\ HandleClientInput(cmd) /\ UNCHANGED <<outbound, server>> /\ task = "running"
      /\ conn_state' # "Panicked" => UNCHANGED task
  BY HeadsTyped DEF RecvCommand, Selecting, Loop
<1>2. CASE conn_state = "InfoReceived"
  <2> DEFINE s == InfoReceived(buffered_transmits, sid_generator, sid2subscriber)
             t == StepCommand(s, cmd)
             subs == DOMAIN server.subs
  <2>1. /\ s \in StepState /\ s.answer = answer /\ s.buffered_transmits = buffered_transmits
        /\ s.sid2subscriber = sid2subscriber
    BY DEF InfoReceived, StepState, TInv, FieldsTyped
  <2>2. Become(t)
    BY <1>1, <1>2 DEF HandleClientInput, Terminal
  <2> HIDE DEF s
  <2>3. CASE Leave("Panicked")
    BY <1>1, <2>3, AbreastLeft DEF RInv
  <2>4. CASE ~t.panicked
    <3>1. /\ conn_state' = "InfoReceived" /\ buffered_transmits' = t.buffered_transmits
          /\ sid2subscriber' = t.sid2subscriber /\ answer' = t.answer
      BY <2>2, <2>4 DEF Become
    <3>2. cmd.type = "Subscribe" => s.answer[cmd.request] = None
      <4>1. 1 \in DOMAIN chan /\ chan[1] = cmd
        BY <1>1
      <4>2. ASSUME cmd.type = "Subscribe" PROVE answer[cmd.request] = None
        <5>1. cmd.request \in Requests /\ HeldIn(chan, cmd.request)
          BY <1>1, <4>1, <4>2 DEF ConnectionCommand, HeldIn, Asks
        <5>. QED BY <5>1 DEF RInv, AllOnce, AskedOnce
      <4>. QED BY <2>1, <4>2
    <3>3. ASSUME server.mode # "closed"
          PROVE  Routes(subs, Ahead', sid2subscriber', answer')
      <4>1. Ahead = Sent \o s.buffered_transmits /\ Sent \in Seq(ClientCommand)
        BY <2>1, AheadTyped
      <4>2. Routes(subs, Sent \o s.buffered_transmits, s.sid2subscriber, s.answer)
        BY <1>1, <1>2, <2>1, <3>3, <4>1 DEF RInv, Abreast, Live
      <4>3. Ahead' = Sent \o t.buffered_transmits
        BY <1>1, <3>1 DEF Ahead, Sent
      <4> HIDE DEF cmd, subs
      <4>. QED BY <1>1, <2>1, <2>4, <3>1, <3>2, <4>1, <4>2, <4>3, StepRoutes
    <3>. QED BY <1>1, <3>1, <3>3 DEF Unstarted, Abreast
  <2>. QED BY <2>2, <2>3, <2>4 DEF Become
<1>3. CASE conn_state # "InfoReceived"
  <2>1. UNCHANGED <<conn_state, buffered_transmits, sid2subscriber, answer>>
    BY <1>1, <1>3 DEF HandleClientInput, inner
  <2>. QED BY <1>1, <1>3, <2>1, AbreastQuiet DEF RInv, Live
<1>. QED BY <1>2, <1>3

\* The loop reads INFO and replays the backlog.
LEMMA AbreastInfo ==
    ASSUME TInv, RInv, ReceiveInfo, UNCHANGED <<outbound, server>>
    PROVE  Unstarted' /\ Abreast'
<1> DEFINE s == Replay(preliminary)
<1>1. /\ conn_state = "AwaitingInfo" /\ outbound = <<>> /\ DOMAIN server.subs = {} /\ Become(s)
      /\ preliminary \in Seq(ConnectionCommand) /\ answer \in [Requests -> Nat \cup {None}]
  BY DEF ReceiveInfo, RInv, Unstarted, TInv, FieldsTyped
<1>2. CASE Leave("Panicked")
  BY <1>2, AbreastLeft DEF RInv
<1>3. CASE ~s.panicked
  <2>1. /\ conn_state' = "InfoReceived" /\ buffered_transmits' = s.buffered_transmits
        /\ sid2subscriber' = s.sid2subscriber /\ answer' = s.answer
    BY <1>1, <1>3 DEF Become
  <2>2. Routes({}, s.buffered_transmits, s.sid2subscriber, s.answer)
    BY <1>1, <1>3, ReplayRoutes DEF RInv, AllOnce, AskedOnce
  <2>3. s.buffered_transmits \in Seq(ClientCommand)
    BY <1>1, ReplayTyped DEF StepState
  <2>4. Ahead' = s.buffered_transmits
    <3>1. Ahead' = <<>> \o s.buffered_transmits
      BY <1>1, <2>1 DEF Ahead, Sent
    <3>. QED BY <2>3, <3>1
  <2>. QED BY <1>1, <2>1, <2>2, <2>4 DEF Unstarted, Abreast
<1>. QED BY <1>1, <1>2, <1>3 DEF Become

\* A timer puts at most a PING or a PONG behind the stream.
LEMMA AbreastTimer ==
    ASSUME TInv, RInv, NEW t,
           HandleSendPingTimeout(t) \/ HandleSendPongTimeout(t) \/ HandleKeepAliveTimeout(t),
           UNCHANGED <<outbound, server>>, Live' => task = "running"
    PROVE  Unstarted' /\ Abreast'
<1>1. CASE UNCHANGED binding
  BY <1>1, AbreastQuiet DEF RInv, Live, binding, inner
<1>2. CASE Leave("ConnectionLost")
  BY <1>2, AbreastLeft DEF RInv
<1>3. ASSUME NEW c \in {Ping, Pong}, conn_state = "InfoReceived",
             buffered_transmits' = Append(buffered_transmits, c),
             UNCHANGED <<conn_state, sid2subscriber, answer>>
      PROVE  Unstarted' /\ Abreast'
  <2>1. c \in ClientCommand /\ c.type # "SUB"
    BY WireTyped DEF Ping, Pong
  <2>2. Ahead' = Append(Ahead, c)
    <3>1. Ahead' = Sent \o Append(buffered_transmits, c)
      BY <1>3 DEF Ahead, Sent
    <3>2. \A p, q \in Seq(ClientCommand) : p \o Append(q, c) = Append(p \o q, c)
      BY <2>1
    <3>. QED BY <3>1, <3>2, AheadTyped
  <2>3. ASSUME Live', server'.mode # "closed"
        PROVE  Routes(DOMAIN server'.subs, Ahead', sid2subscriber', answer')
    <3>1. Routes(DOMAIN server.subs, Ahead, sid2subscriber, answer)
      BY <1>3, <2>3 DEF RInv, Abreast, Live
    <3>. QED BY <1>3, <2>1, <2>2, <3>1, AheadTyped, RoutesQuiet
  <2>. QED BY <1>3, <2>3 DEF Unstarted, Abreast
<1>. QED BY <1>1, <1>2, <1>3
         DEF HandleSendPingTimeout, HandleSendPongTimeout, HandleKeepAliveTimeout, Enqueue

\* The server takes the first command off the stream.
LEMMA AbreastRead ==
    ASSUME TInv, RInv, ServerReads
    PROVE  Unstarted' /\ Abreast'
<1> DEFINE cmd == Head(outbound).command
<1>1. /\ outbound # <<>> /\ outbound' = Tail(outbound) /\ server' = Serve(cmd)
      /\ UNCHANGED <<binding, task>>
  BY DEF ServerReads, loop
<1>2. /\ Ahead # <<>> /\ Head(Ahead) = cmd /\ Ahead' = Tail(Ahead)
      /\ Ahead \in Seq(ClientCommand)
  BY <1>1, AheadMoves, AheadTyped DEF binding, inner
<1>3. cmd \in ClientCommand
  BY <1>2
<1>4. server'.mode = server.mode
  BY <1>1, <1>3, ServeTyped DEF TInv
<1>5. server \in ServerState
  BY DEF TInv, ServerTyped
<1> HIDE DEF cmd
<1>6. ASSUME NEW sid
      PROVE  \/ sid \in DOMAIN server'.subs => sid \in DOMAIN server.subs /\ cmd # Unsub(sid, None)
             \/ cmd.type = "SUB" /\ cmd.sid = sid
  <2>1. CASE cmd.type = "SUB"
    <3>1. server'.subs = Extend(server.subs, cmd.sid, None)
      BY <1>1, <1>5, <2>1 DEF Serve, ServerState
    <3>2. cmd # Unsub(sid, None)
      BY <2>1 DEF Unsub
    <3>. QED BY <2>1, <3>1, <3>2 DEF Extend
  <2>2. CASE cmd.type = "UNSUB" /\ cmd.sid \in DOMAIN server.subs
    <3>1. cmd = Unsub(sid, None) => cmd.sid = sid /\ cmd.max_msgs = None
      BY DEF Unsub
    <3>2. CASE cmd.max_msgs = None \/ server.serials[cmd.sid] >= cmd.max_msgs
      <4>1. server'.subs = Without(server.subs, cmd.sid)
        BY <1>1, <1>5, <2>2, <3>2 DEF Serve, ServerState
      <4>. QED BY <3>1, <4>1 DEF Without
    <3>3. CASE ~(cmd.max_msgs = None \/ server.serials[cmd.sid] >= cmd.max_msgs)
      <4>1. server' = [server EXCEPT !.subs[cmd.sid] = cmd.max_msgs]
        BY <1>1, <2>2, <3>3 DEF Serve
      <4>2. DOMAIN server'.subs = DOMAIN server.subs
        BY <1>5, <4>1 DEF ServerState
      <4>. QED BY <3>1, <3>3, <4>2
    <3>. QED BY <3>2, <3>3
  <2>3. CASE cmd.type # "SUB" /\ ~(cmd.type = "UNSUB" /\ cmd.sid \in DOMAIN server.subs)
    <3>1. server'.subs = server.subs
      BY <1>1, <1>5, <2>3 DEF Serve, ServerState
    <3>2. sid \in DOMAIN server.subs => cmd # Unsub(sid, None)
      BY <2>3 DEF Unsub
    <3>. QED BY <3>1, <3>2
  <2>. QED BY <2>1, <2>2, <2>3
<1>7. \A sid : Wanted(DOMAIN server'.subs, Ahead', sid) => Wanted(DOMAIN server.subs, Ahead, sid)
  BY <1>2, <1>6, WantedPop
<1>8. Abreast'
  <2>1. ASSUME Live, server.mode # "closed"
        PROVE  Routes(DOMAIN server'.subs, Ahead', sid2subscriber, answer)
    BY <1>7, <2>1 DEF RInv, Abreast, Routes
  <2>. QED BY <1>1, <1>4, <2>1 DEF Abreast, Live, binding, inner
<1>. QED BY <1>1, <1>8 DEF RInv, Unstarted, binding, inner

\* Every step keeps the table abreast of the stream.
LEMMA AbreastStep == TInv /\ RInv /\ [Next]_cvars => Unstarted' /\ Abreast'
<1> SUFFICES ASSUME TInv, RInv, [Next]_cvars PROVE Unstarted' /\ Abreast'
  OBVIOUS
<1>1. CASE ReadCommand
  <2>1. /\ HandleServerInput(Head(inbound), now) /\ UNCHANGED <<outbound, server>>
        /\ task = "running"
    BY <1>1 DEF ReadCommand, Selecting
  <2>2. ASSUME NEW state \in Terminal, Leave(state) PROVE Unstarted' /\ Abreast'
    BY <2>1, <2>2, AbreastLeft DEF RInv, Terminal
  <2>3. CASE UNCHANGED <<conn_state, buffered_transmits, sid2subscriber, answer>>
    BY <2>1, <2>3, AbreastQuiet DEF RInv, Live
  <2>. QED BY <2>1, <2>2, <2>3, AbreastInfo
           DEF HandleServerInput, ReceiveNotInfo, ReceiveMsg, DeliverWithin, ReceiveHMsg,
               ReceiveKeepAlive, Disregard, binding, inner, Terminal
<1>2. CASE TickPing \/ TickPong \/ TickKeepAlive
  BY <1>2, AbreastTimer DEF TickPing, TickPong, TickKeepAlive, Selecting
<1>3. CASE ReadError
  BY <1>3, AbreastQuiet DEF ReadError, Selecting, Live, RInv, binding, inner
<1>4. CASE ReadEof
  BY <1>4, AbreastLeft DEF ReadEof, RInv
<1>5. CASE Transmit
  <2>1. /\ buffered_transmits # <<>> /\ buffered_transmits' = Tail(buffered_transmits)
        /\ UNCHANGED <<conn_state, sid2subscriber, answer, task, server>>
        /\ \/ outbound' = Append(outbound, [command |-> Head(buffered_transmits), at |-> now])
           \/ server.mode = "closed"
    BY <1>5 DEF Transmit, PollTransmit, loop
  <2>2. server.mode # "closed" => Ahead' = Ahead
    BY <2>1, AheadMoves
  <2>. QED BY <2>1, <2>2 DEF RInv, Unstarted, Abreast, Live
<1>6. CASE Users
  BY <1>6, AbreastQuiet
     DEF RInv, Live, Users, CallSubscribe, SubscribeReturns, NextMessage, TakeMsg, CancelSubscribe,
         DropSubscriber, DropReceiver, CallPublish, binding, inner, loop, net
<1>7. CASE Greet \/ ServerPings \/ ServerGarbles \/ ServerHangs
  <2>1. /\ UNCHANGED <<outbound, buffered_transmits, sid2subscriber, answer, task, conn_state>>
        /\ server.mode # "closed" \/ UNCHANGED server
    BY <1>7 DEF Greet, ServerPings, ServerGarbles, ServerHangs, ServerSends, binding, inner, loop
  <2>2. server \in ServerState
    BY DEF TInv, ServerTyped
  <2>3. server'.subs = server.subs
    BY <1>7, <2>2 DEF Greet, ServerPings, ServerGarbles, ServerHangs, ServerState
  <2>. QED BY <2>1, <2>3, AbreastQuiet DEF RInv, Live
<1>8. CASE ServerCloses
  <2>1. /\ UNCHANGED <<outbound, buffered_transmits, conn_state>>
        /\ server' = [server EXCEPT !.mode = "closed"] /\ server \in ServerState
    BY <1>8 DEF ServerCloses, ServerSends, binding, inner, TInv, ServerTyped
  <2>2. server'.mode = "closed" /\ server'.subs = server.subs
    BY <2>1 DEF ServerState
  <2>. QED BY <2>1, <2>2 DEF RInv, Unstarted, Abreast
<1>9. ASSUME NEW sid \in DOMAIN server.subs, ServerDelivers(sid) PROVE Unstarted' /\ Abreast'
  <2> DEFINE serial == server.serials[sid] + 1
  <2>1. /\ UNCHANGED <<outbound, buffered_transmits, sid2subscriber, answer, task, conn_state>>
        /\ server.mode = "up" /\ server \in ServerState
    BY <1>9 DEF ServerDelivers, ServerSends, binding, inner, loop, TInv, ServerTyped
  <2>2. server'.subs = IF server.subs[sid] = serial THEN Without(server.subs, sid) ELSE server.subs
    BY <1>9, <2>1 DEF ServerDelivers, ServerState
  <2>3. DOMAIN server'.subs \subseteq DOMAIN server.subs
    BY <2>2 DEF Without
  <2>. QED BY <2>1, <2>3, AbreastQuiet DEF RInv, Live
<1>10. CASE Tick \/ UNCHANGED cvars
  BY <1>10, AbreastQuiet DEF RInv, Live, Tick, cvars, binding, inner, loop, net
<1>. QED BY <1>1, <1>2, <1>3, <1>4, <1>5, <1>6, <1>7, <1>8, <1>9, <1>10, AbreastRecv, AbreastRead
         DEF Next, Run, Server

\* What the server may deliver on, the client routes to whoever was told that sid: for
\* every number of requests, every interleaving and every bound of the queues.
THEOREM SubscriptionsRouted == Spec => []ServedMeansRouted
<1>1. Init => RInv
  BY HeededInit, OnceInit, AbreastInit DEF RInv
<1>2. TInv /\ NoBacklog /\ Heeded /\ RInv /\ [Next]_cvars => RInv'
  BY HeededStep, OnceStep, AbreastStep DEF RInv
<1>3. RInv => ServedMeansRouted
  <2> SUFFICES ASSUME RInv, Live, server.mode = "up", NEW sid \in DOMAIN server.subs,
                      \A i \in DOMAIN Ahead : Ahead[i] # Unsub(sid, None)
               PROVE  sid \in DOMAIN sid2subscriber /\ answer[sid2subscriber[sid]] = sid
    BY DEF ServedMeansRouted
  <2>1. Wanted(DOMAIN server.subs, Ahead, sid)
    BY DEF Wanted
  <2>. QED BY <2>1 DEF RInv, Abreast, Routes
<1>. QED BY <1>1, <1>2, <1>3, TInvInit, TInvStep, HeededInit, HeededStep, PTL DEF Spec

=============================================================================
