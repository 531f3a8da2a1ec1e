-------------------------- MODULE KeepAliveProofs --------------------------
(***************************************************************************)
(* Theorems about keep-alive in Connection's prompt system: a server that  *)
(* has hung is given up in time (HangDetected), one that answers is not    *)
(* (NoFalseLoss), and PINGs do not pile up (OnePingUnread).                *)
(***************************************************************************)
EXTENDS StreamProofs

-----------------------------------------------------------------------------
(* Queues without commands of a kind.                                      *)

Lacks(queue, kind) == \A i \in DOMAIN queue : queue[i] \notin kind

\* What is lacking at either end of a queue, and in the rest of it.
LEMMA LacksIs ==
    ASSUME NEW C, NEW queue \in Seq(C), NEW kind
    PROVE  /\ Lacks(<<>>, kind)
           /\ \A c \in C : Lacks(Append(queue, c), kind) <=> Lacks(queue, kind) /\ c \notin kind
           /\ queue # <<>> =>
                  (Lacks(queue, kind) <=> Head(queue) \notin kind /\ Lacks(Tail(queue), kind))
<1> DEFINE N == Len(queue)
<1>1. N \in Nat /\ DOMAIN queue = 1..N
  OBVIOUS
<1>2. ASSUME NEW c \in C
      PROVE  Lacks(Append(queue, c), kind) <=> Lacks(queue, kind) /\ c \notin kind
  <2>1. /\ DOMAIN Append(queue, c) = 1..(N + 1) /\ Append(queue, c)[N + 1] = c
        /\ \A i \in 1..N : Append(queue, c)[i] = queue[i]
    OBVIOUS
  <2> HIDE DEF N
  <2>. QED BY <1>1, <2>1 DEF Lacks
<1>3. ASSUME queue # <<>>
      PROVE  Lacks(queue, kind) <=> Head(queue) \notin kind /\ Lacks(Tail(queue), kind)
  <2>1. /\ N >= 1 /\ DOMAIN Tail(queue) = 1..(N - 1) /\ Head(queue) = queue[1]
        /\ \A i \in 1..(N - 1) : Tail(queue)[i] = queue[i + 1]
    BY <1>3
  <2> HIDE DEF N
  <2>2. \A i \in 1..N : i = 1 \/ (i - 1 \in 1..(N - 1) /\ i = (i - 1) + 1)
    BY <1>1
  <2>3. 1 \in 1..N /\ \A i \in 1..(N - 1) : i + 1 \in 1..N
    BY <1>1, <2>1
  <2>. QED BY <1>1, <2>1, <2>2, <2>3 DEF Lacks
<1>. QED BY <1>2, <1>3 DEF Lacks

\* A queue lacks a command when it counts none of it.
LEMMA LacksCount ==
    ASSUME NEW C, NEW queue \in Seq(C), NEW cmd
    PROVE  Lacks(queue, {cmd}) <=> Count(queue, cmd) = 0
<1> DEFINE at == {i \in DOMAIN queue : queue[i] = cmd}
<1>1. IsFiniteSet(at)
  <2>1. IsFiniteSet(1..Len(queue)) /\ at \subseteq 1..Len(queue)
    BY FS_Interval
  <2>. QED BY <2>1, FS_Subset
<1>2. at = {} <=> Cardinality(at) = 0
  <2> HIDE DEF at
  <2>. QED BY <1>1, FS_EmptySet
<1>. QED BY <1>2 DEF Lacks, Count

-----------------------------------------------------------------------------
(* Hanging servers.                                                        *)

SentAt  == keep_alive.last_ping_sent_at
HeardAt == keep_alive.last_pong_received_at

\* Once the server hangs no time passes before its last answers are read, and none of them
\* puts the loss off beyond KeepAlive from then.  What blocks the loop blocks it for ever.
HangInv ==
    server.mode = "hung" =>
        /\ server.hung_at \in Nat /\ server.hung_at <= now
        /\ task = "running" /\ ~Blocked =>
               /\ inbound # <<>> => now = server.hung_at
               /\ HeardAt # None => HeardAt <= server.hung_at
               /\ Live /\ HeardAt # None => now <= server.hung_at + KeepAlive

\* The steps of a prompt system are steps of the system.
LEMMA PromptIsNext == [PromptNext]_cvars => [Next]_cvars
BY DEF PromptNext, Next, PromptTick

\* What is written to the socket is a command and a time.
LEMMA OutboundHead ==
    ASSUME TInv
    PROVE  /\ \A i \in DOMAIN outbound :
                  outbound[i].command \in ClientCommand /\ outbound[i].at \in Nat
           /\ outbound # <<>> => Head(outbound).command \in ClientCommand
<1> DEFINE Written == [command : ClientCommand, at : Nat]
<1>1. outbound \in Seq(Written) /\ \A m \in Written : m.command \in ClientCommand /\ m.at \in Nat
  BY DEF TInv, StreamsTyped
<1> HIDE DEF Written
<1>. QED BY <1>1

\* What an iteration of the loop does to the time of the last answer.
LEMMA HeardMoves ==
    ASSUME TInv, Run
    PROVE  HeardAt' \in {HeardAt, None} \/ (inbound # <<>> /\ HeardAt' = now)
<1>1. keep_alive \in KeepAliveState
  BY DEF TInv, FieldsTyped
<1>2. ASSUME UNCHANGED keep_alive PROVE HeardAt' = HeardAt
  BY <1>2 DEF HeardAt
<1>3. ASSUME keep_alive' = NeverHeard PROVE HeardAt' = None
  BY <1>3 DEF NeverHeard, HeardAt
<1>4. ASSUME NEW state, Leave(state) PROVE HeardAt' = None
  BY <1>3, <1>4 DEF Leave
<1>5. ASSUME NEW s, Become(s) PROVE HeardAt' \in {HeardAt, None}
  <2>1. Leave("Panicked") \/ UNCHANGED keep_alive
    BY <1>5, Zenon DEF Become
  <2>. QED BY <1>2, <1>4, <2>1
<1>6. CASE RecvCommand
  <2>1. HandleClientInput(Head(chan))
    BY <1>6 DEF RecvCommand
  <2>2. (\E s : Become(s)) \/ UNCHANGED keep_alive
    BY <2>1 DEF HandleClientInput, inner
  <2>. QED BY <1>2, <1>5, <2>2
<1>7. CASE ReadCommand
  <2>1. inbound # <<>> /\ HandleServerInput(Head(inbound), now)
    BY <1>7 DEF ReadCommand
  <2>2. ASSUME NEW field \in {"last_ping_received_at", "last_pong_received_at"},
               ReceiveKeepAlive(field, now)
        PROVE  HeardAt' \in {HeardAt, now}
    BY <1>1, <2>2 DEF ReceiveKeepAlive, KeepAliveState, HeardAt
  <2>. QED BY <1>2, <1>4, <1>5, <2>1, <2>2
           DEF HandleServerInput, ReceiveInfo, ReceiveNotInfo, ReceiveMsg, DeliverWithin,
               ReceiveHMsg, Disregard, binding, inner
<1>8. ASSUME NEW command, NEW field \in {"last_ping_sent_at", "last_ping_received_at"}, NEW v,
             Enqueue(command, field, v)
      PROVE  HeardAt' = HeardAt
  BY <1>1, <1>8 DEF Enqueue, KeepAliveState, HeardAt
<1>9. CASE TickPing \/ TickPong \/ TickKeepAlive
  BY <1>2, <1>4, <1>8, <1>9
     DEF TickPing, TickPong, TickKeepAlive, HandleSendPingTimeout, HandleSendPongTimeout,
         HandleKeepAliveTimeout, binding, inner
<1>10. CASE Transmit \/ ReadError \/ ReadEof
  BY <1>2, <1>4, <1>10 DEF Transmit, PollTransmit, ReadError, ReadEof, binding, inner
<1>. QED BY <1>6, <1>7, <1>9, <1>10 DEF Run

\* The connection becomes live by INFO only.
LEMMA LiveStarts ==
    ASSUME Run, Live', conn_state # "InfoReceived"
    PROVE  ReadCommand /\ ReceiveInfo
<1>1. CASE ReadCommand
  BY <1>1
     DEF ReadCommand, HandleServerInput, ReceiveNotInfo, ReceiveMsg, DeliverWithin, ReceiveHMsg,
         ReceiveKeepAlive, Disregard, Leave, Live, binding
<1>2. CASE RecvCommand
  BY <1>2 DEF RecvCommand, HandleClientInput, Live, Terminal
<1>3. CASE TickPing \/ TickPong \/ TickKeepAlive
  BY <1>3
     DEF TickPing, TickPong, TickKeepAlive, HandleSendPingTimeout, HandleSendPongTimeout,
         HandleKeepAliveTimeout, binding, Live
<1>4. CASE Transmit \/ ReadError \/ ReadEof
  BY <1>4 DEF Transmit, PollTransmit, ReadError, ReadEof, Leave, binding, Live
<1>. QED BY <1>1, <1>2, <1>3, <1>4 DEF Run

\* Every step of the prompt system keeps it.
LEMMA HangStep == TInv /\ Deadlines /\ HangInv /\ [PromptNext]_cvars => HangInv'
<1> SUFFICES ASSUME TInv, Deadlines, HangInv, [PromptNext]_cvars, server'.mode = "hung"
             PROVE  HangInv'
  BY DEF HangInv
<1>1. /\ now \in Nat /\ tickers \in Tickers /\ keep_alive \in KeepAliveState
      /\ inbound \in Seq(Inbound) /\ server \in ServerState
  BY HeadsTyped DEF TInv, FieldsTyped, ServerTyped
<1>2. HeardAt \in Nat \cup {None} /\ (HeardAt # None => HeardAt <= now) /\ KeepAlive \in Nat
  BY <1>1, TimeoutsAssumption DEF HeardAt, KeepAliveState, Deadlines, TimesPast
<1>3. ASSUME UNCHANGED <<buffered_transmits, outbound, inbound, keep_alive, now, task, conn_state>>,
             server'.mode = server.mode, server'.hung_at = server.hung_at
      PROVE  HangInv'
  BY <1>3 DEF HangInv, Blocked, Live, HeardAt
<1>4. CASE Server
  <2>1. CASE ServerHangs
    <3>1. /\ server'.hung_at = now
          /\ UNCHANGED <<buffered_transmits, outbound, inbound, keep_alive, now, task, conn_state>>
      BY <1>1, <2>1 DEF ServerHangs, ServerState, binding, inner, loop
    <3>. QED BY <1>1, <1>2, <3>1 DEF HangInv, HeardAt
  <2>2. CASE ~ServerHangs
    <3>1. CASE ServerReads
      <4>1. outbound # <<>> /\ server' = Serve(Head(outbound).command) /\ server.mode # "hung"
        BY <3>1 DEF ServerReads
      <4>2. Head(outbound).command \in ClientCommand
        BY <4>1, OutboundHead
      <4>. QED BY <4>1, <4>2, ServeTyped DEF TInv
    <3>2. CASE \E sid \in DOMAIN server.subs : ServerDelivers(sid)
      BY <1>1, <3>2 DEF ServerDelivers, ServerState
    <3>3. CASE Greet \/ ServerPings \/ ServerGarbles \/ ServerCloses
      BY <1>1, <3>3 DEF Greet, ServerPings, ServerGarbles, ServerCloses, ServerState
    <3>. QED BY <1>4, <2>2, <3>1, <3>2, <3>3 DEF Server
  <2>. QED BY <2>1, <2>2
<1>5. CASE Users
  BY <1>3, <1>5
     DEF Users, CallSubscribe, SubscribeReturns, NextMessage, TakeMsg, CancelSubscribe,
         DropSubscriber, DropReceiver, CallPublish, binding, inner, loop, net
<1>6. CASE UNCHANGED cvars
  BY <1>3, <1>6 DEF cvars, binding, inner, loop, net
<1>7. CASE PromptTick
  <2>1. /\ UNCHANGED <<buffered_transmits, outbound, inbound, keep_alive, tickers, task, conn_state,
                       server>>
        /\ now' = now + 1 /\ Idle
    BY <1>7 DEF PromptTick, Tick, binding, inner, loop, net
  <2>2. ASSUME task = "running", ~Blocked
        PROVE  inbound = <<>> /\ tickers.keep_alive > now
    BY <1>1, <2>1, <2>2 DEF Idle, Tickers
  <2>3. ASSUME Live, ~Blocked, HeardAt # None
        PROVE  now + 1 <= server.hung_at + KeepAlive
    <3>1. tickers.keep_alive = HeardAt + KeepAlive /\ HeardAt <= server.hung_at
      BY <2>1, <2>3 DEF Deadlines, Polled, HeardAt, HangInv, Live
    <3>2. server.hung_at \in Nat /\ tickers.keep_alive > now
      BY <2>1, <2>2, <2>3 DEF HangInv, Live
    <3>. QED BY <1>1, <1>2, <2>3, <3>1, <3>2
  <2>4. (Blocked' <=> Blocked) /\ (Live' <=> Live) /\ HeardAt' = HeardAt
    BY <2>1 DEF Blocked, Live, HeardAt
  <2>5. server.hung_at \in Nat /\ server.hung_at <= now + 1
    BY <1>1, <2>1 DEF HangInv
  <2>. QED BY <2>1, <2>2, <2>3, <2>4, <2>5 DEF HangInv
<1>8. CASE Run
  <2>1. UNCHANGED <<now, server>> /\ task = "running"
    BY <1>8
       DEF Run, Transmit, TickPing, TickPong, TickKeepAlive, RecvCommand, ReadCommand, ReadError,
           ReadEof, Loop, Selecting
  <2>2. ~Blocked
    <3>1. CASE Transmit
      <4>1. Len(outbound) \in Nat /\ TcpCapacity \in Nat
        BY ConnectionAssumption DEF TInv, StreamsTyped
      <4>. QED BY <2>1, <3>1, <4>1 DEF Transmit, Blocked
    <3>2. CASE ~Transmit
      BY <1>8, <3>2
         DEF Run, TickPing, TickPong, TickKeepAlive, RecvCommand, ReadCommand, ReadError, ReadEof,
             Selecting, Blocked
    <3>. QED BY <3>1, <3>2
  <2>3. task' = "running" /\ inbound' # <<>> => inbound # <<>>
    BY <1>1, <1>8
       DEF Run, Transmit, TickPing, TickPong, TickKeepAlive, RecvCommand, ReadCommand, ReadError,
           ReadEof, Loop
  <2>4. HeardAt' \in {HeardAt, None} \/ (inbound # <<>> /\ HeardAt' = now)
    BY <1>8, HeardMoves
  <2>5. ASSUME task' = "running", ~Blocked', Live', HeardAt' # None
        PROVE  now <= server.hung_at + KeepAlive
    <3>1. CASE inbound # <<>>
      BY <1>1, <1>2, <2>1, <2>2, <2>5, <3>1 DEF HangInv
    <3>2. CASE inbound = <<>>
      <4>1. HeardAt # None /\ HeardAt' = HeardAt
        BY <2>4, <2>5, <3>2
      <4>2. Live
        BY <1>8, <2>1, <2>5, <3>2, LiveStarts DEF Live, ReadCommand
      <4>. QED BY <2>1, <2>2, <2>5, <4>1, <4>2 DEF HangInv
    <3>. QED BY <3>1, <3>2
  <2>. QED BY <1>1, <1>2, <2>1, <2>2, <2>3, <2>4, <2>5 DEF HangInv
<1>. QED BY <1>4, <1>5, <1>6, <1>7, <1>8 DEF PromptNext

\* Once a server that has answered a PING hangs, it is given up within KeepAlive, unless the
\* loop waits in writer.send() for ever: for every interval, and whatever else the loop
\* has to do.
THEOREM HangsDetected == PromptSpec => []HangDetected
<1>1. HangInv => HangDetected
  BY DEF HangInv, HangDetected, Live, HeardAt
<1>2. Init => HangInv
  BY DEF Init, HangInv
<1>. QED BY <1>1, <1>2, HangStep, PromptIsNext, TInvInit, TInvStep, DeadlinesInit, DeadlinesStep, PTL
         DEF PromptSpec

-----------------------------------------------------------------------------
(* Servers that are up: what a step does to what keep-alive looks at.      *)

\* Before INFO there is nothing to keep alive, and nothing comes before the greeting.
Unheard ==
    /\ server.mode = "new" => conn_state = "AwaitingInfo" /\ inbound = <<>>
    /\ conn_state = "AwaitingInfo" => keep_alive = NeverHeard

\* What was written to the socket was written in turn, and a server that is up has left its
\* first command unread for MaxRtt at most.
Stamped ==
    /\ \A i \in DOMAIN outbound : outbound[i].at <= now
    /\ \A i, j \in DOMAIN outbound : i <= j => outbound[i].at <= outbound[j].at
    /\ server.mode = "up" /\ outbound # <<>> => now <= outbound[1].at + MaxRtt

\* The ping ticker stands at the next PING, or at now when none was sent.
PingNext(at) == tickers.ping' = IF at = None THEN now ELSE at + PingInterval

\* INFO comes in.
Starts ==
    /\ conn_state = "AwaitingInfo" /\ SentAt' = None /\ HeardAt' = None
    /\ outbound' = <<>> /\ Lacks(buffered_transmits', {Ping})
    /\ PingNext(None) /\ UNCHANGED now

\* The loop sends a PING,
Beats ==
    /\ tickers.ping <= now /\ (SentAt # None => tickers.ping = SentAt + PingInterval)
    /\ buffered_transmits = <<>> /\ buffered_transmits' = <<Ping>>
    /\ SentAt' = tickers.ping /\ PingNext(tickers.ping)
    /\ UNCHANGED <<HeardAt, outbound, inbound, now>>

\* hears a PONG,
Hears ==
    /\ inbound # <<>> /\ inbound' = Tail(inbound)
    /\ HeardAt' = now /\ PingNext(SentAt)
    /\ UNCHANGED <<SentAt, buffered_transmits, outbound, now>>

\* or does something else;
Works ==
    /\ \/ UNCHANGED inbound
       \/ inbound' = <<Eof>>
       \/ /\ inbound # <<>> /\ inbound' = Tail(inbound)
          /\ Head(inbound) \notin {SPong, Eof, Garbled}
    /\ buffered_transmits = <<>> /\ Lacks(buffered_transmits', {Ping}) /\ PingNext(SentAt)
    /\ UNCHANGED <<SentAt, HeardAt, outbound, now>>

\* writes a command;
Writes ==
    /\ buffered_transmits # <<>> /\ buffered_transmits' = Tail(buffered_transmits)
    /\ outbound' = Append(outbound, [command |-> Head(buffered_transmits), at |-> now])
    /\ UNCHANGED <<SentAt, HeardAt, inbound, tickers, now>>

\* the server reads a command,
Serves ==
    /\ outbound # <<>> /\ outbound' = Tail(outbound)
    /\ inbound' = IF Head(outbound).command = Ping THEN Append(inbound, SPong) ELSE inbound
    /\ UNCHANGED <<SentAt, HeardAt, buffered_transmits, tickers, now>>

\* or sends something of its own;
Brings ==
    /\ \E m \in Inbound \ {SPong} : inbound' = Append(inbound, m)
    /\ UNCHANGED <<SentAt, HeardAt, buffered_transmits, outbound, tickers, now>>

\* time passes;
Waits ==
    /\ inbound = <<>> /\ buffered_transmits = <<>> /\ now < tickers.ping
    /\ outbound # <<>> => now < outbound[1].at + MaxRtt
    /\ now' = now + 1
    /\ UNCHANGED <<SentAt, HeardAt, inbound, buffered_transmits, outbound, tickers>>

\* nothing that matters here happens.
Rests == UNCHANGED <<SentAt, HeardAt, inbound, buffered_transmits, outbound, tickers, now>>

\* No time passes while the socket is full and the server up: it always has room, or soon.
RoomToWrite == now' # now /\ server.mode = "up" => ~Blocked

\* The end of an iteration sets the ping ticker.
LEMMA LoopPings ==
    ASSUME now \in Nat, FieldsTyped', Live',
           NEW ticked, NEW queue, NEW input, Loop(ticked, queue, input)
    PROVE  PingNext(SentAt') /\ UNCHANGED <<now, task>> /\ inbound' = input
<1>1. /\ tickers'.ping = IF PollSendPingTimeout(now)' # None THEN PollSendPingTimeout(now)'
                         ELSE ticked.ping
      /\ UNCHANGED <<now, task>> /\ inbound' = input
  BY DEF Loop, Live
<1>2. SentAt' \in Nat \cup {None}
  BY DEF FieldsTyped, KeepAliveState, SentAt
<1>3. UNCHANGED now =>
          PollSendPingTimeout(now)' = IF SentAt' = None THEN now ELSE SentAt' + PingInterval
  BY DEF Live, PollSendPingTimeout, SentAt
<1>. QED BY <1>1, <1>2, <1>3, NoneAssumption, TimeoutsAssumption DEF PingNext

\* What an iteration does while the connection is live.
LEMMA LoopKinds ==
    ASSUME TInv, TInv', RInv, Deadlines, server.mode = "up", Live, Live', Run
    PROVE  Beats \/ Hears \/ Works \/ Writes
<1>1. /\ now \in Nat /\ keep_alive \in KeepAliveState /\ tickers \in Tickers
      /\ inbound \in Seq(Inbound) /\ FieldsTyped' /\ conn_state' = "InfoReceived"
      /\ conn_state = "InfoReceived"
  BY HeadsTyped DEF TInv, FieldsTyped, Live
<1>2. ASSUME NEW state, Leave(state), state # "InfoReceived" PROVE FALSE
  BY <1>1, <1>2 DEF Leave
<1>3. ASSUME UNCHANGED keep_alive PROVE UNCHANGED <<SentAt, HeardAt>>
  BY <1>3 DEF SentAt, HeardAt
<1>4. Lacks(<<>>, {Ping})
  BY DEF Lacks
<1>5. ASSUME NEW ticked, NEW queue, Loop(ticked, queue, inbound),
             Selecting, UNCHANGED <<keep_alive, outbound>>, Lacks(buffered_transmits', {Ping})
      PROVE  Works
  BY <1>1, <1>3, <1>5, LoopPings DEF Works, Selecting
<1>6. CASE Transmit
  BY <1>3, <1>6 DEF Transmit, PollTransmit, Writes, loop, net
<1>7. CASE TickPing
  <2>1. Selecting /\ tickers.ping <= now /\ UNCHANGED outbound /\ Loop(Ticked("ping"), chan, inbound)
    BY <1>7 DEF TickPing
  <2>2. CASE UNCHANGED binding
    BY <1>4, <1>5, <2>1, <2>2 DEF binding, inner, Selecting
  <2>3. CASE Enqueue(Ping, "last_ping_sent_at", tickers.ping)
    <3>1. SentAt' = tickers.ping /\ UNCHANGED HeardAt
      BY <1>1, <2>3 DEF Enqueue, KeepAliveState, SentAt, HeardAt
    <3>2. buffered_transmits' = <<Ping>> /\ buffered_transmits = <<>>
      BY <2>1, <2>3 DEF Enqueue, Selecting
    <3>3. SentAt # None => tickers.ping = SentAt + PingInterval
      BY DEF Deadlines, Polled, SentAt
    <3>. QED BY <1>1, <2>1, <3>1, <3>2, <3>3, LoopPings DEF Beats
  <2>. QED BY <1>7, <2>2, <2>3 DEF TickPing, HandleSendPingTimeout
<1>8. CASE TickPong
  <2>1. Selecting /\ UNCHANGED outbound /\ Loop(Ticked("pong"), chan, inbound)
    BY <1>8 DEF TickPong
  <2>2. CASE UNCHANGED binding
    BY <1>4, <1>5, <2>1, <2>2 DEF binding, inner, Selecting
  <2>3. CASE Enqueue(Pong, "last_ping_received_at", None)
    <3>1. UNCHANGED <<SentAt, HeardAt>>
      BY <1>1, <2>3 DEF Enqueue, KeepAliveState, SentAt, HeardAt
    <3>2. buffered_transmits' = <<Pong>> /\ buffered_transmits = <<>>
      BY <2>1, <2>3 DEF Enqueue, Selecting
    <3>3. Lacks(<<Pong>>, {Ping})
      BY DEF Lacks, Ping, Pong
    <3>. QED BY <1>1, <2>1, <3>1, <3>2, <3>3, LoopPings DEF Works
  <2>. QED BY <1>8, <2>2, <2>3 DEF TickPong, HandleSendPongTimeout
<1>9. CASE TickKeepAlive
  <2>1. Selecting /\ UNCHANGED outbound /\ Loop(Ticked("keep_alive"), chan, inbound)
    BY <1>9 DEF TickKeepAlive
  <2>2. UNCHANGED binding
    BY <1>2, <1>9 DEF TickKeepAlive, HandleKeepAliveTimeout
  <2>. QED BY <1>4, <1>5, <2>1, <2>2 DEF binding, inner, Selecting
<1>10. CASE RecvCommand
  <2> DEFINE s == InfoReceived(buffered_transmits, sid_generator, sid2subscriber)
             cmd == Head(chan)
             t == StepCommand(s, cmd)
  <2>1. /\ Selecting /\ UNCHANGED outbound /\ Loop(tickers, Tail(chan), inbound)
        /\ HandleClientInput(cmd) /\ cmd \in ConnectionCommand
    BY <1>10, HeadsTyped DEF RecvCommand
  <2>2. s \in StepState /\ s.buffered_transmits = <<>>
    BY <2>1 DEF InfoReceived, StepState, TInv, FieldsTyped, Selecting
  <2>3. Become(t)
    BY <1>1, <2>1 DEF HandleClientInput, Terminal
  <2> HIDE DEF s, cmd, t
  <2>4. ~t.panicked /\ buffered_transmits' = t.buffered_transmits /\ UNCHANGED keep_alive
    BY <1>2, <2>3 DEF Become
  <2>5. Lacks(t.buffered_transmits, {Ping})
    <3>1. t \in StepState /\ t.buffered_transmits \in Seq(ClientCommand)
      BY <2>1, <2>2, StepTyped DEF t, StepState
    <3>2. <<>> \in Seq(ClientCommand) /\ Ping \in {Ping, Pong}
      OBVIOUS
    <3>3. Count(<<>> \o t.buffered_transmits, Ping) = Count(<<>> \o s.buffered_transmits, Ping)
      BY <2>1, <2>2, <2>4, <3>2, StepBeatless DEF t
    <3>4. Count(<<>>, Ping) = 0
      BY <3>2, CountIs
    <3>5. <<>> \o s.buffered_transmits = <<>> /\ <<>> \o t.buffered_transmits = t.buffered_transmits
      BY <2>2, <3>1
    <3>. QED BY <3>1, <3>3, <3>4, <3>5, LacksCount
  <2>. QED BY <1>5, <2>1, <2>4, <2>5
<1>11. CASE ReadCommand
  <2>1. /\ Selecting /\ UNCHANGED outbound /\ inbound # <<>> /\ Loop(tickers, chan, Tail(inbound))
        /\ Head(inbound).type \notin {"EOF", "garbled"} /\ HandleServerInput(Head(inbound), now)
    BY <1>11 DEF ReadCommand
  <2>2. PingNext(SentAt') /\ UNCHANGED now /\ inbound' = Tail(inbound)
    BY <1>1, <2>1, LoopPings
  <2>3. CASE ReceiveKeepAlive("last_pong_received_at", now)
    <3>1. HeardAt' = now /\ SentAt' = SentAt /\ UNCHANGED buffered_transmits
      BY <1>1, <2>3 DEF ReceiveKeepAlive, KeepAliveState, HeardAt, SentAt
    <3>. QED BY <2>1, <2>2, <3>1 DEF Hears
  <2>4. CASE Head(inbound) # SPong /\ UNCHANGED <<SentAt, HeardAt, buffered_transmits>>
    <3>1. Head(inbound) \notin {SPong, Eof, Garbled}
      BY <2>1, <2>4 DEF Eof, Garbled
    <3>. QED BY <1>4, <2>1, <2>2, <2>4, <3>1 DEF Works, Selecting
  <2>5. Head(inbound) \in Inbound
    BY <2>1, HeadsTyped
  <2>6. ASSUME Head(inbound).type # "PONG" PROVE Head(inbound) # SPong
    BY <2>6 DEF SPong
  <2>7. CASE Head(inbound).type = "PING" /\ ReceiveKeepAlive("last_ping_received_at", now)
    <3>1. UNCHANGED <<SentAt, HeardAt, buffered_transmits>>
      BY <1>1, <2>7 DEF ReceiveKeepAlive, KeepAliveState, HeardAt, SentAt
    <3>. QED BY <2>4, <2>6, <2>7, <3>1
  <2>8. CASE Head(inbound).type = "MSG" /\ ReceiveMsg(Head(inbound))
    <3>1. UNCHANGED <<SentAt, HeardAt, buffered_transmits>>
      BY <1>2, <1>3, <2>8 DEF ReceiveMsg, DeliverWithin, inner
    <3>. QED BY <2>4, <2>6, <2>8, <3>1
  <2>9. CASE Disregard(Head(inbound))
    <3>1. UNCHANGED <<SentAt, HeardAt, buffered_transmits>> /\ Head(inbound).type # "PONG"
      BY <1>1, <1>3, <2>9 DEF Disregard, binding, inner, Terminal
    <3>. QED BY <2>4, <2>6, <3>1
  <2>. QED BY <1>1, <1>2, <2>1, <2>3, <2>7, <2>8, <2>9
           DEF HandleServerInput, ReceiveInfo, ReceiveNotInfo, ReceiveHMsg
<1>12. CASE ReadError
  <2>1. Selecting /\ UNCHANGED <<outbound, keep_alive>> /\ Loop(tickers, chan, <<Eof>>)
        /\ UNCHANGED buffered_transmits
    BY <1>12 DEF ReadError, binding, inner
  <2>. QED BY <1>1, <1>3, <1>4, <2>1, LoopPings DEF Works, Selecting
<1>13. CASE ReadEof
  BY <1>13 DEF ReadEof, Live
<1>. QED BY <1>6, <1>7, <1>8, <1>9, <1>10, <1>11, <1>12, <1>13 DEF Run

\* What a step does while the server is up, and the connection live thereafter.
LEMMA UpKinds ==
    ASSUME TInv, TInv', RInv, Deadlines, Unheard, [PromptNext]_cvars, RoomToWrite,
           Live', server'.mode = "up"
    PROVE  \/ Starts
           \/ /\ Live /\ server.mode = "up"
              /\ Beats \/ Hears \/ Works \/ Writes \/ Serves \/ Brings \/ Waits \/ Rests
<1>1. /\ now \in Nat /\ tickers \in Tickers /\ server \in ServerState
      /\ inbound \in Seq(Inbound) /\ FieldsTyped'
  BY HeadsTyped DEF TInv, ServerTyped
<1>2. ASSUME UNCHANGED <<keep_alive, inbound, buffered_transmits, outbound, tickers, now, task,
                         conn_state>>,
             server'.mode = server.mode
      PROVE  Live /\ server.mode = "up" /\ Rests
  BY <1>2 DEF Rests, Live, SentAt, HeardAt
<1>3. CASE Run
  <2>1. UNCHANGED server /\ task = "running"
    BY <1>3
       DEF Run, Transmit, TickPing, TickPong, TickKeepAlive, RecvCommand, ReadCommand, ReadError,
           ReadEof, Selecting
  <2>2. CASE conn_state = "InfoReceived"
    BY <1>3, <2>1, <2>2, LoopKinds DEF Live
  <2>3. CASE conn_state # "InfoReceived"
    <3> DEFINE s == Replay(preliminary)
    <3>1. /\ ReceiveInfo /\ conn_state = "AwaitingInfo" /\ Become(s)
          /\ UNCHANGED outbound /\ Loop(tickers, chan, Tail(inbound))
      BY <1>3, <2>3, LiveStarts DEF ReadCommand, ReceiveInfo
    <3>2. /\ outbound = <<>> /\ keep_alive = NeverHeard
          /\ preliminary \in Seq(ConnectionCommand) /\ answer \in [Requests -> Nat \cup {None}]
      BY <3>1 DEF RInv, Unstarted, Unheard, TInv, FieldsTyped
    <3>3. s \in StepState /\ Ping \in {Ping, Pong}
      BY <3>2, ReplayTyped
    <3>4. ~s.panicked => Count(s.buffered_transmits, Ping) = 0
      BY <3>2, <3>3, ReplayBeatless
    <3> HIDE DEF s
    <3>5. ~s.panicked /\ buffered_transmits' = s.buffered_transmits /\ UNCHANGED keep_alive
      BY <3>1 DEF Become, Leave, Live
    <3>6. SentAt' = None /\ HeardAt' = None
      BY <3>2, <3>5 DEF NeverHeard, SentAt, HeardAt
    <3>7. PingNext(None) /\ UNCHANGED now
      BY <1>1, <3>1, <3>6, LoopPings
    <3>8. s.buffered_transmits \in Seq(ClientCommand)
      BY <3>3 DEF StepState
    <3>. QED BY <3>1, <3>2, <3>4, <3>5, <3>6, <3>7, <3>8, LacksCount DEF Starts
  <2>. QED BY <2>2, <2>3
<1>4. CASE Users
  BY <1>2, <1>4
     DEF Users, CallSubscribe, SubscribeReturns, NextMessage, TakeMsg, CancelSubscribe,
         DropSubscriber, DropReceiver, CallPublish, binding, inner, loop, net
<1>5. CASE UNCHANGED cvars
  BY <1>2, <1>5 DEF cvars, binding, inner, loop, net
<1>6. CASE PromptTick
  <2>1. /\ UNCHANGED <<keep_alive, inbound, buffered_transmits, outbound, tickers, task, conn_state,
                       server>>
        /\ now' = now + 1 /\ Idle
        /\ server.mode = "up" /\ outbound # <<>> => now < Head(outbound).at + MaxRtt
    BY <1>6 DEF PromptTick, Tick, binding, inner, loop, net
  <2>2. Live /\ server.mode = "up"
    BY <2>1 DEF Live
  <2>3. ~Blocked
    BY <1>1, <2>1, <2>2 DEF RoomToWrite
  <2>4. inbound = <<>> /\ buffered_transmits = <<>> /\ now < tickers.ping
    BY <1>1, <2>1, <2>2, <2>3 DEF Idle, Live, Selecting, Tickers
  <2>5. UNCHANGED <<SentAt, HeardAt>>
    BY <2>1 DEF SentAt, HeardAt
  <2>. QED BY <2>1, <2>2, <2>4, <2>5 DEF Waits
<1>7. CASE Server
  <2>1. UNCHANGED <<keep_alive, buffered_transmits, tickers, now, task, conn_state>>
    BY <1>7
       DEF Server, Greet, ServerReads, ServerPings, ServerGarbles, ServerCloses, ServerHangs,
           ServerDelivers, ServerSends, binding, inner, loop
  <2>2. Live /\ UNCHANGED <<SentAt, HeardAt>>
    BY <2>1 DEF Live, SentAt, HeardAt
  <2>3. CASE ServerReads
    <3>1. /\ outbound # <<>> /\ outbound' = Tail(outbound) /\ server' = Serve(Head(outbound).command)
          /\ inbound' = IF Head(outbound).command.type = "PING" THEN Append(inbound, SPong)
                        ELSE inbound
      BY <2>2, <2>3 DEF ServerReads, Live
    <3>2. Head(outbound).command \in ClientCommand
      BY <3>1, OutboundHead
    <3>3. server.mode = "up"
      BY <3>1, <3>2, ServeTyped DEF TInv
    <3>4. Head(outbound).command.type = "PING" <=> Head(outbound).command = Ping
      BY <3>2 DEF ClientCommand, Connect, Ping, Pong
    <3>. QED BY <2>1, <2>2, <3>1, <3>3, <3>4 DEF Serves
  <2>4. ASSUME NEW m \in Inbound \ {SPong}, ServerSends(m), server.mode = "up"
        PROVE  Live /\ server.mode = "up" /\ Brings
    BY <2>1, <2>2, <2>4 DEF ServerSends, Brings
  <2>5. CASE \E sid \in DOMAIN server.subs : ServerDelivers(sid)
    <3>1. PICK sid \in DOMAIN server.subs : ServerDelivers(sid)
      BY <2>5
    <3> DEFINE serial == server.serials[sid] + 1
               m == [type |-> "MSG", sid |-> sid, payload |-> serial]
               h == [type |-> "HMSG", sid |-> sid, payload |-> serial]
    <3>2. /\ server.mode = "up" /\ (ServerSends(m) \/ ServerSends(h))
          /\ serial <= MaxSerial
      BY <3>1 DEF ServerDelivers
    <3>3. sid \in Nat /\ server.serials[sid] \in Nat
      BY <1>1, BySidIs DEF TInv, ServerTyped, ServerState
    <3>4. m \in Inbound /\ h \in Inbound /\ m # SPong /\ h # SPong
      BY <3>2, <3>3, ConnectionAssumption DEF Inbound, Message, HMessage, SPong
    <3>. QED BY <2>4, <3>2, <3>4
  <2>6. CASE ServerPings \/ ServerGarbles
    <3>1. server.mode = "up" /\ (ServerSends(SPing) \/ ServerSends(Garbled))
      BY <2>6 DEF ServerPings, ServerGarbles
    <3>2. SPing \in Inbound \ {SPong} /\ Garbled \in Inbound \ {SPong}
      BY DEF Inbound, SPing, Garbled, SPong
    <3>. QED BY <2>4, <3>1, <3>2
  <2>7. CASE Greet
    BY <2>2, <2>7 DEF Greet, Unheard, Live
  <2>8. CASE ServerCloses \/ ServerHangs
    BY <1>1, <2>8 DEF ServerCloses, ServerHangs, ServerState
  <2>. QED BY <1>7, <2>3, <2>5, <2>6, <2>7, <2>8 DEF Server
<1>. QED BY <1>3, <1>4, <1>5, <1>6, <1>7 DEF PromptNext

-----------------------------------------------------------------------------
(* What holds of the two ends at all times.                                *)

\* Initially nothing has come, and nothing was written.
LEMMA UnheardInit == Init => Unheard /\ Stamped
BY DEF Init, BindingInit, Unheard, Stamped

\* Nothing comes before the greeting, and AwaitingInfo never comes back.
LEMMA UnheardStep == TInv /\ RInv /\ Unheard /\ [Next]_cvars => Unheard'
<1> SUFFICES ASSUME TInv, RInv, Unheard, [Next]_cvars PROVE Unheard'
  OBVIOUS
<1>1. server \in ServerState /\ inbound \in Seq(Inbound)
  BY HeadsTyped DEF TInv, ServerTyped
<1>2. ASSUME UNCHANGED <<conn_state, inbound, keep_alive>>,
             server'.mode \in {server.mode, "up", "hung", "closed"}
      PROVE  Unheard'
  BY <1>2 DEF Unheard
<1>3. ASSUME UNCHANGED server, inbound # <<>>,
             conn_state' = "AwaitingInfo" => keep_alive' \in {keep_alive, NeverHeard}
                                             /\ conn_state = "AwaitingInfo"
      PROVE  Unheard'
  BY <1>3 DEF Unheard
<1>4. ASSUME NEW state, state # "AwaitingInfo", Leave(state) PROVE conn_state' # "AwaitingInfo"
  BY <1>4 DEF Leave
<1>5. CASE ReadCommand
  <2>1. UNCHANGED server /\ inbound # <<>> /\ HandleServerInput(Head(inbound), now)
    BY <1>5 DEF ReadCommand
  <2>2. ASSUME Become(Replay(preliminary)) PROVE conn_state' # "AwaitingInfo"
    BY <2>2 DEF Become, Leave
  <2>3. conn_state' # "AwaitingInfo" \/ UNCHANGED binding
    BY <1>4, <2>1, <2>2
       DEF HandleServerInput, ReceiveInfo, ReceiveNotInfo, ReceiveMsg, DeliverWithin, ReceiveHMsg,
           ReceiveKeepAlive, Disregard, inner
  <2>. QED BY <1>3, <2>1, <2>3 DEF binding, inner
<1>6. CASE RecvCommand
  <2>1. /\ UNCHANGED server /\ HandleClientInput(Head(chan))
        /\ conn_state' # "Panicked" => UNCHANGED inbound
    BY <1>6 DEF RecvCommand, Loop
  <2>2. ASSUME NEW s, Become(s) PROVE conn_state' \in {"InfoReceived", "Panicked"}
    BY <2>2 DEF Become, Leave
  <2>3. CASE conn_state = "InfoReceived"
    <3>1. conn_state' \in {"InfoReceived", "Panicked"}
      BY <2>1, <2>2, <2>3 DEF HandleClientInput, Terminal
    <3>. QED BY <2>1, <2>3, <3>1 DEF Unheard
  <2>4. CASE conn_state # "InfoReceived"
    <3>1. UNCHANGED <<conn_state, keep_alive>> /\ conn_state # "Panicked"
      BY <2>1, <2>4 DEF HandleClientInput, inner
    <3>. QED BY <1>2, <2>1, <3>1
  <2>. QED BY <2>3, <2>4
<1>7. CASE TickPing \/ TickPong \/ TickKeepAlive
  <2>1. UNCHANGED server /\ (conn_state' # "Panicked" => UNCHANGED inbound)
    BY <1>7 DEF TickPing, TickPong, TickKeepAlive, Loop
  <2>2. CASE conn_state = "InfoReceived"
    <3>1. conn_state' \in {"InfoReceived", "ConnectionLost"}
      BY <1>7, <2>2
         DEF TickPing, TickPong, TickKeepAlive, HandleSendPingTimeout, HandleSendPongTimeout,
             HandleKeepAliveTimeout, Enqueue, Leave, binding
    <3>. QED BY <2>1, <2>2, <3>1 DEF Unheard
  <2>3. CASE conn_state # "InfoReceived"
    <3>1. UNCHANGED binding
      BY <1>7, <2>3
         DEF TickPing, TickPong, TickKeepAlive, HandleSendPingTimeout, HandleSendPongTimeout,
             HandleKeepAliveTimeout
    <3>2. CASE conn_state # "Panicked"
      BY <1>2, <2>1, <3>1, <3>2 DEF binding, inner
    <3>3. CASE conn_state = "Panicked"
      BY <2>1, <3>1, <3>3 DEF binding, Unheard
    <3>. QED BY <3>2, <3>3
  <2>. QED BY <2>2, <2>3
<1>8. CASE ReadError \/ ReadEof
  <2>1. /\ UNCHANGED server /\ inbound # <<>> /\ UNCHANGED conn_state
        /\ keep_alive' \in {keep_alive, NeverHeard}
    BY <1>8 DEF ReadError, ReadEof, Leave, binding, inner
  <2>. QED BY <1>3, <2>1
<1>9. CASE Transmit \/ Users \/ Tick \/ UNCHANGED cvars
  BY <1>2, <1>9
     DEF Transmit, PollTransmit, Users, CallSubscribe, SubscribeReturns, NextMessage, TakeMsg,
         CancelSubscribe, DropSubscriber, DropReceiver, CallPublish, Tick, cvars, binding, inner, net
<1>10. CASE Server
  <2>1. UNCHANGED <<conn_state, keep_alive>>
    BY <1>10
       DEF Server, Greet, ServerReads, ServerPings, ServerGarbles, ServerCloses, ServerHangs,
           ServerDelivers, ServerSends, binding, inner
  <2>2. server'.mode = "new" => server.mode = "new" /\ outbound # <<>>
    <3>1. CASE ServerReads
      <4>1. outbound # <<>> /\ server' = Serve(Head(outbound).command)
        BY <3>1 DEF ServerReads
      <4>. QED BY <4>1, ServeTyped, OutboundHead DEF TInv
    <3>2. CASE \E sid \in DOMAIN server.subs : ServerDelivers(sid)
      BY <1>1, <3>2 DEF ServerDelivers, ServerState
    <3>3. CASE Greet \/ ServerPings \/ ServerGarbles \/ ServerCloses \/ ServerHangs
      BY <1>1, <3>3 DEF Greet, ServerPings, ServerGarbles, ServerCloses, ServerHangs, ServerState
    <3>. QED BY <1>10, <3>1, <3>2, <3>3 DEF Server
  <2>. QED BY <2>1, <2>2 DEF Unheard, RInv, Unstarted
<1>. QED BY <1>5, <1>6, <1>7, <1>8, <1>9, <1>10 DEF Next, Run

\* What is written is written now, what is read was written first, and time passes only as
\* long as it may.
LEMMA StampedStep == TInv /\ RInv /\ Unheard /\ Stamped /\ [PromptNext]_cvars => Stamped'
<1> SUFFICES ASSUME TInv, RInv, Unheard, Stamped, [PromptNext]_cvars PROVE Stamped'
  OBVIOUS
<1> DEFINE Written == [command : ClientCommand, at : Nat]
           N == Len(outbound)
<1>1. /\ now \in Nat /\ MaxRtt \in Nat /\ server \in ServerState
      /\ outbound \in Seq(Written) /\ N \in Nat /\ DOMAIN outbound = 1..N
      /\ outbound # <<>> => N >= 1
      /\ \A i \in 1..N : outbound[i].at \in Nat
  <2>1. outbound \in Seq(Written)
    BY DEF TInv, StreamsTyped
  <2>2. N \in Nat /\ DOMAIN outbound = 1..N /\ (outbound # <<>> => N >= 1)
    BY <2>1
  <2>3. now \in Nat /\ MaxRtt \in Nat /\ server \in ServerState
    BY HeadsTyped, ConnectionAssumption DEF TInv, ServerTyped
  <2>. QED BY <2>1, <2>2, <2>3, OutboundHead
<1>2. ASSUME UNCHANGED <<outbound, now>>, server'.mode = "up" => server.mode = "up" \/ outbound = <<>>
      PROVE  Stamped'
  BY <1>2 DEF Stamped
<1>3. ASSUME NEW m \in Written, m.at = now, outbound' = Append(outbound, m), UNCHANGED <<now, server>>
      PROVE  Stamped'
  <2>1. /\ DOMAIN Append(outbound, m) = 1..(N + 1) /\ Append(outbound, m)[N + 1] = m
        /\ \A i \in 1..N : Append(outbound, m)[i] = outbound[i]
    BY <1>1
  <2> HIDE DEF N, Written
  <2>2. \A i \in 1..(N + 1) : i \in 1..N \/ i = N + 1
    BY <1>1
  <2>3. \A i \in 1..(N + 1) : outbound'[i].at <= now
    BY <1>1, <1>3, <2>1, <2>2 DEF Stamped
  <2>4. \A i, j \in 1..(N + 1) : i <= j => outbound'[i].at <= outbound'[j].at
    <3> SUFFICES ASSUME NEW i \in 1..(N + 1), NEW j \in 1..(N + 1), i <= j
                 PROVE  outbound'[i].at <= outbound'[j].at
      OBVIOUS
    <3>1. CASE j = N + 1
      BY <1>3, <2>1, <2>3, <3>1
    <3>2. CASE j \in 1..N
      <4>1. i \in 1..N
        BY <1>1, <3>2
      <4>. QED BY <1>1, <1>3, <2>1, <3>2, <4>1 DEF Stamped
    <3>. QED BY <2>2, <3>1, <3>2
  <2>5. server.mode = "up" => now <= outbound'[1].at + MaxRtt
    <3>1. CASE N = 0
      BY <1>1, <1>3, <2>1, <3>1
    <3>2. CASE N # 0
      <4>1. 1 \in 1..N /\ outbound # <<>>
        BY <1>1, <3>2 DEF N
      <4>. QED BY <1>3, <2>1, <4>1 DEF Stamped
    <3>. QED BY <3>1, <3>2
  <2>. QED BY <1>3, <2>1, <2>3, <2>4, <2>5 DEF Stamped
<1>4. ASSUME outbound # <<>>, outbound' = Tail(outbound), UNCHANGED now, server'.mode = server.mode
      PROVE  Stamped'
  <2>1. /\ DOMAIN Tail(outbound) = 1..(N - 1)
        /\ \A i \in 1..(N - 1) : Tail(outbound)[i] = outbound[i + 1]
        /\ Tail(outbound) # <<>> => N - 1 >= 1
    BY <1>1, <1>4
  <2> HIDE DEF N, Written
  <2>2. \A i \in 1..(N - 1) : i + 1 \in 1..N /\ i \in Nat
    BY <1>1
  <2>3. \A i, j \in 1..(N - 1) : i <= j => i + 1 <= j + 1
    BY <1>1
  <2>4. \A i, j \in 1..(N - 1) : i <= j => outbound'[i].at <= outbound'[j].at
    BY <1>1, <1>4, <2>1, <2>2, <2>3 DEF Stamped
  <2>5. ASSUME server.mode = "up", outbound' # <<>> PROVE now <= outbound'[1].at + MaxRtt
    <3>1. 1 \in 1..(N - 1) /\ 1 \in 1..N /\ 1 + 1 \in 1..N /\ 1 <= 1 + 1 /\ outbound'[1] = outbound[1 + 1]
      BY <1>1, <1>4, <2>1, <2>2, <2>5
    <3>2. /\ outbound[1].at \in Nat /\ outbound[1 + 1].at \in Nat
          /\ outbound[1].at <= outbound[1 + 1].at /\ now <= outbound[1].at + MaxRtt
      BY <1>1, <1>4, <2>5, <3>1 DEF Stamped
    <3>. QED BY <1>1, <3>1, <3>2
  <2>. QED BY <1>1, <1>4, <2>1, <2>2, <2>4, <2>5 DEF Stamped
<1>5. CASE Run
  <2>1. UNCHANGED <<now, server>>
    BY <1>5
       DEF Run, Transmit, TickPing, TickPong, TickKeepAlive, RecvCommand, ReadCommand, ReadError,
           ReadEof, Loop
  <2>2. CASE Transmit
    <3>1. \/ UNCHANGED outbound
          \/ /\ buffered_transmits # <<>>
             /\ outbound' = Append(outbound, [command |-> Head(buffered_transmits), at |-> now])
      BY <2>2 DEF Transmit, PollTransmit
    <3>2. buffered_transmits # <<>> => Head(buffered_transmits) \in ClientCommand
      BY AheadTyped
    <3>3. buffered_transmits # <<>> =>
              [command |-> Head(buffered_transmits), at |-> now] \in Written
      BY <1>1, <3>2
    <3>. QED BY <1>2, <1>3, <2>1, <3>1, <3>3
  <2>3. CASE ~Transmit
    <3>1. UNCHANGED outbound
      BY <1>5, <2>3
         DEF Run, TickPing, TickPong, TickKeepAlive, RecvCommand, ReadCommand, ReadError, ReadEof
    <3>. QED BY <1>2, <2>1, <3>1
  <2>. QED BY <2>2, <2>3
<1>6. CASE Users \/ UNCHANGED cvars
  <2>1. UNCHANGED <<outbound, now, server>>
    BY <1>6
       DEF Users, CallSubscribe, SubscribeReturns, NextMessage, TakeMsg, CancelSubscribe,
           DropSubscriber, DropReceiver, CallPublish, cvars, net
  <2>. QED BY <1>2, <2>1
<1>7. CASE PromptTick
  <2>1. /\ UNCHANGED <<outbound, server>> /\ now' = now + 1
        /\ server.mode = "up" /\ outbound # <<>> => now < Head(outbound).at + MaxRtt
    BY <1>7 DEF PromptTick, Tick, net
  <2>2. outbound # <<>> => 1 \in 1..N /\ Head(outbound) = outbound[1] /\ outbound[1].at \in Nat
    BY <1>1
  <2> HIDE DEF N, Written
  <2>3. \A i \in 1..N : outbound[i].at <= now + 1
    BY <1>1 DEF Stamped
  <2>4. server.mode = "up" /\ outbound # <<>> => now + 1 <= outbound[1].at + MaxRtt
    BY <1>1, <2>1, <2>2
  <2>. QED BY <1>1, <2>1, <2>3, <2>4 DEF Stamped
<1>8. CASE Server
  <2>1. CASE ServerReads
    <3>1. /\ outbound # <<>> /\ outbound' = Tail(outbound) /\ UNCHANGED now
          /\ server' = Serve(Head(outbound).command)
      BY <2>1 DEF ServerReads
    <3>. QED BY <1>4, <3>1, ServeTyped, OutboundHead DEF TInv
  <2>2. CASE Greet
    BY <1>2, <2>2 DEF Greet, ServerSends, Unheard, RInv, Unstarted
  <2>3. CASE \E sid \in DOMAIN server.subs : ServerDelivers(sid)
    BY <1>2, <2>3 DEF ServerDelivers, ServerSends
  <2>4. CASE ServerPings \/ ServerGarbles \/ ServerCloses \/ ServerHangs
    BY <1>2, <2>4 DEF ServerPings, ServerGarbles, ServerCloses, ServerHangs, ServerSends
  <2>. QED BY <1>8, <2>1, <2>2, <2>3, <2>4 DEF Server
<1>. QED BY <1>5, <1>6, <1>7, <1>8 DEF PromptNext

-----------------------------------------------------------------------------
(* Answers in time.                                                        *)

\* A PING was written by the deadline.
Timely(written, deadline) ==
    \E i \in DOMAIN written : written[i].command = Ping /\ written[i].at <= deadline

\* The last PONG is PingInterval and MaxRtt old at most: unless an answer is on its way, or the
\* end of the stream, a PING was written in time for the next, or is still to be.
PongsFlow ==
    Live /\ server.mode = "up" /\ HeardAt # None =>
        /\ now <= HeardAt + PingInterval + MaxRtt
        /\ Lacks(inbound, {SPong, Eof, Garbled}) =>
               \/ Timely(outbound, HeardAt + PingInterval)
               \/ /\ now <= HeardAt + PingInterval
                  /\ Lacks(buffered_transmits, {Ping}) => SentAt = None \/ SentAt <= HeardAt

\* What is timely stays so when a command is written, and until it is read.
LEMMA TimelyIs ==
    ASSUME NEW C, NEW written \in Seq(C), NEW deadline
    PROVE  /\ \A m \in C : Timely(Append(written, m), deadline)
                  <=> Timely(written, deadline) \/ (m.command = Ping /\ m.at <= deadline)
           /\ written # <<>> /\ Head(written).command # Ping /\ Timely(written, deadline)
                  => Timely(Tail(written), deadline)
<1> DEFINE N == Len(written)
<1>1. N \in Nat /\ DOMAIN written = 1..N
  OBVIOUS
<1>2. ASSUME NEW m \in C
      PROVE  Timely(Append(written, m), deadline)
                 <=> Timely(written, deadline) \/ (m.command = Ping /\ m.at <= deadline)
  <2>1. /\ DOMAIN Append(written, m) = 1..(N + 1) /\ Append(written, m)[N + 1] = m
        /\ \A i \in 1..N : Append(written, m)[i] = written[i]
    OBVIOUS
  <2> HIDE DEF N
  <2>2. /\ \A i \in 1..(N + 1) : i \in 1..N \/ i = N + 1
        /\ N + 1 \in 1..(N + 1) /\ \A i \in 1..N : i \in 1..(N + 1)
    BY <1>1
  <2>. QED BY <1>1, <2>1, <2>2 DEF Timely
<1>3. ASSUME written # <<>>, Head(written).command # Ping, Timely(written, deadline)
      PROVE  Timely(Tail(written), deadline)
  <2>1. /\ DOMAIN Tail(written) = 1..(N - 1) /\ Head(written) = written[1]
        /\ \A i \in 1..(N - 1) : Tail(written)[i] = written[i + 1]
    BY <1>3
  <2> HIDE DEF N
  <2>2. PICK i \in 1..N : written[i].command = Ping /\ written[i].at <= deadline
    BY <1>1, <1>3 DEF Timely
  <2>3. i # 1 /\ i - 1 \in 1..(N - 1) /\ (i - 1) + 1 = i
    BY <1>1, <1>3, <2>1, <2>2
  <2>4. Tail(written)[i - 1] = written[i]
    BY <2>1, <2>3
  <2>. QED BY <2>1, <2>2, <2>3, <2>4 DEF Timely
<1>. QED BY <1>2, <1>3

\* Every step keeps the answers flowing.
LEMMA PongsFlowStep ==
    ASSUME TInv, TInv', RInv, Deadlines, Unheard, Stamped, PongsFlow,
           [PromptNext]_cvars, RoomToWrite
    PROVE  PongsFlow'
<1> SUFFICES ASSUME Live', server'.mode = "up", HeardAt' # None PROVE PongsFlow'
  BY DEF PongsFlow
<1> DEFINE Written == [command : ClientCommand, at : Nat]
           Ends == {SPong, Eof, Garbled}
           D == HeardAt + PingInterval
<1>1. /\ now \in Nat /\ PingInterval \in Nat /\ MaxRtt \in Nat /\ inbound \in Seq(Inbound)
      /\ buffered_transmits \in Seq(ClientCommand)
      /\ SentAt \in Nat \cup {None} /\ HeardAt \in Nat \cup {None} /\ None \notin Nat
  BY HeadsTyped, AheadTyped, TimeoutsAssumption, ConnectionAssumption, NoneAssumption
     DEF TInv, FieldsTyped, KeepAliveState, SentAt, HeardAt
<1>2. outbound \in Seq(Written)
  BY DEF TInv, StreamsTyped
<1>3. SentAt # None => SentAt <= now
  BY DEF Deadlines, TimesPast, SentAt, TInv, FieldsTyped, KeepAliveState
<1>4. ~Starts
  BY DEF Starts
<1>5. Live /\ server.mode = "up" /\
      (Beats \/ Hears \/ Works \/ Writes \/ Serves \/ Brings \/ Waits \/ Rests)
  BY <1>4, UpKinds
<1>6. HeardAt # None =>
          /\ now <= D + MaxRtt
          /\ Lacks(inbound, Ends) =>
                 \/ Timely(outbound, D)
                 \/ /\ now <= D
                    /\ Lacks(buffered_transmits, {Ping}) => SentAt = None \/ SentAt <= HeardAt
  BY <1>5 DEF PongsFlow
<1>7. ASSUME HeardAt' = HeardAt, now' <= D + MaxRtt,
             Lacks(inbound', Ends) =>
                 \/ Timely(outbound', D)
                 \/ /\ now' <= D
                    /\ Lacks(buffered_transmits', {Ping}) => SentAt' = None \/ SentAt' <= HeardAt
      PROVE  PongsFlow'
  BY <1>7 DEF PongsFlow
<1>8. CASE Beats
  <2>1. ~Lacks(buffered_transmits', {Ping})
    BY <1>8 DEF Beats, Lacks
  <2>2. UNCHANGED <<HeardAt, outbound, inbound, now>> /\ buffered_transmits = <<>>
    BY <1>8 DEF Beats
  <2> HIDE DEF Ends, D
  <2>. QED BY <1>6, <1>7, <2>1, <2>2
<1>9. CASE Hears
  <2>1. HeardAt' = now /\ now' = now /\ SentAt' = SentAt
    BY <1>9 DEF Hears
  <2>2. now <= now + PingInterval /\ now <= now + PingInterval + MaxRtt
    BY <1>1
  <2>. QED BY <1>3, <2>1, <2>2 DEF PongsFlow
<1>10. CASE Works
  <2>1. /\ UNCHANGED <<SentAt, HeardAt, outbound, now>> /\ Lacks(buffered_transmits, {Ping})
        /\ \/ UNCHANGED inbound
           \/ inbound' = <<Eof>>
           \/ inbound # <<>> /\ inbound' = Tail(inbound) /\ Head(inbound) \notin Ends
    BY <1>10 DEF Works, Lacks
  <2>2. ~Lacks(<<Eof>>, Ends)
    BY DEF Lacks
  <2> HIDE DEF Ends, D
  <2>3. Lacks(inbound', Ends) => Lacks(inbound, Ends)
    <3>1. inbound # <<>> =>
              (Lacks(inbound, Ends) <=> Head(inbound) \notin Ends /\ Lacks(Tail(inbound), Ends))
      BY <1>1, LacksIs, Zenon
    <3>2. CASE inbound # <<>> /\ inbound' = Tail(inbound) /\ Head(inbound) \notin Ends
      BY <3>1, <3>2, Zenon
    <3>3. CASE inbound' = <<Eof>>
      BY <2>2, <3>3, Zenon
    <3>4. CASE inbound' = inbound
      BY <3>4, Zenon
    <3>. QED BY <2>1, <3>2, <3>3, <3>4, Zenon
  <2>. QED BY <1>6, <1>7, <2>1, <2>3
<1>11. CASE Writes
  <2> DEFINE m == [command |-> Head(buffered_transmits), at |-> now]
  <2>1. /\ UNCHANGED <<SentAt, HeardAt, inbound, now>> /\ buffered_transmits # <<>>
        /\ buffered_transmits' = Tail(buffered_transmits) /\ outbound' = Append(outbound, m)
    BY <1>11 DEF Writes
  <2>2. m \in Written /\ m.command = Head(buffered_transmits) /\ m.at = now
    BY <1>1, <2>1
  <2> HIDE DEF Ends, D, Written, m
  <2>3. Timely(outbound', D) <=> Timely(outbound, D) \/ (Head(buffered_transmits) = Ping /\ now <= D)
    BY <1>2, <2>1, <2>2, TimelyIs
  <2>4. Lacks(buffered_transmits, {Ping}) <=>
            Head(buffered_transmits) # Ping /\ Lacks(buffered_transmits', {Ping})
    BY <1>1, <2>1, LacksIs
  <2>. QED BY <1>6, <1>7, <2>1, <2>3, <2>4
<1>12. CASE Serves
  <2>1. /\ UNCHANGED <<SentAt, HeardAt, buffered_transmits, now>>
        /\ outbound # <<>> /\ outbound' = Tail(outbound)
        /\ inbound' = IF Head(outbound).command = Ping THEN Append(inbound, SPong) ELSE inbound
    BY <1>12 DEF Serves
  <2>2. CASE Head(outbound).command = Ping
    <3>1. SPong \in Inbound /\ SPong \in Ends
      BY DEF Inbound
    <3> HIDE DEF Ends, D, Written
    <3>2. ~Lacks(inbound', Ends)
      BY <1>1, <2>1, <2>2, <3>1, LacksIs
    <3>. QED BY <1>6, <1>7, <2>1, <3>2
  <2>3. CASE Head(outbound).command # Ping
    <3> HIDE DEF Ends, D, Written
    <3>1. Timely(outbound, D) => Timely(outbound', D)
      BY <1>2, <2>1, <2>3, TimelyIs
    <3>. QED BY <1>6, <1>7, <2>1, <2>3, <3>1
  <2>. QED BY <2>2, <2>3
<1>13. CASE Brings
  <2>1. /\ UNCHANGED <<SentAt, HeardAt, buffered_transmits, outbound, now>>
        /\ \E m \in Inbound : inbound' = Append(inbound, m)
    BY <1>13 DEF Brings
  <2> HIDE DEF Ends, D, Written
  <2>2. Lacks(inbound', Ends) => Lacks(inbound, Ends)
    BY <1>1, <2>1, LacksIs
  <2>. QED BY <1>6, <1>7, <2>1, <2>2
<1>14. CASE Waits
  <2>1. /\ UNCHANGED <<SentAt, HeardAt, inbound, buffered_transmits, outbound>> /\ now' = now + 1
        /\ Lacks(inbound, Ends) /\ Lacks(buffered_transmits, {Ping}) /\ now < tickers.ping
        /\ outbound # <<>> => now < outbound[1].at + MaxRtt
    BY <1>14 DEF Waits, Lacks
  <2>2. D \in Nat /\ HeardAt \in Nat
    BY <1>1, <2>1
  <2>3. CASE Timely(outbound, D)
    <3>1. PICK i \in DOMAIN outbound : outbound[i].command = Ping /\ outbound[i].at <= D
      BY <2>3 DEF Timely
    <3>2. outbound # <<>> /\ 1 \in DOMAIN outbound /\ 1 <= i
      BY <1>2, <3>1
    <3>3. outbound[1].at \in Nat /\ outbound[i].at \in Nat /\ outbound[1].at <= outbound[i].at
      BY <3>1, <3>2, OutboundHead DEF Stamped
    <3>4. now + 1 <= D + MaxRtt
      <4> HIDE DEF D
      <4>. QED BY <1>1, <2>1, <2>2, <3>1, <3>2, <3>3
    <3> HIDE DEF Ends, D, Written
    <3>. QED BY <1>7, <2>1, <2>3, <3>4
  <2>4. CASE ~Timely(outbound, D)
    <3>1. SentAt = None \/ SentAt <= HeardAt
      <4> HIDE DEF Ends, D, Written
      <4>. QED BY <1>6, <2>1, <2>2, <2>4, <1>1
    <3>2. SentAt # None /\ tickers.ping = SentAt + PingInterval
      BY <1>1, <1>5, <2>1 DEF Deadlines, Polled, SentAt, TInv, LoopTyped, Tickers
    <3>3. now + 1 <= D /\ D <= D + MaxRtt
      BY <1>1, <2>1, <2>2, <3>1, <3>2
    <3>4. now + 1 <= D + MaxRtt
      <4> HIDE DEF D
      <4>. QED BY <1>1, <2>2, <3>3
    <3> HIDE DEF Ends, D, Written
    <3>. QED BY <1>7, <2>1, <3>1, <3>3, <3>4
  <2>. QED BY <2>3, <2>4
<1>15. CASE Rests
  <2>1. UNCHANGED <<SentAt, HeardAt, inbound, buffered_transmits, outbound, now>>
    BY <1>15 DEF Rests
  <2> HIDE DEF Ends, D, Written
  <2>. QED BY <1>6, <1>7, <2>1
<1>. QED BY <1>5, <1>8, <1>9, <1>10, <1>11, <1>12, <1>13, <1>14, <1>15

\* A server that is up was never given up, and its answers flow.
NotGivenUp == server.mode \in {"new", "up"} => conn_state # "ConnectionLost"

\* What both theorems rest on.
UpInv == TInv /\ RInv /\ Deadlines /\ Unheard /\ Stamped

\* It is initially so,
LEMMA UpInit == Init => UpInv
BY TInvInit, HeededInit, OnceInit, AbreastInit, DeadlinesInit, UnheardInit DEF UpInv, RInv

\* and stays so.
LEMMA UpStep == UpInv /\ Heeded /\ [PromptNext]_cvars => UpInv' /\ Heeded'
BY PromptIsNext, TInvStep, HeededStep, OnceStep, AbreastStep, DeadlinesStep, UnheardStep,
   StampedStep
   DEF UpInv, RInv

\* A server that has hung or closed does not come back.
LEMMA GreetedOnce ==
    ASSUME [PromptNext]_cvars, server.mode \in {"hung", "closed"}
    PROVE  server'.mode = server.mode
<1>1. CASE Server
  BY <1>1
     DEF Server, Greet, ServerReads, ServerPings, ServerGarbles, ServerCloses, ServerHangs,
         ServerDelivers
<1>2. CASE ~Server
  BY <1>2
     DEF PromptNext, PromptTick, Tick, Run, Transmit, TickPing, TickPong, TickKeepAlive,
         RecvCommand, ReadCommand, ReadError, ReadEof, Users, CallSubscribe, SubscribeReturns,
         NextMessage, CancelSubscribe, DropSubscriber, CallPublish, cvars, net
<1>. QED BY <1>1, <1>2

\* The keep-alive timer finds a loss only when the last PONG is KeepAlive old.
LEMMA NotGivenUpStep ==
    ASSUME KeepAlive > PingInterval + MaxRtt, UpInv, PongsFlow, NotGivenUp, [PromptNext]_cvars
    PROVE  NotGivenUp'
<1> SUFFICES ASSUME server'.mode \in {"new", "up"}, conn_state' = "ConnectionLost"
             PROVE  FALSE
  BY DEF NotGivenUp
<1>1. /\ now \in Nat /\ PingInterval \in Nat /\ MaxRtt \in Nat /\ KeepAlive \in Nat
      /\ server \in ServerState /\ tickers \in Tickers /\ HeardAt \in Nat \cup {None}
  BY HeadsTyped, TimeoutsAssumption, ConnectionAssumption
     DEF UpInv, TInv, ServerTyped, FieldsTyped, KeepAliveState, HeardAt
<1>2. CASE UNCHANGED conn_state
  <2>1. server.mode \in {"hung", "closed"}
    BY <1>1, <1>2 DEF NotGivenUp, ServerState
  <2>. QED BY <1>1, <2>1, GreetedOnce
<1>3. CASE conn_state' # conn_state
  <2>1. Run
    BY <1>3
       DEF PromptNext, PromptTick, Tick, Users, CallSubscribe, SubscribeReturns, NextMessage,
           TakeMsg, CancelSubscribe, DropSubscriber, DropReceiver, CallPublish, Server, Greet,
           ServerReads, ServerPings, ServerGarbles, ServerCloses, ServerHangs, ServerDelivers,
           ServerSends, cvars, binding
  <2>2. ASSUME NEW state, state # "ConnectionLost", Leave(state) PROVE FALSE
    BY <2>2 DEF Leave
  <2>3. ASSUME NEW s, Become(s) PROVE FALSE
    BY <2>3 DEF Become, Leave
  <2>4. ~RecvCommand
    BY <1>3, <2>3 DEF RecvCommand, HandleClientInput
  <2>5. ~ReadCommand
    BY <1>3, <2>2, <2>3
       DEF ReadCommand, HandleServerInput, ReceiveInfo, ReceiveNotInfo, ReceiveMsg, DeliverWithin,
           ReceiveHMsg, ReceiveKeepAlive, Disregard, binding
  <2>6. ~Transmit /\ ~ReadError /\ ~ReadEof /\ ~TickPing /\ ~TickPong
    BY <1>3
       DEF Transmit, PollTransmit, ReadError, ReadEof, Leave, TickPing, TickPong,
           HandleSendPingTimeout, HandleSendPongTimeout, Enqueue, binding
  <2>7. /\ TickKeepAlive /\ Live /\ LossDue(tickers.keep_alive) /\ UNCHANGED server
        /\ tickers.keep_alive <= now
    BY <1>3, <2>1, <2>4, <2>5, <2>6
       DEF Run, TickKeepAlive, HandleKeepAliveTimeout, Selecting, Live, binding
  <2>8. HeardAt # None /\ tickers.keep_alive = HeardAt + KeepAlive
    BY <2>7 DEF LossDue, UpInv, Deadlines, Polled, HeardAt
  <2>9. server.mode = "up"
    BY <2>7 DEF UpInv, Unheard, Live
  <2>10. now <= HeardAt + PingInterval + MaxRtt
    BY <2>7, <2>8, <2>9 DEF PongsFlow
  <2>. QED BY <1>1, <2>7, <2>8, <2>10
<1>. QED BY <1>2, <1>3

\* A server that reads every command within MaxRtt is never given up, provided KeepAlive
\* exceeds PingInterval + MaxRtt and no time passes while the socket is full: for every
\* order in which timers, commands and messages are handled, and whatever else is sent.
THEOREM NoFalseLosses ==
    ASSUME KeepAlive > PingInterval + MaxRtt
    PROVE  PromptSpec /\ [][RoomToWrite]_cvars => []NoFalseLoss
<1>1. Init => Heeded /\ PongsFlow /\ NotGivenUp
  BY HeededInit DEF Init, BindingInit, PongsFlow, NotGivenUp, Live
<1>2. UpInv /\ UpInv' /\ PongsFlow /\ [PromptNext]_cvars /\ [RoomToWrite]_cvars => PongsFlow'
  <2>1. [RoomToWrite]_cvars => RoomToWrite
    BY DEF RoomToWrite, cvars
  <2>. QED BY <2>1, PongsFlowStep DEF UpInv
<1>3. UpInv /\ PongsFlow /\ NotGivenUp /\ [PromptNext]_cvars => NotGivenUp'
  BY NotGivenUpStep
<1>4. NotGivenUp => NoFalseLoss
  BY DEF NotGivenUp, NoFalseLoss
<1>. QED BY <1>1, <1>2, <1>3, <1>4, UpInit, UpStep, PTL DEF PromptSpec

-----------------------------------------------------------------------------
(* PINGs under way.                                                        *)

\* A PING is under way only since the last one was due, and none is overdue.
PingsTimed ==
    Live /\ server.mode = "up" =>
        /\ now <= tickers.ping
        /\ Lacks(buffered_transmits, {Ping}) \/ (SentAt # None /\ now <= SentAt)
        /\ \A i \in DOMAIN outbound :
               outbound[i].command = Ping => SentAt # None /\ outbound[i].at <= SentAt

\* Every step keeps the times of the PINGs.
LEMMA PingsTimedStep ==
    ASSUME UpInv, UpInv', PingsTimed, [PromptNext]_cvars, RoomToWrite
    PROVE  PingsTimed'
<1> SUFFICES ASSUME Live', server'.mode = "up" PROVE PingsTimed'
  BY DEF PingsTimed
<1> DEFINE Written == [command : ClientCommand, at : Nat]
           N == Len(outbound)
           Past(written, t) == \A i \in DOMAIN written :
                                  written[i].command = Ping => t # None /\ written[i].at <= t
<1>1. /\ now \in Nat /\ PingInterval \in Nat /\ None \notin Nat /\ tickers.ping \in Nat
      /\ buffered_transmits \in Seq(ClientCommand) /\ SentAt \in Nat \cup {None}
  BY HeadsTyped, AheadTyped, TimeoutsAssumption, NoneAssumption
     DEF UpInv, TInv, LoopTyped, Tickers, FieldsTyped, KeepAliveState, SentAt
<1>2. outbound \in Seq(Written) /\ \A i \in DOMAIN outbound : outbound[i].at \in Nat
  BY OutboundHead DEF UpInv, TInv, StreamsTyped
<1>3. \/ Starts
      \/ /\ Live /\ server.mode = "up"
         /\ Beats \/ Hears \/ Works \/ Writes \/ Serves \/ Brings \/ Waits \/ Rests
  BY UpKinds DEF UpInv
<1>4. ASSUME Live, server.mode = "up"
      PROVE  /\ now <= tickers.ping /\ Past(outbound, SentAt)
             /\ Lacks(buffered_transmits, {Ping}) \/ (SentAt # None /\ now <= SentAt)
             /\ SentAt # None => tickers.ping = SentAt + PingInterval
  BY <1>4 DEF PingsTimed, UpInv, Deadlines, Polled, SentAt
<1>5. ASSUME now' <= tickers.ping', Past(outbound', SentAt'),
             Lacks(buffered_transmits', {Ping}) \/ (SentAt' # None /\ now' <= SentAt')
      PROVE  PingsTimed'
  BY <1>5 DEF PingsTimed
<1>6. CASE Starts
  <2>1. Past(outbound', SentAt')
    BY <1>6 DEF Starts
  <2> HIDE DEF Past
  <2>. QED BY <1>1, <1>5, <1>6, <2>1 DEF Starts, PingNext
<1>7. ASSUME Live, server.mode = "up", Beats PROVE PingsTimed'
  <2>1. /\ SentAt' = tickers.ping /\ tickers.ping' = tickers.ping + PingInterval
        /\ UNCHANGED <<outbound, now>>
    BY <1>1, <1>7 DEF Beats, PingNext
  <2>2. Past(outbound, tickers.ping)
    <3>1. now <= tickers.ping /\ tickers.ping # None
      BY <1>1, <1>4, <1>7
    <3>2. \A i \in DOMAIN outbound : outbound[i].at <= now
      BY Zenon DEF UpInv, Stamped
    <3>3. ASSUME NEW i \in DOMAIN outbound PROVE outbound[i].at <= tickers.ping
      <4>1. outbound[i].at \in Nat /\ outbound[i].at <= now
        BY <1>2, <3>2, Zenon
      <4>. QED BY <1>1, <3>1, <4>1
    <3>. QED BY <3>1, <3>3, Zenon
  <2> HIDE DEF Past
  <2>. QED BY <1>1, <1>4, <1>5, <1>7, <2>1, <2>2
<1>8. ASSUME Live, server.mode = "up", PingNext(SentAt), UNCHANGED <<SentAt, outbound, now>>,
             Lacks(buffered_transmits, {Ping}) => Lacks(buffered_transmits', {Ping})
      PROVE  PingsTimed'
  <2> HIDE DEF Past
  <2>. QED BY <1>1, <1>4, <1>5, <1>8 DEF PingNext
<1>9. ASSUME Live, server.mode = "up", Hears \/ Works PROVE PingsTimed'
  BY <1>8, <1>9 DEF Hears, Works
<1>10. ASSUME Live, server.mode = "up", Writes PROVE PingsTimed'
  <2> DEFINE c == Head(buffered_transmits)
             m == [command |-> c, at |-> now]
  <2>1. /\ UNCHANGED <<SentAt, tickers, now>> /\ buffered_transmits # <<>>
        /\ buffered_transmits' = Tail(buffered_transmits) /\ outbound' = Append(outbound, m)
    BY <1>10 DEF Writes
  <2>2. m \in Written /\ m.command = c /\ m.at = now
    BY <1>1, <2>1
  <2>3. Lacks(buffered_transmits, {Ping}) => c # Ping /\ Lacks(buffered_transmits', {Ping})
    BY <1>1, <2>1, LacksIs
  <2>4. N \in Nat /\ DOMAIN outbound = 1..N /\ DOMAIN Append(outbound, m) = 1..(N + 1)
    BY <1>2, <2>2
  <2>5. /\ Append(outbound, m)[N + 1] = m
        /\ \A i \in 1..N : Append(outbound, m)[i] = outbound[i]
    BY <1>2, <2>2
  <2> HIDE DEF c, m, N, Written
  <2>6. \A i \in 1..(N + 1) : i \in 1..N \/ i = N + 1
    BY <2>4
  <2>7. c = Ping => SentAt # None /\ now <= SentAt
    BY <1>4, <1>10, <2>3
  <2>8. Past(outbound', SentAt')
    BY <1>4, <1>10, <2>1, <2>2, <2>4, <2>5, <2>6, <2>7
  <2> HIDE DEF Past
  <2>. QED BY <1>4, <1>5, <1>10, <2>1, <2>3, <2>8
<1>11. ASSUME Live, server.mode = "up", Serves PROVE PingsTimed'
  <2>1. /\ UNCHANGED <<SentAt, buffered_transmits, tickers, now>>
        /\ outbound # <<>> /\ outbound' = Tail(outbound)
    BY <1>11 DEF Serves
  <2>2. N \in Nat /\ DOMAIN outbound = 1..N /\ DOMAIN Tail(outbound) = 1..(N - 1)
    BY <1>2, <2>1
  <2>3. \A i \in 1..(N - 1) : Tail(outbound)[i] = outbound[i + 1]
    BY <1>2, <2>1
  <2> HIDE DEF N, Written
  <2>4. \A i \in 1..(N - 1) : i + 1 \in 1..N
    BY <2>2
  <2>5. Past(outbound', SentAt')
    BY <1>4, <1>11, <2>1, <2>2, <2>3, <2>4
  <2> HIDE DEF Past
  <2>. QED BY <1>4, <1>5, <1>11, <2>1, <2>5
<1>12. ASSUME Live, server.mode = "up", Brings \/ Rests PROVE PingsTimed'
  <2>1. UNCHANGED <<SentAt, buffered_transmits, outbound, tickers, now>>
    BY <1>12 DEF Brings, Rests
  <2> HIDE DEF Past
  <2>. QED BY <1>4, <1>5, <1>12, <2>1
<1>13. ASSUME Live, server.mode = "up", Waits PROVE PingsTimed'
  <2>1. /\ UNCHANGED <<SentAt, buffered_transmits, outbound, tickers>> /\ now' = now + 1
        /\ now < tickers.ping /\ Lacks(buffered_transmits, {Ping})
    BY <1>13 DEF Waits, Lacks
  <2> HIDE DEF Past
  <2>. QED BY <1>1, <1>4, <1>5, <1>13, <2>1
<1>. QED BY <1>3, <1>6, <1>7, <1>9, <1>10, <1>11, <1>12, <1>13

\* Only the ping timer puts a PING on the way, and only the server takes one off it, as
\* long as the socket is open.
LEMMA PingsMove ==
    ASSUME UpInv, [PromptNext]_cvars, server.mode # "closed"
    PROVE  \/ Count(Ahead', Ping) <= Count(Ahead, Ping)
           \/ /\ PingDue(tickers.ping) /\ Selecting /\ tickers.ping <= now
              /\ conn_state = "InfoReceived" /\ Ahead' = Append(Ahead, Ping)
<1>1. /\ TInv /\ RInv /\ Unstarted /\ Ping \in {Ping, Pong} /\ Count(Ahead, Ping) \in Nat
      /\ Ahead \in Seq(ClientCommand)
  BY AheadTyped, CountIs DEF UpInv, RInv
<1>2. ASSUME Ahead' = Ahead PROVE Count(Ahead', Ping) <= Count(Ahead, Ping)
  BY <1>1, <1>2
<1>3. ASSUME NEW state, Leave(state), UNCHANGED outbound
      PROVE  Count(Ahead', Ping) <= Count(Ahead, Ping)
  BY <1>1, <1>3, LeaveBeatless
<1>4. ASSUME UNCHANGED <<outbound, buffered_transmits>> PROVE Ahead' = Ahead
  BY <1>4 DEF Ahead, Sent
<1>5. CASE Transmit
  BY <1>1, <1>2, <1>5, AheadMoves DEF Transmit, PollTransmit
<1>6. ASSUME NEW t,
             HandleSendPingTimeout(t) \/ HandleSendPongTimeout(t) \/ HandleKeepAliveTimeout(t),
             UNCHANGED outbound
      PROVE  \/ Count(Ahead', Ping) <= Count(Ahead, Ping)
             \/ /\ HandleSendPingTimeout(t) /\ PingDue(t) /\ conn_state = "InfoReceived"
                /\ Ahead' = Append(Ahead, Ping)
  <2>1. CASE Ahead' = Append(Ahead, Pong)
    <3>1. Pong \in ClientCommand /\ Pong # Ping
      BY WireTyped DEF Ping, Pong
    <3>2. Count(Append(Ahead, Pong), Ping) = Count(Ahead, Ping) + (IF Pong = Ping THEN 1 ELSE 0)
      BY <1>1, <3>1, CountIs
    <3>. QED BY <1>1, <2>1, <3>1, <3>2
  <2>. QED BY <1>1, <1>2, <1>3, <1>6, <2>1, TimerAhead
<1>7. CASE TickPing
  <2>1. /\ HandleSendPingTimeout(tickers.ping) /\ UNCHANGED outbound /\ Selecting
        /\ tickers.ping <= now
    BY <1>7 DEF TickPing
  <2>. QED BY <1>6, <2>1
<1>8. CASE TickPong \/ TickKeepAlive
  <2>1. /\ \E t : HandleSendPongTimeout(t) \/ HandleKeepAliveTimeout(t)
        /\ UNCHANGED outbound
    BY <1>8 DEF TickPong, TickKeepAlive
  <2>2. PICK t : HandleSendPongTimeout(t) \/ HandleKeepAliveTimeout(t)
    BY <2>1
  <2>4. ASSUME UNCHANGED <<outbound, binding>> PROVE Ahead' = Ahead
    BY <1>4, <2>4 DEF binding, inner
  <2>5. Leave("ConnectionLost") \/ UNCHANGED binding \/ Enqueue(Pong, "last_ping_received_at", None)
    BY <2>2 DEF HandleSendPongTimeout, HandleKeepAliveTimeout
  <2>6. CASE Enqueue(Pong, "last_ping_received_at", None)
    <3>1. Ahead' = Append(Ahead, Pong)
      <4>1. /\ Sent \in Seq(ClientCommand) /\ Ahead = Sent \o buffered_transmits
            /\ buffered_transmits \in Seq(ClientCommand) /\ Pong \in ClientCommand
        BY AheadTyped, WireTyped DEF UpInv
      <4>2. Ahead' = Sent \o Append(buffered_transmits, Pong)
        BY <2>1, <2>6 DEF Enqueue, Ahead, Sent
      <4>. QED BY <4>1, <4>2
    <3>2. Pong \in ClientCommand /\ Pong # Ping
      BY WireTyped DEF Ping, Pong
    <3>3. Count(Append(Ahead, Pong), Ping) = Count(Ahead, Ping) + (IF Pong = Ping THEN 1 ELSE 0)
      BY <1>1, <3>2, CountIs
    <3>. QED BY <1>1, <3>1, <3>2, <3>3
  <2>. QED BY <1>2, <1>3, <2>1, <2>4, <2>5, <2>6
<1>9. CASE RecvCommand
  <2>1. (\E cmd \in ConnectionCommand : HandleClientInput(cmd)) /\ UNCHANGED outbound
    BY <1>1, <1>9, HeadsTyped DEF RecvCommand
  <2>. QED BY <1>1, <2>1, CommandsBeatless
<1>10. CASE ReadCommand
  <2>1. HandleServerInput(Head(inbound), now) /\ UNCHANGED outbound
    BY <1>10 DEF ReadCommand
  <2>2. CASE ReceiveInfo
    BY <1>1, <2>1, <2>2, CommandsBeatless
  <2>3. CASE ~ReceiveInfo
    <3>1. (\E state : Leave(state)) \/ UNCHANGED buffered_transmits
      BY <2>1, <2>3
         DEF HandleServerInput, ReceiveNotInfo, ReceiveMsg, DeliverWithin, ReceiveHMsg,
             ReceiveKeepAlive, Disregard, binding, inner
    <3>. QED BY <1>2, <1>3, <1>4, <2>1, <3>1
  <2>. QED BY <2>2, <2>3
<1>11. CASE ReadError
  BY <1>2, <1>4, <1>11 DEF ReadError, binding, inner
<1>12. CASE ReadEof
  BY <1>3, <1>12 DEF ReadEof
<1>13. CASE Users \/ PromptTick \/ UNCHANGED cvars
  <2>1. UNCHANGED <<outbound, buffered_transmits>>
    BY <1>13
       DEF Users, CallSubscribe, SubscribeReturns, NextMessage, TakeMsg, CancelSubscribe,
           DropSubscriber, DropReceiver, CallPublish, PromptTick, Tick, cvars, binding, inner, net
  <2>. QED BY <1>2, <1>4, <2>1
<1>14. CASE Server
  <2>1. CASE ServerReads
    <3>1. Ahead # <<>> /\ Ahead' = Tail(Ahead)
      BY <1>1, <2>1, AheadMoves DEF ServerReads, binding, inner
    <3>2. /\ Count(Tail(Ahead), Ping) \in Nat
          /\ Count(Ahead, Ping) = Count(Tail(Ahead), Ping) + (IF Head(Ahead) = Ping THEN 1 ELSE 0)
      BY <1>1, <3>1, CountIs
    <3>. QED BY <3>1, <3>2
  <2>2. CASE ~ServerReads
    <3>1. UNCHANGED <<outbound, buffered_transmits>>
      BY <1>14, <2>2
         DEF Server, Greet, ServerPings, ServerGarbles, ServerCloses, ServerHangs, ServerDelivers,
             ServerSends, binding, inner
    <3>. QED BY <1>2, <1>4, <3>1
  <2>. QED BY <2>1, <2>2
<1>. QED BY <1>5, <1>7, <1>8, <1>9, <1>10, <1>11, <1>12, <1>13, <1>14 DEF PromptNext, Run

\* While the server is still to greet or up, at most one PING is under way.
OneAhead == server.mode \in {"new", "up"} => Count(Ahead, Ping) <= 1

PingsCounted == Count(Ahead, Ping) \in Nat

\* A count is a number, in the next state too.
LEMMA CountTyped == TInv => PingsCounted
BY AheadTyped, CountIs DEF PingsCounted

\* A second PING is not due before the server has read the first.
LEMMA OneAheadStep ==
    ASSUME MaxRtt < PingInterval, UpInv, UpInv', PingsTimed, OneAhead, [PromptNext]_cvars
    PROVE  OneAhead'
<1> SUFFICES ASSUME server'.mode \in {"new", "up"} PROVE Count(Ahead', Ping) <= 1
  BY DEF OneAhead
<1>1. /\ now \in Nat /\ PingInterval \in Nat /\ MaxRtt \in Nat /\ None \notin Nat
      /\ server \in ServerState /\ tickers.ping \in Nat /\ SentAt \in Nat \cup {None}
  BY HeadsTyped, TimeoutsAssumption, ConnectionAssumption, NoneAssumption
     DEF UpInv, TInv, ServerTyped, LoopTyped, Tickers, FieldsTyped, KeepAliveState, SentAt
<1>2. /\ Sent \in Seq(ClientCommand) /\ Ahead = Sent \o buffered_transmits
      /\ Ahead \in Seq(ClientCommand) /\ Ping \in ClientCommand /\ Count(Ahead, Ping) \in Nat
  BY AheadTyped, WireTyped, CountIs DEF UpInv
<1>3. server.mode \in {"new", "up"}
  BY <1>1, GreetedOnce DEF ServerState
<1>4. Count(Ahead, Ping) <= 1
  BY <1>3 DEF OneAhead
<1>5. CASE Count(Ahead', Ping) <= Count(Ahead, Ping)
  <2>1. Count(Ahead', Ping) \in Nat
    <3>1. TInv'
      BY DEF UpInv
    <3>2. PingsCounted'
      BY <3>1, CountTyped, PTL
    <3>. QED BY <3>2 DEF PingsCounted
  <2>. QED BY <1>2, <1>4, <1>5, <2>1
<1>6. CASE /\ PingDue(tickers.ping) /\ Selecting /\ tickers.ping <= now
           /\ conn_state = "InfoReceived" /\ Ahead' = Append(Ahead, Ping)
  <2>1. Live /\ server.mode = "up" /\ buffered_transmits = <<>>
    BY <1>3, <1>6 DEF Live, Selecting, UpInv, Unheard
  <2>2. SentAt # None => tickers.ping = SentAt + PingInterval
    BY <2>1 DEF UpInv, Deadlines, Polled, SentAt
  <2>3. ASSUME NEW i \in DOMAIN outbound, outbound[i].command = Ping PROVE FALSE
    <3>1. SentAt # None /\ outbound[i].at <= SentAt
      BY <2>1, <2>3 DEF PingsTimed
    <3>2. outbound # <<>> /\ 1 \in DOMAIN outbound /\ 1 <= i
      <4> DEFINE Written == [command : ClientCommand, at : Nat]
      <4>1. outbound \in Seq(Written)
        BY DEF UpInv, TInv, StreamsTyped
      <4> HIDE DEF Written
      <4>. QED BY <2>3, <4>1
    <3>3. /\ outbound[1].at \in Nat /\ outbound[i].at \in Nat /\ outbound[1].at <= outbound[i].at
          /\ now <= outbound[1].at + MaxRtt
      BY <2>1, <3>2, OutboundHead DEF UpInv, Stamped
    <3>. QED BY <1>1, <1>6, <2>2, <3>1, <3>3
  <2>4. Lacks(Ahead, {Ping})
    <3>1. Ahead = Sent
      BY <1>2, <2>1
    <3>. QED BY <2>3, <3>1 DEF Lacks, Sent
  <2>5. Count(Ahead, Ping) = 0
    BY <1>2, <2>4, LacksCount
  <2>6. \A c \in ClientCommand :
            Count(Append(Ahead, c), Ping) = Count(Ahead, Ping) + (IF c = Ping THEN 1 ELSE 0)
    <3>1. Ahead \in Seq(ClientCommand)
      BY <1>2
    <3>. QED BY <3>1, CountIs
  <2>. QED BY <1>2, <1>6, <2>5, <2>6
<1>. QED BY <1>3, <1>5, <1>6, PingsMove

\* While the server keeps up with what it is sent, at most one PING is under way, provided
\* it reads every command within less than a PingInterval and no time passes while the
\* socket is full: the deadline of the next PING counts from the one that was sent.
THEOREM PingsDoNotPileUp ==
    ASSUME MaxRtt < PingInterval
    PROVE  PromptSpec /\ [][RoomToWrite]_cvars => []OnePingUnread
<1>1. Init => Heeded /\ PingsTimed /\ OneAhead
  <2> SUFFICES ASSUME Init PROVE Heeded /\ PingsTimed /\ OneAhead
    OBVIOUS
  <2>1. Heeded /\ PingsTimed
    BY HeededInit DEF Init, BindingInit, PingsTimed, Live
  <2>2. Lacks(Ahead, {Ping})
    BY DEF Init, BindingInit, Ahead, Sent, Lacks
  <2>3. Ahead \in Seq(ClientCommand)
    BY UpInit, AheadTyped DEF UpInv
  <2>4. Count(Ahead, Ping) = 0
    BY <2>2, <2>3, LacksCount
  <2>. QED BY <2>1, <2>4 DEF OneAhead
<1>2. UpInv /\ UpInv' /\ PingsTimed /\ [PromptNext]_cvars /\ [RoomToWrite]_cvars => PingsTimed'
  <2>1. [RoomToWrite]_cvars => RoomToWrite
    BY DEF RoomToWrite, cvars
  <2>. QED BY <2>1, PingsTimedStep
<1>3. UpInv /\ UpInv' /\ PingsTimed /\ OneAhead /\ [PromptNext]_cvars => OneAhead'
  BY OneAheadStep
<1>4. OneAhead => OnePingUnread
  BY DEF OneAhead, OnePingUnread
<1>. QED BY <1>1, <1>2, <1>3, <1>4, UpInit, UpStep, PTL DEF PromptSpec

=============================================================================
