--------------------------- MODULE ExamplesProofs ---------------------------
(***************************************************************************)
(* Theorems about the example programs: the subscriber's stream ends for a *)
(* reason (EndsOnlyAtLimit), main panics only when the connection is over  *)
(* (MainPanicsOnlyWhenOver), and the publisher's sleep is long enough      *)
(* (NothingLeftUnsent).                                                    *)
(***************************************************************************)
EXTENDS Examples, KeepAliveProofs

-----------------------------------------------------------------------------
(* The connection, as Connection has it, but for the abort.                *)

\* An abort ends the task; every other step is one of Connection.
LEMMA StepsAre == [ExamplesNext]_evars => [Next]_cvars \/ Aborted
<1> SUFFICES ASSUME [ExamplesNext]_evars, ~Aborted PROVE [Next]_cvars
  OBVIOUS
<1>1. Me \in Requests /\ Me \in MayDrop
  BY MeAssumption
<1>2. CASE Subscribes \/ Subscribed \/ Prints \/ SubscriberReturns
  BY <1>1, <1>2 DEF Subscribes, Subscribed, Prints, SubscriberReturns, Next, Users
<1>3. CASE Publishes
  BY <1>3 DEF Publishes, Next, Users
<1>4. CASE StreamEnds \/ Wakes \/ PublisherReturns \/ UNCHANGED evars
  BY <1>4 DEF StreamEnds, Wakes, PublisherReturns, evars
<1>5. CASE Runs \/ Around
  BY <1>5 DEF Runs, Around, PromptTick, Next
<1>. QED BY <1>2, <1>3, <1>4, <1>5 DEF ExamplesNext

\* What is so of the connection in every state.
ConnInv == TInv /\ Heeded /\ RInv /\ SInv /\ PubInv /\ Unheard

\* It is initially so,
LEMMA ConnInvInit == ExamplesInit => ConnInv
<1> SUFFICES ASSUME Init PROVE ConnInv
  BY DEF ExamplesInit
<1>1. RInv
  BY HeededInit, OnceInit, AbreastInit DEF RInv
<1>. QED BY <1>1, TInvInit, HeededInit, SidsInit, PubInit, UnheardInit DEF ConnInv, SInv

\* after an abort,
LEMMA ConnInvAborted ==
    ASSUME ConnInv, Aborted
    PROVE  ConnInv'
<1>1. /\ task' = "ended" /\ Leave(conn_state) /\ chan' = <<>> /\ inbound' = <<>>
      /\ UNCHANGED <<answer, msg_chan, tickers, caller, outbound, server, user, now>>
  BY DEF Aborted
<1>2. TInv'
  <2>1. FieldsTyped'
    BY <1>1, NeverHeardTyped, NoSubscribersTyped DEF ConnInv, TInv, FieldsTyped, Leave
  <2>2. LoopTyped' /\ StreamsTyped'
    BY <1>1, ConnectionAssumption DEF ConnInv, TInv, LoopTyped, StreamsTyped
  <2>. QED BY <1>1, <2>1, <2>2
           DEF ConnInv, TInv, CallerTyped, ServerTyped, UsersTyped, HoldersAnswered,
               ChannelsBounded, user
<1>3. preliminary' = <<>> /\ buffered_transmits' = <<>> /\ conn_state' = conn_state
      /\ keep_alive' = NeverHeard
  BY <1>1 DEF Leave
<1>4. Heeded' /\ PubInv' /\ Sids' /\ Abreast'
  BY <1>1 DEF Heeded, PubInv, Flowing, Sids, Abreast, Live
<1>5. AllOnce'
  BY <1>1, <1>3, EmptyQueue DEF ConnInv, RInv, AllOnce, AskedOnce
<1>6. AllBacked' /\ Unanswered'
  BY <1>1, <1>3 DEF ConnInv, SInv, AllBacked, Unanswered
<1>7. NoBacklog' /\ Unstarted' /\ Unheard'
  BY <1>1, <1>3 DEF ConnInv, RInv, NoBacklog, Unstarted, Unheard
<1>. QED BY <1>2, <1>4, <1>5, <1>6, <1>7 DEF ConnInv, RInv, SInv

\* and after every other step.
LEMMA ConnInvStep == ConnInv /\ [ExamplesNext]_evars => ConnInv'
<1>1. ConnInv /\ [Next]_cvars => ConnInv'
  BY TInvStep, HeededStep, OnceStep, AbreastStep, SidsStep, PubStep, UnheardStep DEF ConnInv, RInv
<1>. QED BY <1>1, ConnInvAborted, StepsAre

-----------------------------------------------------------------------------
(* Where main is.                                                          *)

Stages ==
    \/ program = "subscriber"
       /\ stage \in {"start", "subscribing", "reading", "leaving", "finished", "panicked"}
    \/ program = "publisher"
       /\ stage \in {"publishing", "sleeping", "leaving", "finished", "panicked"}

\* Nothing has crashed.  The subscriber queues one command, and from its answer to its end it
\* holds a Subscriber.
Running ==
    ~Finished =>
        /\ crashed = {}
        /\ program = "subscriber" => \A i \in DOMAIN chan : Asks(chan[i], Me)
        /\ program = "subscriber" /\ stage \in {"reading", "leaving"} =>
               Me \in holds /\ caller[Me] = "live"

MainInv == Stages /\ Running

\* What is over remains so.
LEMMA OverStays ==
    ASSUME Over, [ExamplesNext]_evars
    PROVE  Over'
<1>1. CASE Run
  <2>1. task # "ended"
    BY <1>1 DEF Run, Transmit, TickPing, TickPong, TickKeepAlive, RecvCommand, ReadCommand,
                ReadError, ReadEof, Selecting
  <2>2. conn_state \in Terminal
    BY <2>1 DEF Over
  <2>3. CASE RecvCommand
    BY <2>2, <2>3 DEF RecvCommand, HandleClientInput, Terminal, Over
  <2>4. CASE ReadCommand
    BY <2>2, <2>4
       DEF ReadCommand, HandleServerInput, ReceiveInfo, ReceiveNotInfo, ReceiveMsg, DeliverWithin,
           ReceiveHMsg, ReceiveKeepAlive, Disregard, binding, Terminal, Over
  <2>5. CASE TickPing \/ TickPong \/ TickKeepAlive
    BY <2>2, <2>5
       DEF TickPing, TickPong, TickKeepAlive, HandleSendPingTimeout, HandleSendPongTimeout,
           HandleKeepAliveTimeout, binding, Terminal, Over
  <2>6. CASE Transmit \/ ReadError \/ ReadEof
    BY <2>2, <2>6 DEF Transmit, PollTransmit, ReadError, ReadEof, Leave, binding, Over
  <2>. QED BY <1>1, <2>3, <2>4, <2>5, <2>6 DEF Run
<1>2. CASE Users
  BY <1>2
     DEF Users, CallSubscribe, SubscribeReturns, NextMessage, TakeMsg, CancelSubscribe,
         DropSubscriber, DropReceiver, CallPublish, binding, loop, Over
<1>3. CASE Server \/ Tick
  BY <1>3
     DEF Server, Greet, ServerReads, ServerPings, ServerGarbles, ServerCloses, ServerHangs,
         ServerDelivers, ServerSends, Tick, binding, loop, Over
<1>4. CASE Aborted \/ UNCHANGED cvars
  BY <1>4 DEF Aborted, Leave, cvars, binding, loop, Over
<1>. QED BY <1>1, <1>2, <1>3, <1>4, StepsAre DEF Next

\* Every step of main leads to a stage with what belongs to it, and to a panic only when the
\* connection is over: a Subscriber of a connection that is not finds the queue empty.
LEMMA MainSteps ==
    ASSUME ConnInv, MainInv, ExamplesNext
    PROVE  /\ MainInv'
           /\ stage # "panicked" /\ stage' = "panicked" => Over'
<1> DEFINE Own(queue) == \A i \in DOMAIN queue : Asks(queue[i], Me)
<1>1. chan \in Seq(ConnectionCommand) /\ TInv /\ Me \in Requests
  BY HeadsTyped, MeAssumption DEF ConnInv
<1>2. Own(<<>>) /\ (chan # <<>> /\ Own(chan) => Own(Tail(chan)))
  <2>1. ASSUME chan # <<>>, Own(chan), NEW i \in DOMAIN Tail(chan) PROVE Asks(Tail(chan)[i], Me)
    <3>1. i + 1 \in DOMAIN chan /\ Tail(chan)[i] = chan[i + 1]
      BY <1>1, <2>1
    <3>. QED BY <2>1, <3>1
  <2>. QED BY <2>1
<1>3. ASSUME UNCHANGED <<main, crashed, holds, caller>>, chan' = chan \/ (Own(chan) => Own(chan'))
      PROVE  MainInv' /\ stage' = stage
  BY <1>3 DEF MainInv, Stages, Running, Finished, main
<1>4. CASE Subscribes
  <2> DEFINE cmd == Subscribe(Me, MaxMsgs[Me])
  <2>1. /\ stage = "start" /\ stage' = "subscribing" /\ program = "subscriber"
        /\ UNCHANGED <<program, crashed>> /\ (Offer(cmd) \/ UNCHANGED chan)
    BY <1>4 DEF Subscribes, At, CallSubscribe, user
  <2>2. Asks(cmd, Me)
    BY DEF Subscribe, Asks
  <2> HIDE DEF cmd
  <2>3. Own(chan) => Own(chan')
    <3>1. ASSUME Own(chan), Offer(cmd), NEW i \in DOMAIN chan' PROVE Asks(chan'[i], Me)
      <4>1. chan'[i] = cmd \/ (i \in DOMAIN chan /\ chan'[i] = chan[i])
        BY <1>1, <3>1 DEF Offer
      <4>. QED BY <2>2, <3>1, <4>1
    <3>. QED BY <2>1, <3>1
  <2>. QED BY <2>1, <2>3 DEF MainInv, Stages, Running, Finished
<1>5. CASE Subscribed
  <2>1. /\ stage = "subscribing" /\ UNCHANGED <<program, chan, task, conn_state>>
        /\ SubscribeReturns(Me)
        /\ stage' = IF Me \in crashed' THEN "panicked" ELSE "reading"
    BY <1>5 DEF Subscribed, At, SubscribeReturns, DropReceiver, loop, binding
  <2>2. program = "subscriber" /\ crashed = {}
    BY <2>1 DEF MainInv, Stages, Running, Finished
  <2>3. CASE answer[Me] # None /\ holds' = holds \cup {Me} /\ UNCHANGED <<crashed, caller>>
    BY <2>1, <2>2, <2>3 DEF MainInv, Stages, Running, Finished, SubscribeReturns
  <2>4. CASE answer[Me] = None /\ ~Held(Me) /\ crashed' = crashed \cup {Me}
    <3>1. Over
      BY <1>1, <2>1, <2>4 DEF ConnInv, Heeded, Over, TInv, LoopTyped, SubscribeReturns
    <3>. QED BY <2>1, <2>2, <2>4, <3>1 DEF MainInv, Stages, Running, Finished, Over
  <2>. QED BY <2>1, <2>3, <2>4 DEF SubscribeReturns
<1>6. CASE Prints
  BY <1>3, <1>6 DEF Prints, At, NextMessage, TakeMsg, main, loop
<1>7. CASE StreamEnds \/ Wakes \/ PublisherReturns
  <2>1. /\ UNCHANGED <<program, chan, crashed, holds, caller>>
        /\ \/ stage = "reading" /\ stage' = "leaving"
           \/ stage = "sleeping" /\ stage' = "leaving"
           \/ stage = "leaving" /\ stage' = "finished"
    BY <1>7 DEF StreamEnds, Wakes, PublisherReturns, At, cvars, loop, user
  <2>. QED BY <2>1 DEF MainInv, Stages, Running, Finished
<1>8. CASE SubscriberReturns
  <2>1. /\ stage = "leaving" /\ program = "subscriber" /\ UNCHANGED <<program, task>>
        /\ DropSubscriber(Me)
        /\ stage' = IF Me \in crashed' THEN "panicked" ELSE "finished"
    BY <1>8 DEF SubscriberReturns, At, DropSubscriber
  <2>2. crashed = {} /\ Own(chan) /\ Me \in holds
    BY <2>1 DEF MainInv, Running, Finished
  <2>3. chan = <<>>
    <3>1. answer[Me] # None /\ AskedOnce(Me)
      BY <1>1, <2>2 DEF TInv, HoldersAnswered, ConnInv, RInv, AllOnce
    <3>2. ~HeldIn(chan, Me)
      BY <3>1 DEF AskedOnce
    <3>3. chan # <<>> => 1 \in DOMAIN chan
      BY <1>1
    <3>. QED BY <2>2, <3>2, <3>3 DEF HeldIn
  <2>4. ~(Len(chan) >= CommandCapacity)
    BY <2>3, ConnectionAssumption
  <2>5. Me \in crashed' => task = "ended"
    BY <2>1, <2>2, <2>4 DEF DropSubscriber
  <2>. QED BY <2>1, <2>5 DEF MainInv, Stages, Running, Finished, Over
<1>9. CASE Publishes
  <2>1. /\ stage = "publishing" /\ UNCHANGED <<program, task>> /\ CallPublish
        /\ stage' = CASE crashed' # {} -> "panicked"
                      [] crashed' = {} /\ published' = MaxPublishes -> "sleeping"
                      [] OTHER -> "publishing"
    BY <1>9 DEF Publishes, CallPublish
  <2>2. program = "publisher" /\ crashed = {}
    BY <2>1 DEF MainInv, Stages, Running, Finished
  <2>3. crashed' # {} => task = "ended"
    BY <2>1, <2>2 DEF CallPublish
  <2>4. \/ crashed' # {} /\ stage' = "panicked"
        \/ crashed' = {} /\ stage' \in {"sleeping", "publishing"}
    BY <2>1
  <2>. QED BY <2>1, <2>2, <2>3, <2>4 DEF MainInv, Stages, Running, Finished, Over
<1>10. CASE Aborted
  BY <1>2, <1>3, <1>10 DEF Aborted, user
<1>11. CASE Runs
  <2>1. UNCHANGED <<main, crashed, holds, caller>>
    BY <1>11
       DEF Runs, Run, Transmit, TickPing, TickPong, TickKeepAlive, RecvCommand, ReadCommand,
           ReadError, ReadEof, user
  <2>2. chan' = chan \/ chan' = <<>> \/ (chan # <<>> /\ chan' = Tail(chan))
    BY <1>11
       DEF Runs, Run, Transmit, TickPing, TickPong, TickKeepAlive, RecvCommand, ReadCommand,
           ReadError, ReadEof, Loop, loop
  <2>. QED BY <1>2, <1>3, <2>1, <2>2
<1>12. CASE Around
  <2>1. UNCHANGED <<main, crashed, holds, caller, chan>>
    BY <1>12
       DEF Around, Server, Greet, ServerReads, ServerPings, ServerGarbles, ServerCloses,
           ServerHangs, ServerDelivers, ServerSends, PromptTick, Tick, loop, user
  <2>. QED BY <1>3, <2>1
<1>. QED BY <1>4, <1>5, <1>6, <1>7, <1>8, <1>9, <1>10, <1>11, <1>12 DEF ExamplesNext

\* It is so of the start,
LEMMA MainInit == ExamplesInit => MainInv /\ MainPanicsOnlyWhenOver
<1> SUFFICES ASSUME ExamplesInit PROVE MainInv /\ MainPanicsOnlyWhenOver
  OBVIOUS
<1>1. crashed = {} /\ chan = <<>>
  BY DEF ExamplesInit, Init
<1>. QED BY <1>1 DEF ExamplesInit, MainInv, Stages, Running, MainPanicsOnlyWhenOver

\* and of every step, stuttering included.
LEMMA MainStep == ConnInv /\ MainInv /\ [ExamplesNext]_evars => MainInv'
<1>1. MainInv /\ UNCHANGED evars => MainInv'
  BY DEF evars, cvars, loop, user, main, MainInv, Stages, Running, Finished
<1>. QED BY <1>1, MainSteps

\* Whichever program runs, main panics only once its connection is over: the answer to its
\* call always comes, and its Subscriber's drop finds room in the queue.
THEOREM PanicsOnlyWhenOver == ExamplesSpec => []MainPanicsOnlyWhenOver
<1>1. /\ ConnInv /\ MainInv /\ MainPanicsOnlyWhenOver /\ [ExamplesNext]_evars
      => MainPanicsOnlyWhenOver'
  <2>1. UNCHANGED evars => stage' = stage
    BY DEF evars, main
  <2>. QED BY <2>1, OverStays, MainSteps DEF MainPanicsOnlyWhenOver
<1>. QED BY <1>1, MainInit, MainStep, ConnInvInit, ConnInvStep, PTL DEF ExamplesSpec

\* The subscriber's stream ends at its limit, or with the connection: as long as that lasts
\* the routing table owns the sender of a Subscriber that lives.
THEOREM StreamEndsAtLimit == ExamplesSpec => EndsOnlyAtLimit
<1> DEFINE Ends == stage = "reading" /\ stage' = "leaving" => Over \/ taken[Me] = MaxMsgs[Me]
<1>1. ConnInv /\ MainInv /\ [ExamplesNext]_evars => Ends
  <2> SUFFICES ASSUME ConnInv, MainInv, [ExamplesNext]_evars, stage = "reading",
                      stage' = "leaving", ~Over
               PROVE  taken[Me] = MaxMsgs[Me]
    OBVIOUS
  <2>1. StreamEnds
    <3>1. stage' = stage => FALSE
      OBVIOUS
    <3>. QED BY <3>1
             DEF ExamplesNext, Subscribes, Subscribed, Prints, SubscriberReturns, Publishes, Wakes,
                 PublisherReturns, Aborted, Runs, Around, At, evars, main
  <2>2. Me \in Requests /\ \A r \in Requests : r = Me
    BY MeAssumption
  <2>3. Me \in holds /\ caller[Me] = "live" /\ answer[Me] # None
    <3>1. program = "subscriber"
      BY DEF MainInv, Stages
    <3>. QED BY <3>1 DEF MainInv, Running, Finished, ConnInv, TInv, HoldersAnswered
  <2>4. Live
    <3>1. task = "running" /\ conn_state \in {"AwaitingInfo", "InfoReceived"}
      BY DEF Over, ConnInv, TInv, LoopTyped, FieldsTyped, Terminal
    <3>. QED BY <2>2, <2>3, <3>1 DEF Live, ConnInv, SInv, Unanswered
  <2>5. Told(sid_generator, sid2subscriber, answer)
    BY <2>4 DEF ConnInv, SInv, Sids
  <2>6. answer[Me] \in DOMAIN sid2subscriber
    BY <2>2, <2>3, <2>5 DEF Told
  <2>7. sid2subscriber[answer[Me]] = Me
    <3>1. sid2subscriber[answer[Me]] \in Requests
      BY <2>6, TableIs DEF ConnInv, TInv, FieldsTyped
    <3>. QED BY <2>2, <3>1
  <2>. QED BY <2>1, <2>6, <2>7 DEF StreamEnds
<1>. QED BY <1>1, MainInit, MainStep, ConnInvInit, ConnInvStep, PTL
         DEF ExamplesSpec, EndsOnlyAtLimit

-----------------------------------------------------------------------------
(* The publisher's sleep.                                                  *)

\* It is a second long, and a connection is greeted once INFO is in.
Paced ==
    /\ wake \in Nat
    /\ conn_state = "AwaitingInfo" => greeted = None
    /\ program = "publisher" =>
           /\ stage = "sleeping" => wake <= now + 1
           /\ stage \in {"leaving", "finished"} => wake <= now

\* In that second everything that was published was written.
Written ==
    /\ program = "publisher" /\ stage \in {"sleeping", "leaving", "finished"} /\ wake <= now
    /\ greeted # None /\ greeted < wake
    /\ Live /\ server.mode = "up"
    => chan = <<>> /\ Lacks(buffered_transmits, Publications)

\* INFO is awaited from the start or not at all.
LEMMA AwaitsFirst ==
    ASSUME Run, conn_state' = "AwaitingInfo"
    PROVE  conn_state = "AwaitingInfo"
<1>1. ASSUME NEW s, Become(s) PROVE FALSE
  BY <1>1 DEF Become, Leave
<1>2. ASSUME NEW state, Leave(state) PROVE state = "AwaitingInfo"
  BY <1>2 DEF Leave
<1>3. CASE RecvCommand
  <2>1. HandleClientInput(Head(chan))
    BY <1>3 DEF RecvCommand
  <2>. QED BY <1>1, <2>1 DEF HandleClientInput
<1>4. CASE ReadCommand
  BY <1>1, <1>2, <1>4
     DEF ReadCommand, HandleServerInput, ReceiveInfo, ReceiveNotInfo, ReceiveMsg, DeliverWithin,
         ReceiveHMsg, ReceiveKeepAlive, Disregard, binding
<1>5. CASE TickPing \/ TickPong \/ TickKeepAlive
  BY <1>2, <1>5
     DEF TickPing, TickPong, TickKeepAlive, HandleSendPingTimeout, HandleSendPongTimeout,
         HandleKeepAliveTimeout, Enqueue, binding
<1>6. CASE Transmit \/ ReadError \/ ReadEof
  BY <1>2, <1>6 DEF Transmit, PollTransmit, ReadError, ReadEof, binding
<1>. QED BY <1>3, <1>4, <1>5, <1>6 DEF Run

\* Time does not go back, and the end of the sleep is set for a second from the last call.
LEMMA PacedStep ==
    ASSUME ConnInv, MainInv, Paced, ExamplesNext
    PROVE  Paced'
<1>1. now \in Nat
  BY ConnectionAssumption DEF ConnInv, TInv, LoopTyped
<1>2. CASE Subscribes \/ Subscribed \/ Prints \/ StreamEnds \/ SubscriberReturns
  <2>1. /\ program = "subscriber" /\ UNCHANGED <<program, wake, greeted, conn_state>>
    BY <1>2
       DEF Subscribes, Subscribed, Prints, StreamEnds, SubscriberReturns, At, CallSubscribe,
           SubscribeReturns, NextMessage, TakeMsg, DropSubscriber, DropReceiver, MainInv, Stages,
           binding, cvars
  <2>. QED BY <2>1 DEF Paced
<1>3. CASE Publishes
  <2>1. /\ UNCHANGED <<now, conn_state, program, greeted>> /\ stage' \notin {"leaving", "finished"}
        /\ wake' = IF published' = MaxPublishes THEN now + 1 ELSE wake + 1
        /\ stage' = "sleeping" => published' = MaxPublishes
    BY <1>3 DEF Publishes, CallPublish, binding
  <2>. QED BY <1>1, <2>1 DEF Paced
<1>4. CASE Wakes \/ PublisherReturns
  <2>1. /\ UNCHANGED <<now, conn_state, program, wake, greeted>>
        /\ stage' # "sleeping" /\ (wake <= now \/ stage = "leaving")
    BY <1>4 DEF Wakes, PublisherReturns, At, cvars, binding
  <2>. QED BY <2>1 DEF Paced
<1>5. CASE Aborted
  BY <1>5 DEF Aborted, Leave, Paced, main
<1>6. CASE Runs
  <2>1. /\ Run /\ UNCHANGED <<main, now>>
        /\ greeted' = IF greeted = None /\ conn_state' = "InfoReceived" THEN now ELSE greeted
    BY <1>6
       DEF Runs, Run, Transmit, TickPing, TickPong, TickKeepAlive, RecvCommand, ReadCommand,
           ReadError, ReadEof, Loop
  <2>2. conn_state' = "AwaitingInfo" => greeted' = None
    BY <2>1, AwaitsFirst DEF Paced
  <2>. QED BY <2>1, <2>2 DEF Paced, main
<1>7. CASE Around
  <2>1. /\ UNCHANGED <<program, stage, wake, greeted, conn_state>> /\ now' \in {now, now + 1}
    BY <1>7
       DEF Around, Server, Greet, ServerReads, ServerPings, ServerGarbles, ServerCloses,
           ServerHangs, ServerDelivers, ServerSends, PromptTick, Tick, binding, main
  <2>2. CASE now' = now
    BY <2>1, <2>2 DEF Paced
  <2>3. CASE now' = now + 1
    BY <1>1, <2>1, <2>3 DEF Paced
  <2>. QED BY <2>1, <2>2, <2>3
<1>. QED BY <1>2, <1>3, <1>4, <1>5, <1>6, <1>7 DEF ExamplesNext

\* What the loop does while it lasts, with nothing in the command queue.
LEMMA LoopWrites ==
    ASSUME TInv, Run, Live, Live', chan = <<>>, Lacks(buffered_transmits, Publications)
    PROVE  chan' = <<>> /\ Lacks(buffered_transmits', Publications)
<1>1. conn_state = "InfoReceived" /\ conn_state' = "InfoReceived"
  BY DEF Live
<1>2. ASSUME NEW ticked, NEW input, Loop(ticked, chan, input) PROVE chan' = <<>>
  BY <1>1, <1>2 DEF Loop
<1>3. buffered_transmits \in Seq(ClientCommand) /\ Ping \notin Publications /\ Pong \notin Publications
      /\ Ping \in ClientCommand /\ Pong \in ClientCommand
  BY WireTyped DEF TInv, FieldsTyped, Ping, Pong, Publications
<1>4. ASSUME NEW t,
             HandleSendPingTimeout(t) \/ HandleSendPongTimeout(t) \/ HandleKeepAliveTimeout(t)
      PROVE  Lacks(buffered_transmits', Publications)
  <2>1. \/ UNCHANGED buffered_transmits
        \/ \E c \in {Ping, Pong} : buffered_transmits' = Append(buffered_transmits, c)
    BY <1>1, <1>4
       DEF HandleSendPingTimeout, HandleSendPongTimeout, HandleKeepAliveTimeout, Enqueue, Leave,
           binding, inner
  <2>2. \A c \in ClientCommand : Lacks(Append(buffered_transmits, c), Publications)
                                     <=> Lacks(buffered_transmits, Publications) /\ c \notin Publications
    BY <1>3, LacksIs
  <2>. QED BY <1>3, <2>1, <2>2
<1>5. CASE TickPing \/ TickPong \/ TickKeepAlive
  BY <1>2, <1>4, <1>5 DEF TickPing, TickPong, TickKeepAlive
<1>6. CASE RecvCommand
  BY <1>6 DEF RecvCommand
<1>7. CASE ReadCommand
  <2>1. UNCHANGED buffered_transmits
    BY <1>1, <1>7
       DEF ReadCommand, HandleServerInput, ReceiveInfo, ReceiveNotInfo, ReceiveMsg, DeliverWithin,
           ReceiveHMsg, ReceiveKeepAlive, Disregard, Leave, binding, inner
  <2>. QED BY <1>2, <1>7, <2>1 DEF ReadCommand
<1>8. CASE Transmit
  BY <1>3, <1>8, LacksIs DEF Transmit, PollTransmit, loop
<1>9. CASE ReadError \/ ReadEof
  BY <1>2, <1>9 DEF ReadError, ReadEof, Live, binding, inner
<1>. QED BY <1>5, <1>6, <1>7, <1>8, <1>9 DEF Run

\* When the second is over the loop had nothing to do, and nothing has been published since.
LEMMA WrittenStep ==
    ASSUME ConnInv, MainInv, Paced, Written, ExamplesNext, RoomToWrite
    PROVE  Written'
<1> SUFFICES ASSUME program' = "publisher", stage' \in {"sleeping", "leaving", "finished"},
                    wake' <= now', greeted' # None, greeted' < wake', Live', server'.mode = "up"
             PROVE  chan' = <<>> /\ Lacks(buffered_transmits', Publications)
  BY DEF Written
<1>1. now \in Nat /\ wake \in Nat /\ server \in ServerState
  BY ConnectionAssumption DEF ConnInv, TInv, LoopTyped, ServerTyped, Paced
<1>2. CASE Subscribes \/ Subscribed \/ Prints \/ StreamEnds \/ SubscriberReturns
  BY <1>2
     DEF Subscribes, Subscribed, Prints, StreamEnds, SubscriberReturns, At, MainInv, Stages
<1>3. CASE Publishes
  <2>1. /\ UNCHANGED now /\ stage' # "leaving" /\ stage' # "finished"
        /\ wake' = IF published' = MaxPublishes THEN now + 1 ELSE wake + 1
        /\ stage' = "sleeping" => published' = MaxPublishes
    BY <1>3 DEF Publishes, CallPublish
  <2>. QED BY <1>1, <2>1
<1>4. CASE Wakes \/ PublisherReturns
  BY <1>4 DEF Wakes, PublisherReturns, At, Written, Live, cvars, binding, inner, loop, net
<1>5. CASE Aborted
  BY <1>5 DEF Aborted, Live
<1>6. CASE Runs
  <2>1. /\ Run /\ UNCHANGED <<main, now, server>>
        /\ greeted' = IF greeted = None /\ conn_state' = "InfoReceived" THEN now ELSE greeted
    BY <1>6
       DEF Runs, Run, Transmit, TickPing, TickPong, TickKeepAlive, RecvCommand, ReadCommand,
           ReadError, ReadEof, Loop
  <2>2. greeted # None /\ greeted' = greeted
    BY <1>1, <2>1 DEF Live, main
  <2>3. conn_state # "AwaitingInfo"
    BY <2>2 DEF Paced
  <2>4. Live
    <3>1. conn_state = "InfoReceived"
      BY <2>1, <2>3, LiveStarts DEF ReceiveInfo
    <3>2. task = "running"
      BY <2>1 DEF Run, Transmit, TickPing, TickPong, TickKeepAlive, RecvCommand, ReadCommand,
                  ReadError, ReadEof, Selecting
    <3>. QED BY <3>1, <3>2 DEF Live
  <2>5. chan = <<>> /\ Lacks(buffered_transmits, Publications)
    BY <2>1, <2>2, <2>4 DEF Written, main
  <2>. QED BY <2>1, <2>4, <2>5, LoopWrites DEF ConnInv
<1>7. CASE Around /\ Server
  <2>1. UNCHANGED <<main, greeted, chan, buffered_transmits, conn_state, task, now>>
    BY <1>7
       DEF Around, Server, Greet, ServerReads, ServerPings, ServerGarbles, ServerCloses,
           ServerHangs, ServerDelivers, ServerSends, PromptTick, Tick, binding, inner, loop
  <2>2. server.mode = "up"
    <3>1. server.mode = "new" => FALSE
      BY <2>1 DEF ConnInv, Unheard, Live
    <3>2. [PromptNext]_cvars
      BY <1>7 DEF PromptNext
    <3>. QED BY <1>1, <3>1, <3>2, GreetedOnce DEF ServerState
  <2>. QED BY <2>1, <2>2 DEF Written, Live, main
<1>8. CASE Around /\ PromptTick
  <2>1. /\ UNCHANGED <<main, greeted, chan, buffered_transmits, conn_state, task, server>>
        /\ now' = now + 1 /\ Idle
    BY <1>8 DEF Around, PromptTick, Tick, binding, inner, loop, net
  <2>2. CASE wake <= now
    BY <2>1, <2>2 DEF Written, Live, main
  <2>3. CASE wake > now
    <3>1. ~Blocked /\ task = "running"
      BY <1>1, <2>1 DEF RoomToWrite, Live
    <3>2. chan = <<>> /\ buffered_transmits = <<>>
      BY <2>1, <3>1 DEF Idle, Selecting
    <3>. QED BY <2>1, <3>2 DEF Lacks
  <2>. QED BY <1>1, <2>2, <2>3
<1>. QED BY <1>2, <1>3, <1>4, <1>5, <1>6, <1>7, <1>8 DEF ExamplesNext, Around

\* A publisher that is greeted before its sleep is over leaves nothing behind, provided its
\* connection lasts, the server is up, and no time passes while the socket is full.
THEOREM NothingLeft == ExamplesSpec /\ [][RoomToWrite]_evars => []NothingLeftUnsent
<1>1. ConnInv /\ Paced /\ Written => NothingLeftUnsent
  <2> SUFFICES ASSUME ConnInv, Paced, Written, program = "publisher",
                      stage \in {"leaving", "finished"}, greeted # None, greeted < wake,
                      Live, server.mode = "up"
               PROVE  InOrder(Sent, Publications, server.heard, published)
    BY DEF NothingLeftUnsent
  <2>1. chan = <<>> /\ Lacks(buffered_transmits, Publications)
    BY DEF Paced, Written
  <2>2. preliminary = <<>>
    BY DEF Live, ConnInv, RInv, NoBacklog
  <2>3. PICK sent \in Nat, kept \in Nat :
            /\ InOrder(Ahead, Publications, server.heard, sent)
            /\ InOrder(preliminary, Publications, sent, kept)
            /\ InOrder(chan, Publications, kept, published)
    BY DEF ConnInv, PubInv, Flowing, InTurn, Live, Terminal
  <2>4. sent = published
    <3>1. published \in Nat
      BY DEF ConnInv, TInv, UsersTyped
    <3>. QED BY <2>1, <2>2, <2>3, <3>1, OrderEmpty
  <2>5. {i \in DOMAIN Ahead : Ahead[i] \in Publications} = {i \in DOMAIN Sent : Sent[i] \in Publications}
        /\ \A i \in DOMAIN Sent : Ahead[i] = Sent[i]
    <3> DEFINE M == Len(Sent)
               N == Len(buffered_transmits)
    <3>1. /\ M \in Nat /\ N \in Nat /\ DOMAIN Sent = 1..M /\ DOMAIN buffered_transmits = 1..N
          /\ DOMAIN Ahead = 1..(M + N)
          /\ \A i \in 1..M : Ahead[i] = Sent[i]
          /\ \A i \in (M + 1)..(M + N) : Ahead[i] = buffered_transmits[i - M]
      <4>1. /\ Sent \in Seq(ClientCommand) /\ buffered_transmits \in Seq(ClientCommand)
            /\ Ahead = Sent \o buffered_transmits
        BY AheadTyped DEF ConnInv
      <4>. QED BY <4>1
    <3> HIDE DEF M, N
    <3>2. \A i \in 1..(M + N) : i \in 1..M \/ (i \in (M + 1)..(M + N) /\ i - M \in 1..N)
      BY <3>1
    <3>3. 1..M \subseteq 1..(M + N)
      BY <3>1
    <3>. QED BY <2>1, <3>1, <3>2, <3>3 DEF Lacks
  <2>. QED BY <2>3, <2>4, <2>5 DEF InOrder
<1>2. ExamplesInit => Paced /\ Written
  BY DEF ExamplesInit, Init, Paced, Written
<1>3. ConnInv /\ MainInv /\ Paced /\ [ExamplesNext]_evars => Paced'
  <2>1. UNCHANGED evars /\ Paced => Paced'
    BY DEF Paced, evars, cvars, binding, main
  <2>. QED BY <2>1, PacedStep
<1>4. /\ ConnInv /\ MainInv /\ Paced /\ Written /\ [ExamplesNext]_evars /\ [RoomToWrite]_evars
      => Written'
  <2>1. UNCHANGED evars /\ Written => Written'
    BY DEF Written, Live, evars, cvars, binding, inner, loop, net, main
  <2>2. UNCHANGED evars => UNCHANGED now
    BY DEF evars, cvars
  <2>. QED BY <2>1, <2>2, WrittenStep DEF RoomToWrite
<1>. QED BY <1>1, <1>2, <1>3, <1>4, MainInit, MainStep, ConnInvInit, ConnInvStep, PTL
         DEF ExamplesSpec

=============================================================================
