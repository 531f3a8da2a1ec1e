--------------------------- MODULE BindingProofs ----------------------------
(***************************************************************************)
(* Theorems about BindingApi, for every set of requests, payloads, limits  *)
(* and instants, and every bound.  One inductive invariant gives the       *)
(* types, the handshake, the routing table and the sids; a second, what    *)
(* callers are promised: requests are not forgotten, answers are           *)
(* subscribed, channels hold their own messages, timers act.  And          *)
(* BindingApi implements CommandPipe, because the replay of the backlog    *)
(* computes what Backlog foretold while it was being collected.            *)
(***************************************************************************)
EXTENDS BindingRefinement, HandlerProofs

-----------------------------------------------------------------------------
\* Only MSG commands name a message of the server.
LEMMA ServerMessages ==
    \A cmd \in ServerCommand : cmd.type = "MSG" => cmd \in Message
BY EnvironmentAssumption DEF ServerCommand, Message, Info, SPing, SPong, OkOrErr

\* A new binding has values of the types.
LEMMA TypeInit == Init => TypeOK
BY NeverHeardTyped, NoSubscribersTyped, TypeParts
   DEF Init, BindingInit, TypeOK, FieldsTyped, CallerTyped

\* No call of the API, and no step of a caller, leaves the types.
LEMMA TypeStep == TypeOK /\ [Next]_vars => TypeOK'
<1> SUFFICES ASSUME TypeOK, [Next]_vars PROVE TypeOK'
  OBVIOUS
<1> USE DEF TypeOK
<1>1. FieldsTyped /\ CallerTyped
  BY TypeParts
<1>2. ASSUME NEW cmd \in ConnectionCommand, ClientInput(cmd), CallerTyped'
      PROVE  TypeOK'
  <2>1. FieldsTyped'
    BY <1>1, <1>2, ClientInputTyped DEF ClientInput
  <2>. QED BY <1>2, <2>1, TypePartsNext DEF ClientInput
<1>3. ASSUME NEW r \in Requests, NEW max \in Limits \cup {None}, Request(r, max)
      PROVE  TypeOK'
  <2>1. Subscribe(r, max) \in ConnectionCommand
    BY DEF Subscribe, ConnectionCommand
  <2>2. CallerTyped'
    BY <1>1, <1>3 DEF Request, CallerTyped
  <2>. QED BY <1>2, <1>3, <2>1, <2>2 DEF Request
<1>4. ASSUME NEW r \in Requests, Cancel(r) PROVE TypeOK'
  <2>1. Unsubscribe(answer[r]) \in ConnectionCommand
    BY <1>1, <1>4 DEF Cancel, Unsubscribe, ConnectionCommand, FieldsTyped
  <2>. QED BY <1>1, <1>2, <1>4, <2>1 DEF Cancel, CallerTyped
<1>5. ASSUME NEW p \in Payloads, Send(p) PROVE TypeOK'
  <2>1. Publish(p) \in ConnectionCommand
    BY DEF Publish, ConnectionCommand
  <2>. QED BY <1>1, <1>2, <1>5, <2>1 DEF Send, CallerTyped
<1>6. CASE ServerInput
  <2>1. FieldsTyped'
    BY <1>1, <1>6, ServerMessages, ServerInputTyped, EnvironmentAssumption DEF ServerInput
  <2>. QED BY <1>1, <1>6, <2>1, TypePartsNext DEF ServerInput, CallerTyped
<1>7. CASE Timeout
  <2>1. FieldsTyped'
    BY <1>1, <1>7, TimeoutTyped, EnvironmentAssumption DEF Timeout
  <2>. QED BY <1>1, <1>7, <2>1, TypePartsNext DEF Timeout, CallerTyped
<1>8. CASE Transmit
  <2>1. FieldsTyped' /\ outgoing' \in Seq(ClientCommand)
    BY <1>1, <1>8 DEF Transmit, PollTransmit, FieldsTyped
  <2>. QED BY <1>1, <1>8, <2>1, TypePartsNext DEF Transmit, CallerTyped
<1>9. ASSUME NEW r \in Requests, Leaving(r) PROVE TypeOK'
  <2>1. FieldsTyped' /\ CallerTyped'
    BY <1>1, <1>9 DEF Leaving, DropReceiver, FieldsTyped, CallerTyped, inner
  <2>. QED BY <1>9, <2>1, TypePartsNext DEF Leaving
<1>10. ASSUME NEW r \in Requests, Taking(r) PROVE TypeOK'
  <2>1. msg_chan' \in [Requests -> Seq(Message)]
    BY <1>1, <1>10 DEF Taking, TakeMsg, FieldsTyped
  <2>2. FieldsTyped' /\ CallerTyped'
    BY <1>1, <1>10, <2>1 DEF Taking, TakeMsg, FieldsTyped, CallerTyped, inner
  <2>. QED BY <1>10, <2>2, TypePartsNext DEF Taking
<1>11. CASE UNCHANGED vars
  BY <1>1, <1>11, TypePartsNext DEF vars, binding, inner, FieldsTyped, CallerTyped
<1>. QED BY <1>3, <1>4, <1>5, <1>6, <1>7, <1>8, <1>9, <1>10, <1>11, EnvironmentAssumption
         DEF Next

\* The conjuncts of TypeOK, the histories included, hold in every reachable state.
THEOREM TypeCorrect == Spec => []TypeOK
BY TypeInit, TypeStep, PTL DEF Spec

-----------------------------------------------------------------------------
(* What a stream of commands on the wire and the binding's table owe each  *)
(* other.                                                                  *)

FirstOnly(stream) == \A i \in DOMAIN stream : stream[i] = Connect <=> i = 1

\* Open, of any stream.
OpenIn(stream, i) ==
    /\ stream[i].type = "SUB"
    /\ \A j \in DOMAIN stream : j > i => stream[j] # Unsub(stream[i].sid, None)

\* Sids on the wire were given out before next.
Numbered(stream, next) ==
    \A i \in DOMAIN stream :
        stream[i].type \in {"SUB", "UNSUB"} => stream[i].sid \in 1..(next - 1)

Routed(stream, table) ==
    /\ \A sid \in DOMAIN table :
           \E i \in DOMAIN stream :
               OpenIn(stream, i) /\ stream[i].sid = sid /\ stream[i].request = table[sid]
    /\ \A i \in DOMAIN stream :
           OpenIn(stream, i) =>
               stream[i].sid \in DOMAIN table /\ table[stream[i].sid] = stream[i].request

Sound(stream, table, next) ==
    /\ stream # <<>>
    /\ FirstOnly(stream)
    /\ Numbered(stream, next)
    /\ Routed(stream, table)

\* Answers given name sids below next.
AnswersBelow(answers, next) ==
    \A r \in Requests : answers[r] # None => answers[r] \in 1..(next - 1)

-----------------------------------------------------------------------------
(* The inductive invariant.                                                *)

Greeting ==
    conn_state = "AwaitingInfo" =>
        /\ Stream = <<>>
        /\ sid_generator = 1 /\ sid2subscriber = NoSubscribers
        /\ \A r \in Requests : answer[r] = None
        /\ \A i \in DOMAIN preliminary : preliminary[i].type # "Unsubscribe"

Talking ==
    conn_state = "InfoReceived" =>
        Sound(Stream, sid2subscriber, sid_generator) /\ AnswersBelow(answer, sid_generator)

Ended == conn_state \in Terminal => FirstOnly(Stream)

\* A request that was not made has no answer and no command in the backlog.
Unasked ==
    /\ \A r \in Requests : caller[r] = "idle" => answer[r] = None
    /\ \A i \in DOMAIN preliminary :
           preliminary[i].type = "Subscribe" => caller[preliminary[i].request] # "idle"

IInv == TypeOK /\ Greeting /\ Talking /\ Ended /\ Unasked

-----------------------------------------------------------------------------
(* One more command on the wire.                                           *)

\* PING, PONG, PUB and an UNSUB with a maximum leave the table as it is.
LEMMA PushQuiet ==
    ASSUME NEW stream \in Seq(ClientCommand), NEW c \in ClientCommand, NEW table, NEW next,
           Sound(stream, table, next),
           c # Connect, c.type # "SUB",
           c.type = "UNSUB" => c.sid \in 1..(next - 1) /\ c.max_msgs # None
    PROVE  Sound(Append(stream, c), table, next)
<1> DEFINE longer == Append(stream, c)
           N == Len(stream)
<1>1. N \in Nat \ {0} /\ DOMAIN stream = 1..N
  BY DEF Sound
<1>2. /\ DOMAIN longer = 1..(N + 1)
      /\ \A i \in 1..N : longer[i] = stream[i]
      /\ longer[N + 1] = c
  BY Pushed
<1> HIDE DEF longer, N
<1>3. longer # <<>>
  BY <1>1, <1>2
<1>4. FirstOnly(longer)
  BY <1>1, <1>2 DEF Sound, FirstOnly
<1>5. Numbered(longer, next)
  BY <1>1, <1>2 DEF Sound, Numbered
<1>6. \A sid : c # Unsub(sid, None)
  BY DEF Unsub
<1>7. \A i \in 1..(N + 1) : OpenIn(longer, i) <=> i \in 1..N /\ OpenIn(stream, i)
  <2>1. ASSUME NEW i \in 1..N PROVE OpenIn(longer, i) <=> OpenIn(stream, i)
    <3>1. longer[i] = stream[i] /\ i \in 1..(N + 1)
      BY <1>1, <1>2
    <3>2. \A sid : longer[N + 1] # Unsub(sid, None)
      BY <1>2, <1>6, Zenon
    <3>3. \A j \in 1..(N + 1) : j \in 1..N \/ j = N + 1
      BY <1>1
    <3>4. \A j \in 1..N : j \in 1..(N + 1) /\ longer[j] = stream[j]
      BY <1>1, <1>2
    <3>. QED BY <1>1, <1>2, <3>1, <3>2, <3>3, <3>4, Zenon DEF OpenIn
  <2>2. ~OpenIn(longer, N + 1) /\ N + 1 \notin 1..N
    BY <1>1, <1>2 DEF OpenIn
  <2>3. \A i \in 1..(N + 1) : i \in 1..N \/ i = N + 1
    BY <1>1
  <2>. QED BY <2>1, <2>2, <2>3, Zenon
<1>8. Routed(longer, table)
  <2>1. \A i \in 1..N : OpenIn(longer, i) <=> OpenIn(stream, i)
    BY <1>1, <1>7
  <2>2. ~ OpenIn(longer, N + 1)
    BY <1>1, <1>7
  <2>3. \A i \in 1..(N + 1) : OpenIn(longer, i) => i \in 1..N
    BY <1>7, Zenon
  <2>4. \A i \in 1..N : i \in 1..(N + 1) /\ longer[i] = stream[i]
    BY <1>1, <1>2
  <2>5. Routed(stream, table)
    BY Zenon DEF Sound
  <2>6. ASSUME NEW sid \in DOMAIN table
        PROVE  \E i \in DOMAIN longer :
                   OpenIn(longer, i) /\ longer[i].sid = sid /\ longer[i].request = table[sid]
    <3>1. PICK i \in 1..N :
              OpenIn(stream, i) /\ stream[i].sid = sid /\ stream[i].request = table[sid]
      BY <1>1, <2>5, Zenon DEF Routed
    <3>2. i \in DOMAIN longer /\ longer[i] = stream[i] /\ OpenIn(longer, i)
      BY <1>2, <2>1, <2>4, <3>1, Zenon
    <3>. QED BY <3>1, <3>2, Zenon
  <2>7. ASSUME NEW i \in DOMAIN longer, OpenIn(longer, i)
        PROVE  longer[i].sid \in DOMAIN table /\ table[longer[i].sid] = longer[i].request
    <3>1. i \in 1..N /\ OpenIn(stream, i) /\ longer[i] = stream[i]
      BY <1>2, <2>1, <2>3, <2>4, <2>7, Zenon
    <3>. QED BY <1>1, <2>5, <3>1, Zenon DEF Routed
  <2>. QED BY <2>6, <2>7, Zenon DEF Routed
<1>. QED BY <1>3, <1>4, <1>5, <1>8 DEF Sound, longer

\* A SUB with the next sid goes with the table's entry for it.
LEMMA PushSub ==
    ASSUME NEW stream \in Seq(ClientCommand), NEW table \in Table, NEW next \in Nat \ {0},
           NEW r \in Requests, Sound(stream, table, next)
    PROVE  Sound(Append(stream, Sub(r, next)), Extend(table, next, r), next + 1)
<1> DEFINE longer == Append(stream, Sub(r, next))
           larger == Extend(table, next, r)
           N == Len(stream)
<1>1. N \in Nat \ {0} /\ DOMAIN stream = 1..N
  BY DEF Sound
<1>2. /\ DOMAIN longer = 1..(N + 1)
      /\ \A i \in 1..N : longer[i] = stream[i]
      /\ longer[N + 1] = Sub(r, next)
  BY Pushed, WireTyped
<1>3. /\ DOMAIN larger = DOMAIN table \cup {next}
      /\ \A sid \in DOMAIN larger : larger[sid] = IF sid = next THEN r ELSE table[sid]
  BY DEF Extend
<1>4. \A sid \in Nat : Sub(r, next) # Unsub(sid, None) /\ Sub(r, next) # Connect
  BY DEF Sub, Unsub, Connect
<1>5. /\ Sub(r, next).type = "SUB"
      /\ Sub(r, next).sid = next
      /\ Sub(r, next).request = r
  BY DEF Sub
<1> HIDE DEF longer, larger, N
<1>6. longer # <<>> /\ FirstOnly(longer)
  BY <1>1, <1>2, <1>4 DEF Sound, FirstOnly
<1>7. Numbered(longer, next + 1)
  <2>1. ASSUME NEW i \in 1..N,
               stream[i].type \in {"SUB", "UNSUB"}
        PROVE  stream[i].sid \in 1..next
    BY <1>1, <2>1 DEF Sound, Numbered
  <2>. QED BY <1>1, <1>2, <1>5, <2>1 DEF Numbered
<1>8. \A i \in 1..N : stream[i].type = "SUB" => stream[i].sid \in 1..(next - 1)
  BY <1>1 DEF Sound, Numbered
<1>9. \A i \in 1..N : OpenIn(longer, i) <=> OpenIn(stream, i)
  BY <1>1, <1>2, <1>4, <1>8 DEF OpenIn
<1>10. OpenIn(longer, N + 1)
  BY <1>1, <1>2, <1>5 DEF OpenIn
<1>11. Routed(longer, larger)
  <2>1. ASSUME NEW sid \in DOMAIN larger
        PROVE  \E i \in DOMAIN longer : /\ OpenIn(longer, i) /\ longer[i].sid = sid
                                        /\ longer[i].request = larger[sid]
    <3>1. CASE sid = next
      BY <1>1, <1>2, <1>3, <1>5, <1>10, <3>1
    <3>2. CASE sid # next
      <4>1. PICK i \in 1..N : OpenIn(stream, i) /\ stream[i].sid = sid
                              /\ stream[i].request = table[sid]
        BY <1>1, <1>3, <3>2 DEF Sound, Routed
      <4>. QED BY <1>1, <1>2, <1>3, <1>9, <3>2, <4>1
    <3>. QED BY <3>1, <3>2
  <2>2. ASSUME NEW i \in DOMAIN longer, OpenIn(longer, i)
        PROVE  longer[i].sid \in DOMAIN larger /\ larger[longer[i].sid] = longer[i].request
    <3>1. CASE i = N + 1
      BY <1>2, <1>3, <1>5, <3>1
    <3>2. CASE i \in 1..N
      <4>1. stream[i].sid \in DOMAIN table /\ table[stream[i].sid] = stream[i].request
        BY <1>1, <1>9, <2>2, <3>2 DEF Sound, Routed
      <4>2. stream[i].sid # next
        BY <1>8, <2>2, <1>2, <3>2 DEF OpenIn
      <4>. QED BY <1>2, <1>3, <3>2, <4>1, <4>2
    <3>. QED BY <1>1, <1>2, <3>1, <3>2
  <2>. QED BY <2>1, <2>2 DEF Routed
<1>. QED BY <1>6, <1>7, <1>11 DEF Sound, longer, larger

\* An UNSUB without a maximum goes with the removal of the entry.
LEMMA PushUnsub ==
    ASSUME NEW stream \in Seq(ClientCommand), NEW table \in Table, NEW next \in Nat \ {0},
           NEW sid \in 1..(next - 1), Sound(stream, table, next)
    PROVE  Sound(Append(stream, Unsub(sid, None)), Without(table, sid), next)
<1> DEFINE longer  == Append(stream, Unsub(sid, None))
           smaller == Without(table, sid)
           N == Len(stream)
<1>1. N \in Nat \ {0} /\ DOMAIN stream = 1..N
  BY DEF Sound
<1>2. /\ DOMAIN longer = 1..(N + 1)
      /\ \A i \in 1..N : longer[i] = stream[i]
      /\ longer[N + 1] = Unsub(sid, None)
  BY Pushed, WireTyped
<1>3. /\ DOMAIN smaller = DOMAIN table \ {sid}
      /\ \A s \in DOMAIN smaller : smaller[s] = table[s]
  BY DEF Without
<1>4. /\ Unsub(sid, None) # Connect
      /\ Unsub(sid, None).type # "SUB"
      /\ Unsub(sid, None).sid = sid
      /\ \A s : Unsub(s, None) = Unsub(sid, None) <=> s = sid
  BY DEF Unsub, Connect
<1> HIDE DEF longer, smaller, N
<1>5. longer # <<>> /\ FirstOnly(longer)
  BY <1>1, <1>2, <1>4 DEF Sound, FirstOnly
<1>6. Numbered(longer, next)
  BY <1>1, <1>2, <1>4 DEF Sound, Numbered
<1>7. \A i \in 1..N : OpenIn(longer, i) <=> OpenIn(stream, i) /\ stream[i].sid # sid
  BY <1>1, <1>2, <1>4 DEF OpenIn
<1>8. ~ OpenIn(longer, N + 1)
  BY <1>1, <1>2, <1>4 DEF OpenIn
<1>9. Routed(longer, smaller)
  <2>1. ASSUME NEW s \in DOMAIN smaller
        PROVE  \E i \in DOMAIN longer : /\ OpenIn(longer, i) /\ longer[i].sid = s
                                        /\ longer[i].request = smaller[s]
    <3>1. PICK i \in 1..N : OpenIn(stream, i) /\ stream[i].sid = s
                            /\ stream[i].request = table[s]
      BY <1>1, <1>3 DEF Sound, Routed
    <3>. QED BY <1>1, <1>2, <1>3, <1>7, <3>1
  <2>2. ASSUME NEW i \in DOMAIN longer, OpenIn(longer, i)
        PROVE  longer[i].sid \in DOMAIN smaller /\ smaller[longer[i].sid] = longer[i].request
    <3>1. i \in 1..N
      BY <1>1, <1>2, <1>8, <2>2
    <3>2. OpenIn(stream, i) /\ stream[i].sid # sid
      BY <1>7, <2>2, <3>1
    <3>. QED BY <1>1, <1>2, <1>3, <3>1, <3>2 DEF Sound, Routed
  <2>. QED BY <2>1, <2>2 DEF Routed
<1>. QED BY <1>5, <1>6, <1>9 DEF Sound, longer, smaller

-----------------------------------------------------------------------------
(* One command of a caller.                                                *)

\* What the replay and every later step keep of the values they compute; out is what
\* has left already.
Kept(out, s) ==
    ~s.panicked => /\ Sound(out \o s.buffered_transmits, s.sid2subscriber, s.sid_generator)
                   /\ AnswersBelow(s.answer, s.sid_generator)

\* One step of the binding keeps stream and table in agreement.
LEMMA StepKeeps ==
    ASSUME NEW out \in Seq(ClientCommand), NEW s \in StepState, NEW cmd \in ConnectionCommand,
           cmd.type = "Unsubscribe" => cmd.sid \in 1..(s.sid_generator - 1),
           Kept(out, s)
    PROVE  Kept(out, StepCommand(s, cmd))
<1> DEFINE stream == out \o s.buffered_transmits
           next   == s.sid_generator
           table  == s.sid2subscriber
           t      == StepCommand(s, cmd)
<1>1. /\ stream \in Seq(ClientCommand) /\ next \in Nat \ {0} /\ table \in Table
      /\ s.answer \in [Requests -> Nat \cup {None}]
  BY DEF StepState
<1>2. CASE s.panicked
  BY <1>2 DEF Kept, StepCommand
<1>3. CASE ~s.panicked /\ cmd.type = "Publish"
  <2>1. Pub(cmd.payload) \in ClientCommand
    BY <1>3, WireTyped DEF ConnectionCommand
  <2>2. Sound(Append(stream, Pub(cmd.payload)), table, next)
    <3>1. Pub(cmd.payload) # Connect /\ Pub(cmd.payload).type \notin {"SUB", "UNSUB"}
      BY DEF Pub, Connect
    <3>. QED BY <1>1, <1>3, <2>1, <3>1, PushQuiet DEF Kept
  <2>. QED BY <1>3, <2>2, StepWire DEF Kept
<1>4. CASE ~s.panicked /\ cmd.type = "Unsubscribe"
  <2>1. Sound(Append(stream, Unsub(cmd.sid, None)), Without(table, cmd.sid), next)
    BY <1>1, <1>4, PushUnsub DEF Kept
  <2>. QED BY <1>4, <2>1, StepWire DEF Kept
<1>5. CASE ~s.panicked /\ cmd.type = "Subscribe" /\ caller[cmd.request] = "gone"
  BY <1>5 DEF StepCommand, StepSubscribe, StepState, Kept
<1>6. CASE ~s.panicked /\ cmd.type = "Subscribe" /\ caller[cmd.request] # "gone"
  <2> DEFINE r == cmd.request
             u == Unsub(next, cmd.max_msgs)
             longer == Append(stream, Sub(r, next))
             larger == Extend(table, next, r)
             after  == next + 1
  <2>1. r \in Requests /\ cmd.max_msgs \in Limits \cup {None}
    BY <1>6 DEF ConnectionCommand
  <2>2. Sound(longer, larger, after)
    BY <1>1, <1>6, <2>1, PushSub DEF Kept
  <2>3. ASSUME cmd.max_msgs # None PROVE Sound(Append(longer, u), larger, after)
    <3>1. /\ u \in ClientCommand /\ u # Connect /\ u.type # "SUB"
          /\ u.type = "UNSUB" => u.sid \in 1..(after - 1) /\ u.max_msgs # None
      BY <1>1, <2>1, <2>3, WireTyped DEF Unsub, Connect
    <3>2. longer \in Seq(ClientCommand)
      BY <1>1, <2>1, WireTyped
    <3> HIDE DEF longer, u, larger, after
    <3>. QED BY <2>2, <3>1, <3>2, PushQuiet
  <2>4. AnswersBelow(t.answer, after)
    <3>1. t.answer = [s.answer EXCEPT ![r] = next]
      BY <1>6, StepWire
    <3>. QED BY <1>1, <1>6, <2>1, <3>1 DEF Kept, AnswersBelow
  <2>. QED BY <1>6, <2>2, <2>3, <2>4, StepWire DEF Kept
<1>. QED BY <1>2, <1>3, <1>4, <1>5, <1>6 DEF ConnectionCommand, StepState

\* The value the replay starts from.
LEMMA ConnectedKeeps ==
    ASSUME answer \in [Requests -> Nat \cup {None}], \A r \in Requests : answer[r] = None
    PROVE  /\ Connected \in StepState /\ ~Connected.panicked
           /\ Connected.buffered_transmits = <<Connect>> /\ Connected.answer = answer
           /\ Kept(<<>>, Connected)
<1>1. NoSubscribers \in Table /\ DOMAIN NoSubscribers = {}
  BY NoSubscribersTyped DEF NoSubscribers
<1>2. /\ Connected.buffered_transmits = <<Connect>> /\ Connected.sid_generator = 1
      /\ Connected.sid2subscriber = NoSubscribers /\ Connected.answer = answer
      /\ Connected \in StepState /\ ~Connected.panicked
  BY <1>1, WireTyped DEF Connected, InfoReceived, StepState
<1>3. <<>> \o <<Connect>> = <<Connect>>
  OBVIOUS
<1>4. Connect.type \notin {"SUB", "UNSUB"}
  BY DEF Connect
<1>5. Sound(<<Connect>>, NoSubscribers, 1)
  BY <1>1, <1>4 DEF Sound, FirstOnly, Numbered, Routed, OpenIn
<1>. QED BY <1>2, <1>3, <1>5 DEF Kept, AnswersBelow

\* The replay gives sound values, and answers only those who asked.
LEMMA ReplayKeeps ==
    ASSUME NEW backlog \in Seq(ConnectionCommand), answer \in [Requests -> Nat \cup {None}],
           \A r \in Requests : answer[r] = None,
           \A i \in DOMAIN backlog :
               /\ backlog[i].type # "Unsubscribe"
               /\ backlog[i].type = "Subscribe" => caller[backlog[i].request] # "idle"
    PROVE  /\ Kept(<<>>, Replay(backlog))
           /\ \A r \in Requests : caller[r] = "idle" => Replay(backlog).answer[r] = None
<1> DEFINE Silent(s) == \A r \in Requests : caller[r] = "idle" => s.answer[r] = None
           S    == {s \in StepState : Kept(<<>>, s) /\ Silent(s)}
           Cmds == {cmd \in ConnectionCommand :
                        /\ cmd.type # "Unsubscribe"
                        /\ cmd.type = "Subscribe" => caller[cmd.request] # "idle"}
<1>1. Connected \in S
  BY ConnectedKeeps DEF Connected, InfoReceived
<1>2. ASSUME NEW s \in S, NEW cmd \in Cmds PROVE StepCommand(s, cmd) \in S
  <2>1. s \in StepState /\ cmd \in ConnectionCommand
    OBVIOUS
  <2>2. StepCommand(s, cmd) \in StepState
    BY <2>1, StepTyped
  <2>3. Kept(<<>>, StepCommand(s, cmd))
    <3>1. <<>> \in Seq(ClientCommand)
      OBVIOUS
    <3>. QED BY <2>1, <3>1, StepKeeps
  <2>4. Silent(StepCommand(s, cmd))
    BY <2>1, StepAnswers
  <2>. QED BY <2>2, <2>3, <2>4
<1>3. backlog \in Seq(Cmds)
  <2>1. \A i \in 1..Len(backlog) : backlog[i] \in Cmds
    BY ElementOfSeq
  <2>. QED BY <2>1
<1>4. Replay(backlog) \in S
  <2> HIDE DEF S, Cmds
  <2>. QED BY <1>1, <1>2, <1>3, ReplayStays DEF Replay
<1>. QED BY <1>4

-----------------------------------------------------------------------------
(* The invariant is inductive.                                             *)

Handshake == Greeting /\ Talking /\ Ended

\* Sids in the table are below the generator.
LEMMA SoundSids ==
    ASSUME NEW stream, NEW table, NEW next, Sound(stream, table, next)
    PROVE  \A sid \in DOMAIN table : sid \in 1..(next - 1)
BY DEF Sound, Numbered, Routed, OpenIn

\* What was sent before begins with CONNECT, and has it nowhere else.
LEMMA SentFirst ==
    ASSUME TypeOK, Handshake
    PROVE  FirstOnly(outgoing)
<1>1. outgoing \in Seq(ClientCommand) /\ buffered_transmits \in Seq(ClientCommand)
  BY DEF TypeOK, BindingTypeOK
<1>2. /\ DOMAIN outgoing \subseteq DOMAIN Stream
      /\ \A i \in DOMAIN outgoing : Stream[i] = outgoing[i]
  BY <1>1 DEF Stream
<1>3. FirstOnly(Stream)
  BY DEF Handshake, Greeting, Talking, Ended, Sound, FirstOnly, TypeOK, BindingTypeOK
<1>. QED BY <1>2, <1>3 DEF FirstOnly

\* A connection that ends.
LEMMA LeaveKeeps ==
    ASSUME TypeOK, FirstOnly(outgoing), NEW state \in Terminal, Leave(state),
           UNCHANGED outgoing
    PROVE  Handshake'
<1>1. Stream' = outgoing
  BY DEF Stream, Leave, TypeOK
<1>2. conn_state' \in Terminal /\ conn_state' \notin {"AwaitingInfo", "InfoReceived"}
  BY DEF Leave, Terminal
<1>3. FirstOnly(Stream')
  BY <1>1
<1>. QED BY <1>2, <1>3 DEF Handshake, Greeting, Talking, Ended, FirstOnly

\* A step of the binding that ends in sound values, or in a panic.
LEMMA BecomeKeeps ==
    ASSUME TypeOK, FirstOnly(outgoing), NEW s \in StepState, Become(s), Kept(outgoing, s),
           UNCHANGED outgoing
    PROVE  Handshake'
<1>1. CASE Leave("Panicked")
  BY <1>1, LeaveKeeps DEF Terminal
<1>2. CASE ~s.panicked
  <2>1. /\ conn_state' = "InfoReceived" /\ Stream' = outgoing \o s.buffered_transmits
        /\ sid2subscriber' = s.sid2subscriber /\ sid_generator' = s.sid_generator
        /\ answer' = s.answer
    BY <1>2 DEF Become, Stream
  <2>2. /\ Sound(Stream', sid2subscriber', sid_generator')
        /\ AnswersBelow(answer', sid_generator')
    BY <1>2, <2>1 DEF Kept
  <2>. QED BY <2>1, <2>2 DEF Handshake, Greeting, Talking, Ended, Terminal,
                             Sound, FirstOnly, Numbered, Routed, OpenIn, AnswersBelow
<1>. QED BY <1>1, <1>2 DEF Become

\* A step that only moves commands from the queue to the wire, or none.
LEMMA StillKeeps ==
    ASSUME Handshake, Stream' = Stream,
           UNCHANGED <<conn_state, preliminary, sid_generator, sid2subscriber, answer>>
    PROVE  Handshake'
BY DEF Handshake, Greeting, Talking, Ended, Sound, FirstOnly, Numbered, Routed, OpenIn,
       AnswersBelow

\* The value a command's step starts from.
Before == InfoReceived(buffered_transmits, sid_generator, sid2subscriber)

\* The fields of InfoReceived are a state the steps of the binding start from.
LEMMA BeforeIs ==
    ASSUME TypeOK
    PROVE  /\ Before \in StepState /\ ~Before.panicked
           /\ Before.buffered_transmits = buffered_transmits
           /\ Before.sid_generator = sid_generator
           /\ Before.sid2subscriber = sid2subscriber
           /\ Before.answer = answer
<1>1. FieldsTyped
  BY TypeParts DEF TypeOK
<1>. QED BY <1>1 DEF FieldsTyped, Before, InfoReceived, StepState

\* The commands callers may hand in, as far as the invariant cares.
Admissible(cmd) ==
    /\ cmd \in ConnectionCommand
    /\ cmd.type = "Unsubscribe" => \E r \in Requests : answer[r] # None /\ cmd.sid = answer[r]
    /\ cmd.type = "Subscribe" => answer[cmd.request] = None

\* A command of a caller, before INFO and after.
LEMMA ClientInputKeeps ==
    ASSUME IInv, NEW cmd, Admissible(cmd), ClientInput(cmd)
    PROVE  /\ Handshake'
           /\ \A r \in Requests :
                  answer'[r] = answer[r] \/ (cmd.type = "Subscribe" /\ r = cmd.request)
           /\ \A r \in Requests : answer[r] # None => answer'[r] = answer[r]
           /\ \A sid \in DOMAIN sid2subscriber' :
                  \/ sid \in DOMAIN sid2subscriber /\ sid2subscriber'[sid] = sid2subscriber[sid]
                  \/ sid >= sid_generator
           /\ preliminary' \in {<<>>, preliminary, Append(preliminary, cmd)}
<1> USE DEF IInv
<1>1. HandleClientInput(cmd) /\ UNCHANGED outgoing /\ cmd \in ConnectionCommand
  BY DEF ClientInput, Admissible
<1>2. Handshake
  BY DEF Handshake
<1>3. sid_generator \in Nat \ {0} /\ preliminary \in Seq(ConnectionCommand)
      /\ answer \in [Requests -> Nat \cup {None}]
  BY DEF TypeOK, BindingTypeOK
<1>4. CASE conn_state = "InfoReceived"
  <2> DEFINE t == StepCommand(Before, cmd)
  <2>1. Become(t)
    BY <1>1, <1>4 DEF HandleClientInput, Terminal, Before
  <2>2. cmd.type = "Unsubscribe" => cmd.sid \in 1..(sid_generator - 1)
    BY <1>4 DEF Admissible, Talking, AnswersBelow
  <2>3. Kept(outgoing, Before)
    BY <1>4, BeforeIs DEF Talking, Kept, Stream
  <2>4. t \in StepState /\ outgoing \in Seq(ClientCommand)
    BY <1>1, BeforeIs, StepTyped DEF TypeOK
  <2>5. Kept(outgoing, t)
    BY <1>1, <2>2, <2>3, <2>4, BeforeIs, StepKeeps
  <2> HIDE DEF t
  <2>6. Handshake'
    BY <1>1, <1>2, <2>1, <2>4, <2>5, SentFirst, BecomeKeeps
  <2>7. /\ answer' = t.answer /\ preliminary' = <<>>
        /\ sid2subscriber' = t.sid2subscriber \/ sid2subscriber' = NoSubscribers
    BY <2>1 DEF Become, Leave
  <2>8. /\ \A r \in Requests :
               t.answer[r] = answer[r] \/ (cmd.type = "Subscribe" /\ r = cmd.request)
        /\ \A sid \in DOMAIN t.sid2subscriber :
               \/ sid \in DOMAIN sid2subscriber /\ t.sid2subscriber[sid] = sid2subscriber[sid]
               \/ sid = sid_generator
    BY <1>1, BeforeIs, StepAnswers DEF t
  <2>9. DOMAIN NoSubscribers = {}
    BY DEF NoSubscribers
  <2>. QED BY <1>3, <2>6, <2>7, <2>8, <2>9 DEF Admissible
<1>5. CASE conn_state = "AwaitingInfo"
  <2>1. preliminary' = Append(preliminary, cmd) /\ UNCHANGED <<conn_state, inner, answer>>
    BY <1>1, <1>5 DEF HandleClientInput, Terminal
  <2>2. cmd.type # "Unsubscribe"
    BY <1>5 DEF Admissible, Greeting
  <2>3. \A i \in DOMAIN preliminary' : preliminary'[i].type # "Unsubscribe"
    BY <1>1, <1>3, <1>5, <2>1, <2>2 DEF Greeting
  <2>4. Greeting'
    BY <1>1, <1>5, <2>1, <2>3 DEF Greeting, Stream, inner
  <2>5. Talking' /\ Ended'
    BY <1>5, <2>1 DEF Talking, Ended, Terminal
  <2>. QED BY <1>3, <2>1, <2>4, <2>5 DEF Handshake, inner
<1>6. CASE conn_state \in Terminal
  <2>1. UNCHANGED <<conn_state, preliminary, inner, answer>>
    BY <1>1, <1>6 DEF HandleClientInput, Terminal
  <2>2. Handshake'
    BY <1>1, <1>2, <2>1, StillKeeps DEF Stream, inner
  <2>. QED BY <2>1, <2>2 DEF inner
<1>. QED BY <1>1, <1>4, <1>5, <1>6 DEF HandleClientInput

\* Commands of callers keep Unasked, once caller and backlog agree.
LEMMA AskedKeeps ==
    ASSUME IInv, NEW cmd, Admissible(cmd), ClientInput(cmd), CallerTyped,
           \/ UNCHANGED caller /\ cmd.type # "Subscribe"
           \/ cmd.type = "Subscribe" /\ caller' = [caller EXCEPT ![cmd.request] = "live"]
    PROVE  Unasked'
<1> USE DEF IInv
<1>1. /\ \A r \in Requests :
             answer'[r] = answer[r] \/ (cmd.type = "Subscribe" /\ r = cmd.request)
      /\ preliminary' \in {<<>>, preliminary, Append(preliminary, cmd)}
  BY ClientInputKeeps
<1>2. preliminary \in Seq(ConnectionCommand) /\ cmd \in ConnectionCommand
  BY DEF TypeOK, BindingTypeOK, Admissible
<1>3. cmd.type = "Subscribe" => cmd.request \in Requests
  BY <1>2 DEF ConnectionCommand
<1>4. ASSUME NEW r \in Requests, caller'[r] = "idle" PROVE answer'[r] = None
  BY <1>1, <1>3, <1>4 DEF Unasked, CallerTyped
<1>5. ASSUME NEW i \in DOMAIN preliminary', preliminary'[i].type = "Subscribe"
      PROVE  caller'[preliminary'[i].request] # "idle"
  <2>1. \A j \in DOMAIN preliminary :
            preliminary[j].type = "Subscribe" =>
                /\ preliminary[j].request \in Requests
                /\ caller[preliminary[j].request] # "idle"
    BY <1>2 DEF Unasked, ConnectionCommand
  <2>2. \/ preliminary'[i] = cmd
        \/ i \in DOMAIN preliminary /\ preliminary'[i] = preliminary[i]
    BY <1>1, <1>2
  <2>. QED BY <1>3, <1>5, <2>1, <2>2 DEF CallerTyped
<1>. QED BY <1>4, <1>5 DEF Unasked

\* A caller's command: a new subscribe call, a cancellation, a publication.
LEMMA RequestKeeps ==
    ASSUME IInv, NEW r \in Requests, NEW max \in Limits \cup {None}, Request(r, max)
    PROVE  Handshake' /\ Unasked'
<1>1. /\ Admissible(Subscribe(r, max)) /\ ClientInput(Subscribe(r, max))
      /\ Subscribe(r, max).type = "Subscribe" /\ Subscribe(r, max).request = r
      /\ caller' = [caller EXCEPT ![r] = "live"]
  BY DEF Request, Admissible, Subscribe, ConnectionCommand, IInv, Unasked
<1>2. CallerTyped
  BY TypeParts DEF IInv, TypeOK
<1>. QED BY <1>1, <1>2, ClientInputKeeps, AskedKeeps

\* A caller that unsubscribes.
LEMMA CancelKeeps ==
    ASSUME IInv, NEW r \in Requests, Cancel(r)
    PROVE  Handshake' /\ Unasked'
<1>1. CallerTyped /\ answer[r] \in Nat \cup {None}
  BY TypeParts DEF IInv, TypeOK, FieldsTyped
<1>2. /\ Admissible(Unsubscribe(answer[r])) /\ ClientInput(Unsubscribe(answer[r]))
      /\ Unsubscribe(answer[r]).type # "Subscribe" /\ UNCHANGED caller
  BY <1>1 DEF Cancel, Admissible, Unsubscribe, ConnectionCommand
<1>. QED BY <1>1, <1>2, ClientInputKeeps, AskedKeeps

\* A caller that publishes.
LEMMA SendKeeps ==
    ASSUME IInv, NEW p \in Payloads, Send(p)
    PROVE  Handshake' /\ Unasked'
<1>1. CallerTyped
  BY TypeParts DEF IInv, TypeOK
<1>2. /\ Admissible(Publish(p)) /\ ClientInput(Publish(p))
      /\ Publish(p).type # "Subscribe" /\ UNCHANGED caller
  BY DEF Send, Admissible, Publish, ConnectionCommand
<1>. QED BY <1>1, <1>2, ClientInputKeeps, AskedKeeps

\* The server's INFO, at which the backlog is replayed.
LEMMA InfoKeeps ==
    ASSUME IInv, ReceiveInfo, UNCHANGED <<caller, outgoing>>
    PROVE  Handshake' /\ Unasked'
<1> USE DEF IInv
<1>1. /\ preliminary \in Seq(ConnectionCommand)
      /\ answer \in [Requests -> Nat \cup {None}]
      /\ outgoing \in Seq(ClientCommand) /\ buffered_transmits \in Seq(ClientCommand)
  BY DEF TypeOK, BindingTypeOK
<1>2. /\ conn_state = "AwaitingInfo" /\ Become(Replay(preliminary))
      /\ outgoing \o buffered_transmits = <<>>
  BY DEF ReceiveInfo, Greeting, Stream
<1>3. outgoing = <<>>
  BY <1>1, <1>2
<1>4. /\ Kept(<<>>, Replay(preliminary))
      /\ \A r \in Requests : caller[r] = "idle" => Replay(preliminary).answer[r] = None
  <2>1. /\ \A r \in Requests : answer[r] = None
        /\ \A i \in DOMAIN preliminary :
               /\ preliminary[i].type # "Unsubscribe"
               /\ preliminary[i].type = "Subscribe" => caller[preliminary[i].request] # "idle"
    BY <1>2 DEF Greeting, Unasked
  <2>. QED BY <1>1, <2>1, ReplayKeeps
<1>5. Replay(preliminary) \in StepState
  <2>1. FieldsTyped
    BY TypeParts DEF TypeOK
  <2>. QED BY <2>1, ReplayTyped DEF FieldsTyped
<1>6. Handshake'
  <2>1. FirstOnly(outgoing)
    BY <1>3 DEF FirstOnly
  <2>. QED BY <1>2, <1>3, <1>4, <1>5, <2>1, BecomeKeeps
<1>7. answer' = Replay(preliminary).answer /\ preliminary' = <<>>
  BY <1>2 DEF Become, Leave
<1>. QED BY <1>4, <1>6, <1>7 DEF Unasked

\* Any command of the server.
LEMMA ServerInputKeeps ==
    ASSUME IInv, ServerInput
    PROVE  Handshake' /\ Unasked'
<1> USE DEF IInv
<1>1. PICK cmd \in ServerCommand, now \in Instants : HandleServerInput(cmd, now)
  BY DEF ServerInput
<1>2. UNCHANGED <<caller, accepted, outgoing>>
  BY DEF ServerInput
<1>3. Handshake /\ FirstOnly(outgoing)
  BY SentFirst DEF Handshake
<1>4. ASSUME UNCHANGED <<conn_state, preliminary, buffered_transmits, sid_generator,
                         sid2subscriber, answer>>
      PROVE  Handshake' /\ Unasked'
  BY <1>2, <1>3, <1>4, StillKeeps DEF Stream, Unasked
<1>5. ASSUME NEW state \in Terminal, Leave(state), UNCHANGED answer
      PROVE  Handshake' /\ Unasked'
  <2>1. Handshake'
    BY <1>2, <1>3, <1>5, LeaveKeeps
  <2>2. preliminary' = <<>>
    BY <1>5 DEF Leave
  <2>. QED BY <1>2, <1>5, <2>1, <2>2 DEF Unasked
<1>6. "NotInfoReceived" \in Terminal /\ "Panicked" \in Terminal
  BY DEF Terminal
<1>7. CASE ReceiveInfo
  BY <1>2, <1>7, InfoKeeps
<1>8. CASE ReceiveNotInfo
  BY <1>5, <1>6, <1>8 DEF ReceiveNotInfo
<1>9. CASE ReceiveMsg(cmd)
  BY <1>4, <1>5, <1>6, <1>9 DEF ReceiveMsg, DeliverWithin, inner
<1>10. CASE ReceiveHMsg(cmd)
  BY <1>5, <1>6, <1>10 DEF ReceiveHMsg
<1>11. ASSUME NEW field, ReceiveKeepAlive(field, now) PROVE Handshake' /\ Unasked'
  BY <1>4, <1>11 DEF ReceiveKeepAlive
<1>12. CASE Disregard(cmd)
  BY <1>4, <1>12 DEF Disregard, binding, inner
<1>. QED BY <1>1, <1>7, <1>8, <1>9, <1>10, <1>11, <1>12 DEF HandleServerInput

\* PING, PONG and the loss of the connection.
LEMMA TimeoutKeeps ==
    ASSUME IInv, Timeout
    PROVE  Handshake' /\ Unasked'
<1> USE DEF IInv
<1>1. Handshake /\ FirstOnly(outgoing) /\ UNCHANGED <<caller, outgoing>>
  BY SentFirst DEF Handshake, Timeout
<1>2. ASSUME NEW c \in {Ping, Pong}, NEW field, NEW value,
             conn_state = "InfoReceived", Enqueue(c, field, value)
      PROVE  Handshake' /\ Unasked'
  <2>1. /\ Stream \in Seq(ClientCommand) /\ c \in ClientCommand
        /\ outgoing \in Seq(ClientCommand) /\ buffered_transmits \in Seq(ClientCommand)
    BY WireTyped DEF TypeOK, BindingTypeOK, Stream
  <2>2. Stream' = Append(Stream, c)
    BY <1>1, <1>2, <2>1 DEF Stream, Enqueue
  <2>3. c # Connect /\ c.type \notin {"SUB", "UNSUB"}
    BY DEF Ping, Pong, Connect
  <2>4. Sound(Stream, sid2subscriber, sid_generator) /\ AnswersBelow(answer, sid_generator)
    BY <1>2 DEF Talking
  <2>5. Sound(Append(Stream, c), sid2subscriber, sid_generator)
    BY <2>1, <2>3, <2>4, PushQuiet
  <2>6. UNCHANGED <<conn_state, preliminary, sid_generator, sid2subscriber, answer>>
    BY <1>2 DEF Enqueue
  <2>7. Talking'
    BY <2>2, <2>4, <2>5, <2>6
       DEF Talking, Sound, FirstOnly, Numbered, Routed, OpenIn, AnswersBelow
  <2>8. Greeting' /\ Ended'
    BY <1>2, <2>6 DEF Greeting, Ended, Terminal
  <2>. QED BY <1>1, <2>6, <2>7, <2>8 DEF Handshake, Unasked
<1>3. CASE UNCHANGED binding
  BY <1>1, <1>3, StillKeeps DEF Stream, Unasked, binding, inner
<1>4. CASE Leave("ConnectionLost") /\ UNCHANGED <<answer, msg_chan>>
  <2>1. Handshake'
    BY <1>1, <1>4, LeaveKeeps DEF Terminal
  <2>2. preliminary' = <<>>
    BY <1>4 DEF Leave
  <2>. QED BY <1>1, <1>4, <2>1, <2>2 DEF Unasked
<1>. QED BY <1>2, <1>3, <1>4
            DEF Timeout, HandleSendPingTimeout, HandleSendPongTimeout, HandleKeepAliveTimeout

\* Handing out the head of the queue leaves the stream as it was.
LEMMA TransmitKeeps ==
    ASSUME IInv, Transmit
    PROVE  Handshake' /\ Unasked'
<1> USE DEF IInv
<1>1. outgoing \in Seq(ClientCommand) /\ buffered_transmits \in Seq(ClientCommand)
  BY DEF TypeOK, BindingTypeOK
<1>2. /\ buffered_transmits # <<>> /\ buffered_transmits' = Tail(buffered_transmits)
      /\ outgoing' = Append(outgoing, Head(buffered_transmits))
      /\ UNCHANGED <<conn_state, preliminary, sid_generator, sid2subscriber, answer, caller>>
  BY DEF Transmit, PollTransmit
<1>3. Stream' = Stream
  BY <1>1, <1>2 DEF Stream
<1>. QED BY <1>2, <1>3, StillKeeps DEF Handshake, Unasked

\* Callers that read or drop their receivers.
LEMMA CallersKeep ==
    ASSUME IInv, NEW r \in Requests, Leaving(r) \/ Taking(r)
    PROVE  Handshake' /\ Unasked'
<1> USE DEF IInv
<1>1. UNCHANGED <<conn_state, preliminary, inner, answer, outgoing>>
  BY DEF Leaving, DropReceiver, Taking, TakeMsg
<1>2. Handshake'
  BY <1>1, StillKeeps DEF Handshake, Stream, inner
<1>3. \A q \in Requests : caller[q] = "idle" <=> caller'[q] = "idle"
  <2>1. CallerTyped
    BY TypeParts DEF TypeOK
  <2>. QED BY <2>1 DEF Leaving, DropReceiver, Taking, TakeMsg, CallerTyped
<1>4. \A i \in DOMAIN preliminary :
          preliminary[i].type = "Subscribe" => preliminary[i].request \in Requests
  BY DEF TypeOK, BindingTypeOK, ConnectionCommand
<1>. QED BY <1>1, <1>2, <1>3, <1>4 DEF Unasked

\* Nothing was sent, asked or answered yet.
LEMMA InvariantInit == Init => IInv
BY TypeInit DEF Init, BindingInit, IInv, Greeting, Talking, Ended, Unasked, Stream, Terminal

\* The invariant is inductive.
LEMMA InvariantStep == IInv /\ [Next]_vars => IInv'
<1> SUFFICES ASSUME IInv, [Next]_vars PROVE IInv'
  OBVIOUS
<1>1. TypeOK'
  BY TypeStep DEF IInv
<1>2. CASE UNCHANGED vars
  <2>1. Handshake'
    BY <1>2, StillKeeps DEF IInv, Handshake, Stream, vars, binding, inner
  <2>. QED BY <1>1, <1>2, <2>1 DEF IInv, Handshake, Unasked, vars, binding
<1>3. CASE Next
  <2>1. Handshake' /\ Unasked'
    BY <1>3, RequestKeeps, CancelKeeps, SendKeeps, ServerInputKeeps, TimeoutKeeps,
       TransmitKeeps, CallersKeep, EnvironmentAssumption DEF Next
  <2>. QED BY <1>1, <2>1 DEF IInv, Handshake
<1>. QED BY <1>2, <1>3

\* Every reachable state satisfies the inductive invariant.
THEOREM Invariance == Spec => []IInv
BY InvariantInit, InvariantStep, PTL DEF Spec

-----------------------------------------------------------------------------
(* What the invariant is for.                                              *)

\* For every set of callers and every order of calls: nothing precedes the INFO
\* of the server, and the first command after it is CONNECT, sent once.
THEOREM HandshakeCorrect == Spec => []ConnectFirst
<1>1. IInv => ConnectFirst
  BY DEF IInv, Greeting, Talking, Ended, Sound, FirstOnly, ConnectFirst, TypeOK, BindingTypeOK
<1>. QED BY <1>1, Invariance, PTL

\* The table that routes messages is always the one the server will hold.
THEOREM RoutingCorrect == Spec => []RoutingAgreement
<1>1. IInv => RoutingAgreement
  <2> SUFFICES ASSUME IInv, conn_state = "InfoReceived"
               PROVE  {<<sid, sid2subscriber[sid]>> : sid \in DOMAIN sid2subscriber}
                          = {<<Stream[i].sid, Stream[i].request>> :
                                 i \in {j \in DOMAIN Stream : Open(j)}}
    BY DEF RoutingAgreement
  <2>1. Routed(Stream, sid2subscriber)
    BY DEF IInv, Talking, Sound
  <2>2. \A i : Open(i) <=> OpenIn(Stream, i)
    BY DEF Open, OpenIn
  <2>3. ASSUME NEW sid \in DOMAIN sid2subscriber
        PROVE  \E i \in {j \in DOMAIN Stream : Open(j)} :
                   <<sid, sid2subscriber[sid]>> = <<Stream[i].sid, Stream[i].request>>
    BY <2>1, <2>2 DEF Routed
  <2>4. ASSUME NEW i \in DOMAIN Stream, Open(i)
        PROVE  \E sid \in DOMAIN sid2subscriber :
                   <<Stream[i].sid, Stream[i].request>> = <<sid, sid2subscriber[sid]>>
    BY <2>1, <2>2, <2>4 DEF Routed
  <2>. QED BY <2>3, <2>4
<1>. QED BY <1>1, Invariance, PTL

\* No step binds a sid anew, or changes an answer.
THEOREM SidsFresh == Spec => SidsNeverReused
<1> DEFINE Bound == \A sid \in DOMAIN sid2subscriber' :
                        \/ sid \in DOMAIN sid2subscriber
                           /\ sid2subscriber'[sid] = sid2subscriber[sid]
                        \/ sid >= sid_generator
           Told  == \A r \in Requests : answer[r] # None => answer'[r] = answer[r]
<1>1. IInv /\ IInv' /\ [Next]_vars => [Bound /\ Told]_vars
  <2> SUFFICES ASSUME IInv, IInv', Next PROVE Bound /\ Told
    OBVIOUS
  <2>1. CASE UNCHANGED <<sid2subscriber, answer>>
    BY <2>1
  <2>2. ASSUME NEW state, Leave(state), UNCHANGED answer PROVE Bound /\ Told
    BY <2>2 DEF Leave, NoSubscribers
  <2>3. ASSUME NEW r \in Requests, NEW max \in Limits \cup {None}, Request(r, max)
        PROVE  Bound /\ Told
    <3>1. Admissible(Subscribe(r, max)) /\ ClientInput(Subscribe(r, max))
      BY <2>3 DEF Request, Admissible, Subscribe, ConnectionCommand, IInv, Unasked
    <3>. QED BY <3>1, ClientInputKeeps
  <2>4. ASSUME NEW r \in Requests, Cancel(r) PROVE Bound /\ Told
    <3>1. answer[r] \in Nat \cup {None}
      BY TypeParts DEF IInv, TypeOK, FieldsTyped
    <3>2. Admissible(Unsubscribe(answer[r])) /\ ClientInput(Unsubscribe(answer[r]))
      BY <2>4, <3>1 DEF Cancel, Admissible, Unsubscribe, ConnectionCommand
    <3>. QED BY <3>2, ClientInputKeeps
  <2>5. ASSUME NEW p \in Payloads, Send(p) PROVE Bound /\ Told
    <3>1. Admissible(Publish(p)) /\ ClientInput(Publish(p))
      BY <2>5 DEF Send, Admissible, Publish, ConnectionCommand
    <3>. QED BY <3>1, ClientInputKeeps
  <2>6. CASE ReceiveInfo
    <3>1. sid_generator = 1 /\ \A r \in Requests : answer[r] = None
      BY <2>6 DEF ReceiveInfo, IInv, Greeting
    <3>2. \A sid \in DOMAIN sid2subscriber' : sid \in Nat /\ sid >= 1
      <4>1. CASE Leave("Panicked")
        BY <4>1 DEF Leave, NoSubscribers
      <4>2. CASE conn_state' = "InfoReceived"
        <5>1. Sound(Stream', sid2subscriber', sid_generator') /\ sid_generator' \in Nat
          BY <4>2 DEF IInv, Talking, TypeOK, BindingTypeOK
        <5>. QED BY <5>1, SoundSids
      <4>. QED BY <2>6, <4>1, <4>2 DEF ReceiveInfo, Become
    <3>. QED BY <3>1, <3>2
  <2>7. CASE ServerInput
    BY <2>1, <2>2, <2>6, <2>7
       DEF ServerInput, HandleServerInput, ReceiveNotInfo, ReceiveMsg, DeliverWithin,
           ReceiveHMsg, ReceiveKeepAlive, Disregard, binding, inner
  <2>8. CASE Timeout
    BY <2>1, <2>2, <2>8
       DEF Timeout, HandleSendPingTimeout, HandleSendPongTimeout, HandleKeepAliveTimeout,
           Enqueue, binding, inner
  <2>9. CASE Transmit
    BY <2>1, <2>9 DEF Transmit, PollTransmit
  <2>10. ASSUME NEW r \in Requests, Leaving(r) \/ Taking(r) PROVE Bound /\ Told
    BY <2>1, <2>10 DEF Leaving, DropReceiver, Taking, TakeMsg, inner
  <2>. QED BY <2>3, <2>4, <2>5, <2>7, <2>8, <2>9, <2>10, EnvironmentAssumption DEF Next
<1>. QED BY <1>1, Invariance, PTL DEF Spec, SidsNeverReused

-----------------------------------------------------------------------------
(* What a stream of commands on the wire and the answers owe each other.   *)

Subscribed(stream, answers) ==
    /\ \A i \in DOMAIN stream :
           stream[i].type = "SUB" => answers[stream[i].request] = stream[i].sid
    /\ \A i, j \in DOMAIN stream :
           stream[i].type = "SUB" /\ stream[j].type = "SUB" /\ stream[i].sid = stream[j].sid
               => i = j
    /\ \A r \in Requests : answers[r] # None =>
           \E i \in DOMAIN stream : stream[i] = Sub(r, answers[r])

\* Commands other than SUB do not matter.
LEMMA PushOther ==
    ASSUME NEW stream \in Seq(ClientCommand), NEW c \in ClientCommand, NEW answers,
           c.type # "SUB", Subscribed(stream, answers)
    PROVE  Subscribed(Append(stream, c), answers)
<1> DEFINE longer == Append(stream, c)
           N == Len(stream)
<1>1. /\ N \in Nat /\ DOMAIN stream = 1..N /\ DOMAIN longer = 1..(N + 1)
      /\ \A i \in 1..N : longer[i] = stream[i]
      /\ longer[N + 1] = c
  BY Pushed
<1> HIDE DEF longer, N
<1>2. ASSUME NEW i \in DOMAIN longer, longer[i].type = "SUB"
      PROVE  i \in DOMAIN stream /\ longer[i] = stream[i]
  BY <1>1, <1>2
<1>3. DOMAIN stream \subseteq DOMAIN longer
  BY <1>1
<1>4. Subscribed(longer, answers)
  BY <1>1, <1>2, <1>3 DEF Subscribed
<1>. QED BY <1>4 DEF longer

\* A SUB with the next sid goes with the answer to its caller.
LEMMA PushAnswered ==
    ASSUME NEW stream \in Seq(ClientCommand), NEW next \in Nat \ {0}, NEW r \in Requests,
           NEW answers \in [Requests -> Nat \cup {None}], answers[r] = None,
           Numbered(stream, next), Subscribed(stream, answers)
    PROVE  Subscribed(Append(stream, Sub(r, next)), [answers EXCEPT ![r] = next])
<1> DEFINE longer == Append(stream, Sub(r, next))
           told   == [answers EXCEPT ![r] = next]
           N == Len(stream)
<1>1. /\ N \in Nat /\ DOMAIN stream = 1..N /\ DOMAIN longer = 1..(N + 1)
      /\ \A i \in 1..N : longer[i] = stream[i]
      /\ longer[N + 1] = Sub(r, next)
  BY Pushed, WireTyped
<1>2. told[r] = next /\ \A q \in Requests : q # r => told[q] = answers[q]
  OBVIOUS
<1>3. Sub(r, next).type = "SUB" /\ Sub(r, next).sid = next /\ Sub(r, next).request = r
  BY DEF Sub
<1>4. \A c \in ClientCommand : c.type = "SUB" => c.request \in Requests
  BY DEF ClientCommand, Connect, Ping, Pong
<1> HIDE DEF longer, told, N
<1>5. ASSUME NEW i \in 1..N, stream[i].type = "SUB"
      PROVE  /\ stream[i].sid \in 1..(next - 1)
             /\ stream[i].request \in Requests /\ stream[i].request # r
  <2>1. stream[i].sid \in 1..(next - 1)
    BY <1>1, <1>5 DEF Numbered
  <2>2. stream[i] \in ClientCommand
    BY <1>1
  <2>3. answers[stream[i].request] = stream[i].sid
    BY <1>1, <1>5 DEF Subscribed
  <2>. QED BY <1>4, <1>5, <2>1, <2>2, <2>3, NoneAssumption
<1>6. ASSUME NEW i \in DOMAIN longer, longer[i].type = "SUB"
      PROVE  told[longer[i].request] = longer[i].sid
  <2>1. CASE i = N + 1
    BY <1>1, <1>2, <1>3, <2>1
  <2>2. CASE i \in 1..N
    BY <1>1, <1>2, <1>5, <1>6, <2>2 DEF Subscribed
  <2>. QED BY <1>1, <2>1, <2>2
<1>7. ASSUME NEW i \in DOMAIN longer, NEW j \in DOMAIN longer,
             longer[i].type = "SUB", longer[j].type = "SUB", longer[i].sid = longer[j].sid
      PROVE  i = j
  <2>1. CASE i \in 1..N /\ j \in 1..N
    BY <1>1, <1>7, <2>1 DEF Subscribed
  <2>2. \A k \in 1..N : longer[k].type = "SUB" => longer[k].sid # longer[N + 1].sid
    BY <1>1, <1>3, <1>5
  <2>. QED BY <1>1, <1>7, <2>1, <2>2
<1>8. ASSUME NEW q \in Requests, told[q] # None
      PROVE  \E i \in DOMAIN longer : longer[i] = Sub(q, told[q])
  <2>1. CASE q = r
    <3>1. longer[N + 1] = Sub(q, told[q]) /\ N + 1 \in DOMAIN longer
      BY <1>1, <1>2, <2>1
    <3>. QED BY <3>1
  <2>2. CASE q # r
    <3>1. PICK i \in 1..N : stream[i] = Sub(q, answers[q])
      BY <1>1, <1>2, <1>8, <2>2 DEF Subscribed
    <3>2. i \in DOMAIN longer /\ longer[i] = Sub(q, told[q])
      BY <1>1, <1>2, <2>2, <3>1
    <3>. QED BY <3>2
  <2>. QED BY <2>1, <2>2
<1>9. Subscribed(longer, told)
  BY <1>6, <1>7, <1>8 DEF Subscribed
<1>. QED BY <1>9 DEF longer, told

\* As Kept, of the answers.
Served(out, s) == ~s.panicked => Subscribed(out \o s.buffered_transmits, s.answer)

\* A step serves a caller that has no answer yet.
LEMMA StepServes ==
    ASSUME NEW out \in Seq(ClientCommand), NEW s \in StepState, NEW cmd \in ConnectionCommand,
           cmd.type = "Subscribe" => s.answer[cmd.request] = None,
           Kept(out, s), Served(out, s)
    PROVE  Served(out, StepCommand(s, cmd))
<1> DEFINE stream == out \o s.buffered_transmits
           next   == s.sid_generator
           t      == StepCommand(s, cmd)
<1>1. /\ stream \in Seq(ClientCommand) /\ next \in Nat \ {0}
      /\ s.answer \in [Requests -> Nat \cup {None}]
  BY DEF StepState
<1>2. CASE s.panicked
  BY <1>2 DEF Served, StepCommand
<1>3. CASE ~s.panicked /\ cmd.type = "Publish"
  <2>1. Pub(cmd.payload) \in ClientCommand /\ Pub(cmd.payload).type # "SUB"
    BY <1>3, WireTyped DEF ConnectionCommand, Pub
  <2>2. Subscribed(Append(stream, Pub(cmd.payload)), s.answer)
    BY <1>1, <1>3, <2>1, PushOther DEF Served
  <2>. QED BY <1>3, <2>2, StepWire DEF Served
<1>4. CASE ~s.panicked /\ cmd.type = "Unsubscribe"
  <2>1. Unsub(cmd.sid, None) \in ClientCommand /\ Unsub(cmd.sid, None).type # "SUB"
    BY <1>4, WireTyped DEF ConnectionCommand, Unsub
  <2>2. Subscribed(Append(stream, Unsub(cmd.sid, None)), s.answer)
    BY <1>1, <1>4, <2>1, PushOther DEF Served
  <2>. QED BY <1>4, <2>2, StepWire DEF Served
<1>5. CASE ~s.panicked /\ cmd.type = "Subscribe" /\ caller[cmd.request] = "gone"
  <2>1. t.panicked
    BY <1>5 DEF StepCommand, StepSubscribe, StepState
  <2>. QED BY <2>1 DEF Served
<1>6. CASE ~s.panicked /\ cmd.type = "Subscribe" /\ caller[cmd.request] # "gone"
  <2> DEFINE r == cmd.request
             u == Unsub(next, cmd.max_msgs)
             longer == Append(stream, Sub(r, next))
             told   == [s.answer EXCEPT ![r] = next]
  <2>1. r \in Requests /\ cmd.max_msgs \in Limits \cup {None}
    BY <1>6 DEF ConnectionCommand
  <2>2. Subscribed(longer, told)
    BY <1>1, <1>6, <2>1, PushAnswered DEF Served, Kept, Sound
  <2>3. ASSUME cmd.max_msgs # None PROVE Subscribed(Append(longer, u), told)
    <3>1. u \in ClientCommand /\ u.type # "SUB"
      BY <1>1, <2>1, <2>3, WireTyped DEF Unsub
    <3>2. longer \in Seq(ClientCommand)
      BY <1>1, <2>1, WireTyped
    <3> HIDE DEF longer, u, told
    <3>. QED BY <2>2, <3>1, <3>2, PushOther
  <2>4. t.answer = told /\ told[r] = next /\ next # None
    BY <1>1, <1>6, <2>1, StepWire, NoneAssumption
  <2>. QED BY <1>6, <2>2, <2>3, <2>4, StepWire DEF Served
<1>. QED BY <1>2, <1>3, <1>4, <1>5, <1>6 DEF ConnectionCommand, StepState

\* The replay serves the callers in the backlog, if each is there once.
LEMMA ReplayServes ==
    ASSUME NEW backlog \in Seq(ConnectionCommand), answer \in [Requests -> Nat \cup {None}],
           \A r \in Requests : answer[r] = None,
           \A i \in DOMAIN backlog : backlog[i].type # "Unsubscribe",
           \A i, j \in DOMAIN backlog :
               /\ backlog[i].type = "Subscribe" /\ backlog[j].type = "Subscribe"
               /\ backlog[i].request = backlog[j].request
               => i = j
    PROVE  Served(<<>>, Replay(backlog))
<1> DEFINE N == Len(backlog)
           Unmet(n, s) == \A i \in (n + 1)..N : backlog[i].type = "Subscribe" =>
                              s.answer[backlog[i].request] = None
           Good(n, s)  == s \in StepState /\ Kept(<<>>, s) /\ Served(<<>>, s) /\ Unmet(n, s)
<1>1. /\ N \in Nat /\ DOMAIN backlog = 1..N
      /\ \A i \in 1..N : /\ backlog[i] \in ConnectionCommand
                         /\ backlog[i].type = "Subscribe" => backlog[i].request \in Requests
  BY DEF ConnectionCommand
<1>2. PICK f : IsFold(f, N, Connected, backlog) /\ ReplayOnto(Connected, backlog) = f[N]
  BY ReplayIs
<1> DEFINE T == {n \in Nat : n <= N => Good(n, f[n])}
<1>3. 0 \in T
  <2>1. f[0] = Connected
    BY <1>1, <1>2 DEF IsFold
  <2>2. /\ Connected \in StepState /\ Kept(<<>>, Connected) /\ Connected.answer = answer
        /\ <<>> \o Connected.buffered_transmits = <<Connect>>
    BY ConnectedKeeps
  <2>3. Subscribed(<<Connect>>, answer)
    BY DEF Subscribed, Connect
  <2>. QED BY <1>1, <2>1, <2>2, <2>3 DEF Served
<1>4. ASSUME NEW n \in Nat, n \in T PROVE n + 1 \in T
  <2> HIDE DEF N
  <2>1. SUFFICES ASSUME n + 1 <= N PROVE Good(n + 1, f[n + 1])
    OBVIOUS
  <2> DEFINE s   == f[n]
             cmd == backlog[n + 1]
             t   == StepCommand(s, cmd)
  <2>2. n + 1 \in 0..N /\ n + 1 # 0 /\ (n + 1) - 1 = n /\ n + 1 \in 1..N
    BY <1>1, <2>1
  <2>3. f[n + 1] = t
    <3>1. f[n + 1] = StepCommand(f[(n + 1) - 1], backlog[n + 1])
      BY <1>2, <2>2 DEF IsFold
    <3>. QED BY <2>2, <3>1
  <2>4. Good(n, s)
    BY <1>1, <1>4, <2>1
  <2>5. /\ cmd \in ConnectionCommand /\ cmd.type # "Unsubscribe"
        /\ cmd.type = "Subscribe" => cmd.request \in Requests
        /\ cmd.type = "Subscribe" => s.answer[cmd.request] = None
    BY <1>1, <2>2, <2>4
  <2>6. \A i \in 1..N : i # n + 1 /\ backlog[i].type = "Subscribe" /\ cmd.type = "Subscribe"
                          => backlog[i].request # cmd.request
    BY <1>1, <2>2
  <2>7. t \in StepState
    BY <2>4, <2>5, StepTyped
  <2>8. Kept(<<>>, t)
    <3>1. <<>> \in Seq(ClientCommand)
      OBVIOUS
    <3>. QED BY <2>4, <2>5, <3>1, StepKeeps
  <2>9. Served(<<>>, t)
    <3>1. <<>> \in Seq(ClientCommand)
      OBVIOUS
    <3>. QED BY <2>4, <2>5, <3>1, StepServes
  <2>10. \A r \in Requests :
             t.answer[r] = s.answer[r] \/ (cmd.type = "Subscribe" /\ r = cmd.request)
    BY <2>4, <2>5, StepAnswers
  <2> HIDE DEF t, cmd, s
  <2>11. Unmet(n + 1, t)
    <3>1. \A i \in ((n + 1) + 1)..N : i \in (n + 1)..N /\ i \in 1..N /\ i # n + 1
      BY <1>1
    <3>. QED BY <1>1, <2>4, <2>6, <2>10, <3>1
  <2>. QED BY <2>3, <2>7, <2>8, <2>9, <2>11
<1>5. N \in T
  <2> HIDE DEF T, N
  <2>. QED BY <1>1, <1>3, <1>4, NatSetInduction
<1>6. Good(N, f[N])
  BY <1>1, <1>5
<1>. QED BY <1>1, <1>2, <1>6 DEF Replay

-----------------------------------------------------------------------------
(* The inductive invariant.                                                *)

\* The answers belong to the stream.
Answered == conn_state = "InfoReceived" => Subscribed(Stream, answer)

AInv == IInv /\ Answered /\ NoRequestForgotten /\ Delivered

\* Request r is in the backlog once.
Asks(cmd, r) == cmd.type = "Subscribe" /\ cmd.request = r
Once(backlog, r) ==
    \E i \in DOMAIN backlog : \A j \in DOMAIN backlog : Asks(backlog[j], r) <=> i = j

\* A command of someone else leaves the request once in the backlog.
LEMMA OnceOther ==
    ASSUME NEW backlog \in Seq(ConnectionCommand), NEW cmd \in ConnectionCommand, NEW r,
           Once(backlog, r), ~Asks(cmd, r)
    PROVE  Once(Append(backlog, cmd), r)
<1> DEFINE N == Len(backlog)
           longer == Append(backlog, cmd)
<1>1. /\ N \in Nat /\ DOMAIN backlog = 1..N /\ DOMAIN longer = 1..(N + 1)
      /\ \A i \in 1..N : longer[i] = backlog[i]
      /\ longer[N + 1] = cmd
  OBVIOUS
<1> HIDE DEF longer, N
<1>2. PICK i \in DOMAIN backlog : \A j \in DOMAIN backlog : Asks(backlog[j], r) <=> i = j
  BY DEF Once
<1>3. i \in DOMAIN longer /\ \A j \in DOMAIN longer : Asks(longer[j], r) <=> i = j
  BY <1>1, <1>2
<1>. QED BY <1>3 DEF Once, longer

\* A first command puts it there once.
LEMMA OnceNew ==
    ASSUME NEW backlog \in Seq(ConnectionCommand), NEW cmd \in ConnectionCommand, NEW r,
           \A i \in DOMAIN backlog : ~Asks(backlog[i], r), Asks(cmd, r)
    PROVE  Once(Append(backlog, cmd), r)
<1> DEFINE N == Len(backlog)
           longer == Append(backlog, cmd)
<1>1. /\ N \in Nat /\ DOMAIN backlog = 1..N /\ DOMAIN longer = 1..(N + 1)
      /\ \A i \in 1..N : longer[i] = backlog[i]
      /\ longer[N + 1] = cmd
  OBVIOUS
<1> HIDE DEF longer, N
<1>2. N + 1 \in DOMAIN longer /\ \A j \in DOMAIN longer : Asks(longer[j], r) <=> N + 1 = j
  BY <1>1
<1>. QED BY <1>2 DEF Once, longer

\* NoRequestForgotten, in two parts.
Waiting == conn_state = "AwaitingInfo" =>
               \A r \in Requests : caller[r] # "idle" => Once(preliminary, r)
Present == conn_state = "InfoReceived" =>
               \A r \in Requests : caller[r] = "live" => answer[r] # None

\* NoRequestForgotten, before INFO and after.
LEMMA ForgottenParts == NoRequestForgotten <=> Waiting /\ Present
BY DEF NoRequestForgotten, Waiting, Present, Once, Asks

\* The same of the next state.
LEMMA ForgottenPartsNext == NoRequestForgotten' <=> Waiting' /\ Present'
BY DEF NoRequestForgotten, Waiting, Present, Once, Asks

\* A caller without an answer has no message.
LEMMA SilentEmpty ==
    ASSUME TypeOK, Delivered, NEW r \in Requests, answer[r] = None
    PROVE  msg_chan[r] = <<>>
<1> DEFINE q == msg_chan[r]
<1>1. q \in Seq(Message)
  BY DEF TypeOK, BindingTypeOK
<1>2. \A i \in DOMAIN q : q[i].sid = None
  BY DEF Delivered
<1> HIDE DEF q
<1>3. Len(q) = 0
  <2>1. SUFFICES ASSUME Len(q) # 0 PROVE FALSE
    OBVIOUS
  <2>2. 1 \in DOMAIN q /\ q[1] \in Message
    BY <1>1, <2>1
  <2>3. q[1].sid \in Nat
    BY <2>2 DEF Message
  <2>. QED BY <1>2, <2>2, <2>3, NoneAssumption
<1>4. q = <<>>
  BY <1>1, <1>3
<1>. QED BY <1>4 DEF q

\* Delivered survives new answers, which change no old one.
LEMMA StillDelivered ==
    ASSUME TypeOK, Delivered, UNCHANGED msg_chan,
           \A r \in Requests : answer[r] # None => answer'[r] = answer[r]
    PROVE  Delivered'
<1>1. \A r \in Requests : answer[r] = None => msg_chan[r] = <<>>
  BY SilentEmpty
<1>2. SUFFICES ASSUME NEW r \in Requests
               PROVE  /\ Len(msg_chan[r]) <= ChanCapacity
                      /\ \A i \in DOMAIN msg_chan[r] : msg_chan[r][i].sid = answer'[r]
  BY DEF Delivered
<1>. QED BY <1>1 DEF Delivered

\* A connection that is over owes nobody an answer.
LEMMA OverServes ==
    ASSUME TypeOK, Delivered, conn_state' \in Terminal, UNCHANGED <<answer, msg_chan>>
    PROVE  Answered' /\ NoRequestForgotten' /\ Delivered'
<1>1. Delivered'
  BY StillDelivered
<1>2. conn_state' \notin {"AwaitingInfo", "InfoReceived"}
  BY DEF Terminal
<1>. QED BY <1>1, <1>2 DEF Answered, NoRequestForgotten

\* Steps that leave stream, answers and backlog alone.
LEMMA StillServes ==
    ASSUME Answered, NoRequestForgotten, Stream' = Stream,
           UNCHANGED <<conn_state, preliminary, answer>>,
           \A r \in Requests : caller'[r] = caller[r] \/ (caller[r] = "live" /\ caller'[r] = "gone")
    PROVE  Answered' /\ NoRequestForgotten'
<1>1. Answered'
  BY DEF Answered, Subscribed
<1>2. \A r \in Requests : /\ caller'[r] # "idle" => caller[r] # "idle"
                          /\ caller'[r] = "live" => caller[r] = "live"
  OBVIOUS
<1>3. Waiting' /\ Present'
  BY <1>2, ForgottenParts DEF Waiting, Present, Once, Asks
<1>. QED BY <1>1, <1>3, ForgottenPartsNext

-----------------------------------------------------------------------------
(* The invariant is inductive.                                             *)

\* A command of a caller, before INFO and after.
LEMMA ClientInputServes ==
    ASSUME AInv, NEW cmd, Admissible(cmd), ClientInput(cmd),
           \/ cmd.type # "Subscribe" /\ UNCHANGED caller
           \/ /\ cmd.type = "Subscribe" /\ caller[cmd.request] = "idle"
              /\ caller' = [caller EXCEPT ![cmd.request] = "live"]
    PROVE  Answered' /\ NoRequestForgotten' /\ Delivered'
<1> USE DEF AInv
<1>1. /\ TypeOK /\ HandleClientInput(cmd) /\ UNCHANGED <<outgoing, msg_chan>>
      /\ cmd \in ConnectionCommand
      /\ cmd.type = "Subscribe" => cmd.request \in Requests
  BY DEF ClientInput, HandleClientInput, Admissible, IInv, ConnectionCommand
<1>2. Delivered'
  BY <1>1, ClientInputKeeps, StillDelivered
<1>3. caller \in [Requests -> {"idle", "live", "gone"}]
  BY <1>1 DEF TypeOK, BindingTypeOK
<1>4. \A r \in Requests : caller'[r] = caller[r] \/ Asks(cmd, r)
  BY <1>1, <1>3 DEF Asks
<1>5. CASE conn_state = "InfoReceived"
  <2> DEFINE t == StepCommand(Before, cmd)
  <2>1. Become(t)
    BY <1>1, <1>5 DEF HandleClientInput, Terminal, Before
  <2>2. cmd.type = "Unsubscribe" => cmd.sid \in 1..(sid_generator - 1)
    BY <1>5 DEF Admissible, IInv, Talking, AnswersBelow
  <2>3. Kept(outgoing, Before) /\ Served(outgoing, Before)
    BY <1>1, <1>5, BeforeIs DEF IInv, Talking, Answered, Kept, Served, Stream
  <2>4. outgoing \in Seq(ClientCommand)
    BY <1>1 DEF TypeOK
  <2>5. /\ Before \in StepState /\ Before.answer = answer
        /\ cmd.type = "Subscribe" => answer[cmd.request] = None
    BY <1>1, BeforeIs DEF Admissible
  <2>6. /\ Served(outgoing, t)
        /\ cmd.type = "Subscribe" /\ ~t.panicked => t.answer[cmd.request] # None
    BY <1>1, <2>3, <2>4, <2>5, StepServes, StepServesCaller
  <2> HIDE DEF t
  <2>7. CASE Leave("Panicked")
    BY <1>2, <2>7 DEF Leave, Answered, NoRequestForgotten
  <2>8. CASE ~t.panicked
    <3>1. /\ conn_state' = "InfoReceived" /\ answer' = t.answer
          /\ Stream' = outgoing \o t.buffered_transmits
      BY <1>1, <2>1, <2>8 DEF Become, Leave, Stream
    <3>2. Subscribed(Stream', answer')
      BY <2>6, <2>8, <3>1 DEF Served
    <3>3. Answered'
      BY <3>2 DEF Answered, Subscribed
    <3>4. ASSUME NEW r \in Requests, caller'[r] = "live" PROVE answer'[r] # None
      <4>1. CASE Asks(cmd, r)
        BY <2>6, <2>8, <3>1, <4>1 DEF Asks
      <4>2. CASE ~Asks(cmd, r)
        <5>1. answer[r] # None
          BY <1>4, <1>5, <3>4, <4>2 DEF NoRequestForgotten
        <5>. QED BY <5>1, ClientInputKeeps
      <4>. QED BY <4>1, <4>2
    <3>. QED BY <1>2, <3>1, <3>3, <3>4 DEF NoRequestForgotten
  <2>. QED BY <2>1, <2>7, <2>8 DEF Become
<1>6. CASE conn_state = "AwaitingInfo"
  <2>1. preliminary' = Append(preliminary, cmd) /\ conn_state' = "AwaitingInfo"
    BY <1>1, <1>6 DEF HandleClientInput, Terminal
  <2>2. preliminary \in Seq(ConnectionCommand)
    BY <1>1 DEF TypeOK, BindingTypeOK
  <2>3. ASSUME NEW r \in Requests, caller'[r] # "idle" PROVE Once(preliminary', r)
    <3>1. CASE Asks(cmd, r)
      <4>1. caller[r] = "idle"
        BY <3>1 DEF Asks
      <4>2. \A i \in DOMAIN preliminary : ~Asks(preliminary[i], r)
        BY <4>1 DEF IInv, Unasked, Asks
      <4>. QED BY <1>1, <2>1, <2>2, <3>1, <4>2, OnceNew
    <3>2. CASE ~Asks(cmd, r)
      <4>1. Once(preliminary, r)
        BY <1>4, <1>6, <2>3, <3>2, ForgottenParts DEF Waiting
      <4>. QED BY <1>1, <2>1, <2>2, <3>2, <4>1, OnceOther
    <3>. QED BY <3>1, <3>2
  <2>4. Waiting' /\ Present'
    BY <2>1, <2>3 DEF Waiting, Present, Once, Asks
  <2>. QED BY <1>2, <2>1, <2>4, ForgottenPartsNext DEF Answered
<1>7. CASE conn_state \in Terminal
  <2>1. UNCHANGED <<conn_state, answer>>
    BY <1>1, <1>7 DEF HandleClientInput, Terminal
  <2>. QED BY <1>1, <1>7, <2>1, OverServes
<1>8. conn_state \in {"AwaitingInfo", "InfoReceived"} \cup Terminal
  BY <1>1 DEF TypeOK, BindingTypeOK
<1>. QED BY <1>5, <1>6, <1>7, <1>8

\* The server's INFO, at which the backlog is replayed.
LEMMA InfoServes ==
    ASSUME AInv, ReceiveInfo, UNCHANGED <<caller, outgoing>>
    PROVE  Answered' /\ NoRequestForgotten' /\ Delivered'
<1> USE DEF AInv
<1> DEFINE s == Replay(preliminary)
<1>1. /\ TypeOK /\ conn_state = "AwaitingInfo" /\ Become(s) /\ UNCHANGED msg_chan
      /\ preliminary \in Seq(ConnectionCommand)
      /\ answer \in [Requests -> Nat \cup {None}]
      /\ \A r \in Requests : answer[r] = None
      /\ Stream = <<>>
  BY DEF IInv, Greeting, ReceiveInfo, TypeOK, BindingTypeOK
<1>2. outgoing = <<>>
  BY <1>1 DEF Stream, TypeOK, BindingTypeOK
<1>3. Delivered'
  BY <1>1, StillDelivered
<1>4. \A r \in Requests : caller[r] # "idle" => Once(preliminary, r)
  BY <1>1, ForgottenParts DEF Waiting
<1>5. ASSUME NEW i \in DOMAIN preliminary, NEW j \in DOMAIN preliminary,
             preliminary[i].type = "Subscribe", preliminary[j].type = "Subscribe",
             preliminary[i].request = preliminary[j].request
      PROVE  i = j
  <2> DEFINE r == preliminary[i].request
  <2>1. r \in Requests
    BY <1>1, <1>5 DEF ConnectionCommand
  <2>2. caller[r] # "idle"
    BY <1>5 DEF IInv, Unasked
  <2>3. Once(preliminary, r)
    BY <1>4, <2>1, <2>2
  <2>4. Asks(preliminary[i], r) /\ Asks(preliminary[j], r)
    BY <1>5 DEF Asks
  <2> HIDE DEF r
  <2>. QED BY <2>3, <2>4 DEF Once
<1>6. \A i \in DOMAIN preliminary : preliminary[i].type # "Unsubscribe"
  BY <1>1 DEF IInv, Greeting
<1>7. /\ Served(<<>>, s)
      /\ ~s.panicked => \A i \in DOMAIN preliminary :
                            preliminary[i].type = "Subscribe" =>
                                s.answer[preliminary[i].request] # None
  BY <1>1, <1>5, <1>6, ReplayServes, ReplayServesCallers
<1> HIDE DEF s
<1>8. CASE Leave("Panicked")
  BY <1>3, <1>8 DEF Leave, Answered, NoRequestForgotten
<1>9. CASE ~s.panicked
  <2>1. /\ conn_state' = "InfoReceived" /\ answer' = s.answer
        /\ Stream' = <<>> \o s.buffered_transmits
    BY <1>1, <1>2, <1>9 DEF Become, Leave, Stream
  <2>2. Subscribed(Stream', answer')
    BY <1>7, <1>9, <2>1 DEF Served
  <2>3. Answered'
    BY <2>2 DEF Answered, Subscribed
  <2>4. ASSUME NEW r \in Requests, caller[r] = "live" PROVE answer'[r] # None
    <3>1. PICK i \in DOMAIN preliminary : Asks(preliminary[i], r)
      BY <1>4, <2>4 DEF Once
    <3>. QED BY <1>7, <1>9, <2>1, <3>1 DEF Asks
  <2>. QED BY <1>3, <2>1, <2>3, <2>4 DEF NoRequestForgotten
<1>. QED BY <1>1, <1>8, <1>9 DEF Become

\* The table routes a sid to the request that was answered with it.
LEMMA RoutedToAsker ==
    ASSUME AInv, conn_state = "InfoReceived", NEW sid \in DOMAIN sid2subscriber
    PROVE  answer[sid2subscriber[sid]] = sid
<1>1. Routed(Stream, sid2subscriber) /\ Subscribed(Stream, answer)
  BY DEF AInv, IInv, Talking, Sound, Answered
<1>2. PICK i \in DOMAIN Stream : /\ OpenIn(Stream, i) /\ Stream[i].sid = sid
                                /\ Stream[i].request = sid2subscriber[sid]
  BY <1>1 DEF Routed
<1>3. Stream[i].type = "SUB"
  BY <1>2 DEF OpenIn
<1>4. answer[Stream[i].request] = Stream[i].sid
  BY <1>1, <1>3 DEF Subscribed
<1>. QED BY <1>2, <1>4

\* A message reaches the channel of the caller that was told its sid.
LEMMA MsgServes ==
    ASSUME AInv, NEW cmd, ReceiveMsg(cmd), cmd \in Message, UNCHANGED <<caller, outgoing>>
    PROVE  Answered' /\ NoRequestForgotten' /\ Delivered'
<1> USE DEF AInv
<1> DEFINE r == sid2subscriber[cmd.sid]
<1>1. /\ TypeOK /\ conn_state = "InfoReceived" /\ cmd.sid \in DOMAIN sid2subscriber
      /\ UNCHANGED answer
  BY DEF IInv, ReceiveMsg, DeliverWithin
<1>2. CASE Leave("Panicked") /\ UNCHANGED msg_chan
  <2>1. conn_state' \in Terminal
    BY <1>2 DEF Leave, Terminal
  <2>. QED BY <1>1, <1>2, <2>1, OverServes
<1>3. CASE /\ Len(msg_chan[r]) < ChanCapacity
           /\ msg_chan' = [msg_chan EXCEPT ![r] = Append(@, cmd)]
           /\ UNCHANGED <<conn_state, preliminary, inner>>
  <2>1. Answered' /\ NoRequestForgotten'
    BY <1>1, <1>3, StillServes DEF Stream, inner
  <2>2. answer[r] = cmd.sid
    BY <1>1, RoutedToAsker
  <2>3. msg_chan \in [Requests -> Seq(Message)]
    BY <1>1 DEF TypeOK, BindingTypeOK
  <2> HIDE DEF r
  <2>4. ASSUME NEW q \in Requests
        PROVE  /\ Len(msg_chan'[q]) <= ChanCapacity
               /\ \A i \in DOMAIN msg_chan'[q] : msg_chan'[q][i].sid = answer[q]
    <3>1. CASE q # r
      BY <1>3, <2>3, <3>1 DEF Delivered
    <3>2. CASE q = r
      <4> DEFINE before == msg_chan[q]
                 after  == msg_chan'[q]
                 N      == Len(before)
      <4>1. after = Append(before, cmd) /\ before \in Seq(Message)
        BY <1>3, <2>3, <3>2
      <4>2. /\ N \in Nat /\ Len(after) = N + 1 /\ DOMAIN after = 1..(N + 1)
            /\ \A i \in 1..N : after[i] = before[i]
            /\ after[N + 1] = cmd
        BY <4>1
      <4>3. N < ChanCapacity /\ \A i \in 1..N : before[i].sid = answer[q]
        BY <1>3, <3>2, <4>1 DEF Delivered
      <4> HIDE DEF before, after, N
      <4>4. \A i \in 1..(N + 1) : after[i].sid = answer[q]
        BY <2>2, <3>2, <4>2, <4>3
      <4>5. Len(after) <= ChanCapacity
        BY <4>2, <4>3, CapacityAssumption
      <4>. QED BY <4>2, <4>4, <4>5 DEF after
    <3>. QED BY <3>1, <3>2
  <2>5. Delivered'
    BY <1>1, <2>4 DEF Delivered
  <2>. QED BY <2>1, <2>5
<1>. QED BY <1>2, <1>3 DEF ReceiveMsg, DeliverWithin

\* Any command of the server.
LEMMA ServerInputServes ==
    ASSUME AInv, ServerInput
    PROVE  Answered' /\ NoRequestForgotten' /\ Delivered'
<1> USE DEF AInv
<1>1. PICK cmd \in ServerCommand, now \in Instants : HandleServerInput(cmd, now)
  BY DEF ServerInput
<1>2. UNCHANGED <<caller, outgoing>> /\ TypeOK
  BY DEF ServerInput, IInv
<1>3. ASSUME UNCHANGED <<conn_state, preliminary, buffered_transmits, answer, msg_chan>>
      PROVE  Answered' /\ NoRequestForgotten' /\ Delivered'
  BY <1>2, <1>3, StillServes, StillDelivered DEF Stream
<1>4. ASSUME NEW state \in Terminal, Leave(state), UNCHANGED <<answer, msg_chan>>
      PROVE  Answered' /\ NoRequestForgotten' /\ Delivered'
  <2>1. conn_state' \in Terminal
    BY <1>4 DEF Leave
  <2>. QED BY <1>2, <1>4, <2>1, OverServes
<1>5. "NotInfoReceived" \in Terminal /\ "Panicked" \in Terminal
  BY DEF Terminal
<1>6. CASE ReceiveInfo
  BY <1>2, <1>6, InfoServes
<1>7. CASE ReceiveNotInfo
  BY <1>4, <1>5, <1>7 DEF ReceiveNotInfo
<1>8. CASE cmd.type = "MSG" /\ ReceiveMsg(cmd)
  <2>1. cmd \in Message
    BY <1>8, EnvironmentAssumption DEF ServerCommand, Message, Info, SPing, SPong, OkOrErr
  <2>. QED BY <1>2, <1>8, <2>1, MsgServes
<1>9. CASE ReceiveHMsg(cmd)
  BY <1>4, <1>5, <1>9 DEF ReceiveHMsg
<1>10. ASSUME NEW field, ReceiveKeepAlive(field, now)
       PROVE  Answered' /\ NoRequestForgotten' /\ Delivered'
  BY <1>3, <1>10 DEF ReceiveKeepAlive
<1>11. CASE Disregard(cmd)
  BY <1>3, <1>11 DEF Disregard, binding, inner
<1>. QED BY <1>1, <1>6, <1>7, <1>8, <1>9, <1>10, <1>11 DEF HandleServerInput

\* PING, PONG and the loss of the connection.
LEMMA TimeoutServes ==
    ASSUME AInv, Timeout
    PROVE  Answered' /\ NoRequestForgotten' /\ Delivered'
<1> USE DEF AInv
<1>1. UNCHANGED <<caller, outgoing>> /\ TypeOK
  BY DEF Timeout, IInv
<1>2. ASSUME NEW c \in {Ping, Pong}, NEW field, NEW value,
             conn_state = "InfoReceived", Enqueue(c, field, value)
      PROVE  Answered' /\ NoRequestForgotten' /\ Delivered'
  <2>1. /\ c \in ClientCommand /\ c.type # "SUB"
        /\ outgoing \in Seq(ClientCommand) /\ buffered_transmits \in Seq(ClientCommand)
        /\ Stream \in Seq(ClientCommand)
    BY <1>1, WireTyped DEF TypeOK, BindingTypeOK, Stream, Ping, Pong
  <2>2. Stream' = Append(Stream, c)
    BY <1>1, <1>2, <2>1 DEF Stream, Enqueue
  <2>3. UNCHANGED <<conn_state, preliminary, answer, msg_chan>>
    BY <1>2 DEF Enqueue
  <2>4. Subscribed(Append(Stream, c), answer)
    BY <1>2, <2>1, PushOther DEF Answered
  <2>5. Answered'
    BY <2>2, <2>3, <2>4 DEF Answered, Subscribed
  <2>6. Waiting' /\ Present'
    BY <1>1, <2>3, ForgottenParts DEF Waiting, Present, Once, Asks
  <2>. QED BY <1>1, <2>3, <2>5, <2>6, StillDelivered, ForgottenPartsNext
<1>3. CASE UNCHANGED binding
  BY <1>1, <1>3, StillServes, StillDelivered DEF Stream, binding, inner
<1>4. CASE Leave("ConnectionLost") /\ UNCHANGED <<answer, msg_chan>>
  <2>1. conn_state' \in Terminal
    BY <1>4 DEF Leave, Terminal
  <2>. QED BY <1>1, <1>4, <2>1, OverServes
<1>. QED BY <1>2, <1>3, <1>4
            DEF Timeout, HandleSendPingTimeout, HandleSendPongTimeout, HandleKeepAliveTimeout

\* Transmitting only moves a command along the stream.
LEMMA TransmitServes ==
    ASSUME AInv, Transmit
    PROVE  Answered' /\ NoRequestForgotten' /\ Delivered'
<1> USE DEF AInv
<1>1. TypeOK /\ outgoing \in Seq(ClientCommand) /\ buffered_transmits \in Seq(ClientCommand)
  BY DEF IInv, TypeOK, BindingTypeOK
<1>2. /\ buffered_transmits # <<>> /\ buffered_transmits' = Tail(buffered_transmits)
      /\ outgoing' = Append(outgoing, Head(buffered_transmits))
      /\ UNCHANGED <<conn_state, preliminary, answer, msg_chan, caller>>
  BY DEF Transmit, PollTransmit
<1>3. Stream' = Stream
  BY <1>1, <1>2 DEF Stream
<1>. QED BY <1>1, <1>2, <1>3, StillServes, StillDelivered

\* Callers that read or drop their receivers.
LEMMA CallersServe ==
    ASSUME AInv, NEW r \in Requests, Leaving(r) \/ Taking(r)
    PROVE  Answered' /\ NoRequestForgotten' /\ Delivered'
<1> USE DEF AInv
<1>1. /\ TypeOK /\ msg_chan \in [Requests -> Seq(Message)]
      /\ caller \in [Requests -> {"idle", "live", "gone"}]
  BY DEF IInv, TypeOK, BindingTypeOK
<1>2. UNCHANGED <<conn_state, preliminary, inner, answer, outgoing>>
  BY DEF Leaving, DropReceiver, Taking, TakeMsg
<1>3. \A q \in Requests :
          caller'[q] = caller[q] \/ (caller[q] = "live" /\ caller'[q] = "gone")
  BY <1>1 DEF Leaving, DropReceiver, Taking, TakeMsg
<1>4. Answered' /\ NoRequestForgotten'
  BY <1>2, <1>3, StillServes DEF Stream, inner
<1>5. ASSUME NEW q \in Requests
      PROVE  \/ msg_chan'[q] = <<>> \/ msg_chan'[q] = msg_chan[q]
             \/ msg_chan[q] # <<>> /\ msg_chan'[q] = Tail(msg_chan[q])
  BY <1>1 DEF Leaving, DropReceiver, Taking, TakeMsg
<1>6. ASSUME NEW q \in Requests
      PROVE  /\ Len(msg_chan'[q]) <= ChanCapacity
             /\ \A i \in DOMAIN msg_chan'[q] : msg_chan'[q][i].sid = answer[q]
  <2> DEFINE before == msg_chan[q]
             after  == msg_chan'[q]
  <2>1. /\ before \in Seq(Message) /\ Len(before) <= ChanCapacity
        /\ \A i \in DOMAIN before : before[i].sid = answer[q]
    BY <1>1 DEF Delivered
  <2>2. after = <<>> \/ after = before \/ (before # <<>> /\ after = Tail(before))
    BY <1>5
  <2> HIDE DEF before, after
  <2>3. CASE after = <<>>
    <3>1. Len(after) = 0 /\ DOMAIN after = {}
      BY <2>3
    <3>. QED BY <3>1, CapacityAssumption DEF after
  <2>4. CASE before # <<>> /\ after = Tail(before)
    <3>1. /\ Len(after) = Len(before) - 1 /\ Len(before) \in Nat \ {0}
          /\ \A i \in DOMAIN after : i + 1 \in DOMAIN before /\ after[i] = before[i + 1]
      BY <2>1, <2>4
    <3>. QED BY <2>1, <3>1, CapacityAssumption DEF after
  <2>. QED BY <2>1, <2>2, <2>3, <2>4 DEF after
<1>7. Delivered'
  BY <1>2, <1>6 DEF Delivered
<1>. QED BY <1>4, <1>7

\* Nothing was asked yet.
LEMMA AnswersInit == Init => AInv
<1> SUFFICES ASSUME Init PROVE AInv
  OBVIOUS
<1>1. IInv
  BY InvariantInit
<1>2. Answered /\ NoRequestForgotten /\ Delivered
  BY CapacityAssumption DEF Init, BindingInit, Answered, NoRequestForgotten, Delivered
<1>. QED BY <1>1, <1>2 DEF AInv

\* The invariant is inductive.
LEMMA AnswersStep == AInv /\ [Next]_vars => AInv'
<1> SUFFICES ASSUME AInv, [Next]_vars PROVE AInv'
  OBVIOUS
<1>1. IInv'
  BY InvariantStep DEF AInv
<1>2. CASE UNCHANGED vars
  <2>1. Answered' /\ NoRequestForgotten'
    BY <1>2, StillServes DEF AInv, vars, binding, inner, Stream
  <2>2. Delivered'
    BY <1>2 DEF AInv, vars, binding, Delivered
  <2>. QED BY <1>1, <2>1, <2>2 DEF AInv
<1>3. ASSUME NEW r \in Requests, NEW max \in Limits \cup {None}, Request(r, max)
      PROVE  Answered' /\ NoRequestForgotten' /\ Delivered'
  <2>1. /\ Admissible(Subscribe(r, max)) /\ ClientInput(Subscribe(r, max))
        /\ Subscribe(r, max).type = "Subscribe" /\ Subscribe(r, max).request = r
        /\ caller[r] = "idle" /\ caller' = [caller EXCEPT ![r] = "live"]
    BY <1>3 DEF Request, Admissible, Subscribe, ConnectionCommand, AInv, IInv, Unasked
  <2>. QED BY <2>1, ClientInputServes
<1>4. ASSUME NEW r \in Requests, Cancel(r)
      PROVE  Answered' /\ NoRequestForgotten' /\ Delivered'
  <2>1. answer[r] \in Nat \cup {None}
    BY DEF AInv, IInv, TypeOK, BindingTypeOK
  <2>2. /\ Admissible(Unsubscribe(answer[r])) /\ ClientInput(Unsubscribe(answer[r]))
        /\ Unsubscribe(answer[r]).type # "Subscribe" /\ UNCHANGED caller
    BY <1>4, <2>1 DEF Cancel, Admissible, Unsubscribe, ConnectionCommand
  <2>. QED BY <2>2, ClientInputServes
<1>5. ASSUME NEW p \in Payloads, Send(p)
      PROVE  Answered' /\ NoRequestForgotten' /\ Delivered'
  <2>1. /\ Admissible(Publish(p)) /\ ClientInput(Publish(p))
        /\ Publish(p).type # "Subscribe" /\ UNCHANGED caller
    BY <1>5 DEF Send, Admissible, Publish, ConnectionCommand
  <2>. QED BY <2>1, ClientInputServes
<1>6. CASE Next
  <2>1. Answered' /\ NoRequestForgotten' /\ Delivered'
    BY <1>3, <1>4, <1>5, <1>6, ServerInputServes, TimeoutServes, TransmitServes, CallersServe,
       EnvironmentAssumption DEF Next
  <2>. QED BY <1>1, <2>1 DEF AInv
<1>. QED BY <1>2, <1>6

\* Every reachable state satisfies the inductive invariant.
THEOREM AnswersInvariant == Spec => []AInv
BY AnswersInit, AnswersStep, PTL DEF Spec

-----------------------------------------------------------------------------
(* What the invariant is for.                                              *)

\* However many subscribe calls come before and after INFO, none is forgotten: until
\* INFO its command is in the backlog once, from then on its caller has an answer.
THEOREM NobodyForgotten == Spec => []NoRequestForgotten
<1>1. AInv => NoRequestForgotten
  BY DEF AInv
<1>. QED BY <1>1, AnswersInvariant, PTL

\* A caller's channel holds messages for its own sid only, and no more than it may.
THEOREM DeliveryCorrect == Spec => []Delivered
<1>1. AInv => Delivered
  BY DEF AInv
<1>. QED BY <1>1, AnswersInvariant, PTL

\* An answer names a sid that one SUB, for the caller's request, is sent or queued for.
THEOREM AnswersCorrect == Spec => []AnswerMeansSubscribed
<1>1. AInv => AnswerMeansSubscribed
  <2> SUFFICES ASSUME AInv, conn_state = "InfoReceived", NEW r \in Requests, answer[r] # None
               PROVE  /\ \E i \in DOMAIN Stream : Stream[i] = Sub(r, answer[r])
                      /\ \A i, j \in DOMAIN Stream :
                             /\ Stream[i].type = "SUB" /\ Stream[i].sid = answer[r]
                             /\ Stream[j].type = "SUB" /\ Stream[j].request = r
                             => i = j
    BY DEF AnswerMeansSubscribed
  <2>1. Subscribed(Stream, answer)
    BY DEF AInv, Answered
  <2>. QED BY <2>1 DEF Subscribed
<1>. QED BY <1>1, AnswersInvariant, PTL

\* Whatever the intervals: a timer handler called when its poll function says acts.
THEOREM TimersCorrect == Spec => []TimersActWhenPolled
<1>1. TypeOK => TimersActWhenPolled
  <2> SUFFICES ASSUME TypeOK, conn_state = "InfoReceived" PROVE TimersActWhenPolled
    BY DEF TimersActWhenPolled
  <2>1. /\ keep_alive.last_ping_sent_at \in Nat \cup {None}
        /\ keep_alive.last_ping_received_at \in Nat \cup {None}
        /\ keep_alive.last_pong_received_at \in Nat \cup {None}
    BY DEF TypeOK, BindingTypeOK
  <2>2. \A then, wait \in Nat : Elapsed(then + wait, then) >= wait
    BY DEF Elapsed
  <2>3. \A now \in Instants : PingDue(PollSendPingTimeout(now))
    BY <2>1, <2>2, TimeoutsAssumption DEF PingDue, PollSendPingTimeout
  <2>4. PollSendPongTimeout # None => PongDue(PollSendPongTimeout)
    BY <2>1, <2>2, TimeoutsAssumption DEF PongDue, PollSendPongTimeout
  <2>5. PollKeepAliveTimeout # None => LossDue(PollKeepAliveTimeout)
    BY <2>1, <2>2, TimeoutsAssumption DEF LossDue, PollKeepAliveTimeout
  <2>. QED BY <2>3, <2>4, <2>5 DEF TimersActWhenPolled
<1>. QED BY <1>1, TypeCorrect, PTL

-----------------------------------------------------------------------------
(* Backlog, one command at a time.                                         *)

Bare == [pipe |-> <<Connect>>, next |-> 1]

More(b, cmd) == [pipe |-> b.pipe \o Transmits(cmd, b.next),
                 next |-> IF TakesSid(cmd) THEN b.next + 1 ELSE b.next]

\* The recursive function of Backlog, cut off at m.
IsQueue(q, m, cmds) ==
    q = [n \in 0..m |-> IF n = 0 THEN Bare ELSE More(q[n - 1], cmds[n])]

\* The recursion has a solution for every m.
LEMMA QueueExists ==
    ASSUME NEW cmds
    PROVE  \A m \in Nat : \E q : IsQueue(q, m, cmds)
<1> DEFINE T == {m \in Nat : \E q : IsQueue(q, m, cmds)}
<1>1. 0 \in T
  <2>1. IsQueue([n \in 0..0 |-> Bare], 0, cmds)
    BY DEF IsQueue
  <2>. QED BY <2>1
<1>2. ASSUME NEW m \in Nat, m \in T PROVE m + 1 \in T
  <2>1. PICK q : IsQueue(q, m, cmds)
    BY <1>2
  <2> DEFINE g == [n \in 0..(m + 1) |->
                      IF n \in 0..m THEN q[n] ELSE More(q[m], cmds[m + 1])]
             h == [n \in 0..(m + 1) |-> IF n = 0 THEN Bare ELSE More(g[n - 1], cmds[n])]
  <2>2. ASSUME NEW n \in 0..(m + 1) PROVE g[n] = h[n]
    <3>1. CASE n = 0
      BY <2>1, <3>1 DEF IsQueue
    <3>2. CASE n \in 1..m
      <4>1. g[n] = q[n] /\ g[n - 1] = q[n - 1]
        BY <3>2
      <4>2. n \in 0..m /\ n # 0
        BY <3>2
      <4>3. q[n] = More(q[n - 1], cmds[n])
        BY <2>1, <4>2 DEF IsQueue
      <4>. QED BY <3>2, <4>1, <4>3
    <3>3. CASE n = m + 1
      BY <3>3
    <3>. QED BY <3>1, <3>2, <3>3
  <2>3. IsQueue(g, m + 1, cmds)
    <3>1. g = h
      BY <2>2
    <3>. QED BY <3>1 DEF IsQueue
  <2> HIDE DEF g
  <2>. QED BY <2>3
<1>3. Nat \subseteq T
  <2> HIDE DEF T
  <2>. QED BY <1>1, <1>2, NatSetInduction
<1>. QED BY <1>3

Begins(cmds, m, longer) == \A i \in 1..m : cmds[i] = longer[i]

\* What it says up to m depends on the first m commands only.
LEMMA QueuePrefix ==
    ASSUME NEW m \in Nat, NEW k \in Nat, m <= k,
           NEW cmds, NEW longer, Begins(cmds, m, longer),
           NEW q, IsQueue(q, m, cmds), NEW p, IsQueue(p, k, longer)
    PROVE  q[m] = p[m]
<1> DEFINE T == {n \in Nat : n <= m => q[n] = p[n]}
<1>1. 0 \in T
  BY DEF IsQueue
<1>2. ASSUME NEW n \in Nat, n \in T PROVE n + 1 \in T
  <2>1. SUFFICES ASSUME n + 1 <= m PROVE q[n + 1] = p[n + 1]
    OBVIOUS
  <2>2. /\ n + 1 \in 0..m /\ n + 1 \in 0..k /\ n + 1 # 0 /\ (n + 1) - 1 = n
        /\ cmds[n + 1] = longer[n + 1]
    BY <2>1 DEF Begins
  <2>3. q[n + 1] = More(q[(n + 1) - 1], cmds[n + 1])
    BY <2>2 DEF IsQueue
  <2>4. p[n + 1] = More(p[(n + 1) - 1], longer[n + 1])
    BY <2>2 DEF IsQueue
  <2>5. q[n] = p[n]
    BY <1>2, <2>1
  <2>. QED BY <2>2, <2>3, <2>4, <2>5
<1>3. m \in T
  <2> HIDE DEF T
  <2>. QED BY <1>1, <1>2, NatSetInduction
<1>. QED BY <1>3

\* The value of Backlog is the last one of that solution.
LEMMA BacklogIs ==
    ASSUME NEW cmds \in Seq(ConnectionCommand)
    PROVE  \E q : IsQueue(q, Len(cmds), cmds) /\ Backlog(cmds) = q[Len(cmds)]
<1> DEFINE Is(q) ==
               q = [n \in 0..Len(cmds) |->
                       IF n = 0
                       THEN [pipe |-> <<Connect>>, next |-> 1]
                       ELSE [pipe |-> q[n - 1].pipe \o Transmits(cmds[n], q[n - 1].next),
                             next |-> IF TakesSid(cmds[n])
                                      THEN q[n - 1].next + 1 ELSE q[n - 1].next]]
           q == CHOOSE q : Is(q)
<1>1. Backlog(cmds) = q[Len(cmds)]
  BY DEF Backlog
<1>2. \A g : IsQueue(g, Len(cmds), cmds) <=> Is(g)
  BY DEF IsQueue, More, Bare
<1>3. Len(cmds) \in Nat
  OBVIOUS
<1>4. Is(q)
  <2>1. PICK g : IsQueue(g, Len(cmds), cmds)
    BY <1>3, QueueExists
  <2>2. Is(g)
    BY <1>2, <2>1
  <2> HIDE DEF Is
  <2>. QED BY <2>2
<1> HIDE DEF q, Is
<1>. QED BY <1>1, <1>2, <1>4

\* Nothing was called: the pipe holds CONNECT.
LEMMA BacklogEmpty == Backlog(<<>>) = Bare
<1>1. <<>> \in Seq(ConnectionCommand) /\ Len(<<>>) = 0
  OBVIOUS
<1>2. PICK q : IsQueue(q, 0, <<>>) /\ Backlog(<<>>) = q[0]
  BY <1>1, BacklogIs
<1>. QED BY <1>2 DEF IsQueue

\* One more call puts its wire commands behind those before it.
LEMMA BacklogMore ==
    ASSUME NEW cmds \in Seq(ConnectionCommand), NEW cmd \in ConnectionCommand
    PROVE  Backlog(Append(cmds, cmd)) = More(Backlog(cmds), cmd)
<1> DEFINE N == Len(cmds)
           longer == Append(cmds, cmd)
<1>1. /\ N \in Nat /\ longer \in Seq(ConnectionCommand) /\ Len(longer) = N + 1
      /\ longer[N + 1] = cmd /\ \A i \in 1..N : cmds[i] = longer[i]
  OBVIOUS
<1>2. PICK q : IsQueue(q, N, cmds) /\ Backlog(cmds) = q[N]
  BY BacklogIs
<1>3. PICK p : IsQueue(p, N + 1, longer) /\ Backlog(longer) = p[N + 1]
  BY <1>1, BacklogIs
<1> HIDE DEF N, longer
<1>4. q[N] = p[N]
  <2> DEFINE M == N + 1
  <2>1. N \in Nat /\ M \in Nat /\ N <= M
    BY <1>1
  <2>2. IsQueue(q, N, cmds) /\ IsQueue(p, M, longer)
    BY <1>2, <1>3
  <2>3. Begins(cmds, N, longer)
    BY <1>1 DEF Begins
  <2> HIDE DEF M
  <2>. QED BY <2>1, <2>2, <2>3, QueuePrefix
<1>5. p[N + 1] = More(p[N], cmd)
  <2>1. N + 1 \in 0..(N + 1) /\ N + 1 # 0 /\ (N + 1) - 1 = N
    BY <1>1
  <2>2. p[N + 1] = More(p[(N + 1) - 1], longer[N + 1])
    BY <1>3, <2>1 DEF IsQueue
  <2>. QED BY <1>1, <2>1, <2>2
<1>. QED BY <1>2, <1>3, <1>4, <1>5 DEF longer

-----------------------------------------------------------------------------
(* What is foretold is what the replay computes.                           *)

\* A step that does not panic puts its command's wire commands on the queue.
LEMMA StepQueues ==
    ASSUME NEW s \in StepState, NEW cmd \in ConnectionCommand, ~StepCommand(s, cmd).panicked
    PROVE  LET t == StepCommand(s, cmd)
               b == More([pipe |-> s.buffered_transmits, next |-> s.sid_generator], cmd)
           IN  ~s.panicked /\ t.buffered_transmits = b.pipe /\ t.sid_generator = b.next
<1> USE DEF StepState, More, TakesSid
<1>1. ~s.panicked
  BY DEF StepCommand
<1>2. CASE cmd.type = "Publish"
  BY <1>1, <1>2 DEF StepCommand, StepPublish
<1>3. CASE cmd.type = "Unsubscribe"
  BY <1>1, <1>3 DEF StepCommand, StepUnsubscribe
<1>4. CASE cmd.type = "Subscribe"
  <2>1. StepCommand(s, cmd) = StepSubscribe(s, cmd)
    BY <1>1, <1>4 DEF StepCommand
  <2>2. caller[cmd.request] # "gone"
    BY <2>1 DEF StepSubscribe
  <2>. QED BY <1>1, <1>4, <2>1, <2>2 DEF StepSubscribe
<1>. QED BY <1>2, <1>3, <1>4 DEF ConnectionCommand

\* The replay computes what was foretold: the same commands and the same next sid.
LEMMA ReplayIsBacklog ==
    ASSUME NEW backlog \in Seq(ConnectionCommand), answer \in [Requests -> Nat \cup {None}],
           ~Replay(backlog).panicked
    PROVE  /\ Replay(backlog).buffered_transmits = Backlog(backlog).pipe
           /\ Replay(backlog).sid_generator = Backlog(backlog).next
<1> DEFINE N == Len(backlog)
           Agree(s, b) == ~s.panicked => s.buffered_transmits = b.pipe /\ s.sid_generator = b.next
<1>1. N \in Nat /\ \A n \in 1..N : backlog[n] \in ConnectionCommand
  OBVIOUS
<1>2. PICK q : IsQueue(q, N, backlog) /\ Backlog(backlog) = q[N]
  BY BacklogIs
<1>3. PICK f : IsFold(f, N, Connected, backlog) /\ ReplayOnto(Connected, backlog) = f[N]
  BY ReplayIs
<1>4. Connected \in StepState /\ Agree(Connected, Bare)
  <2>1. Connected \in StepState
    BY NoSubscribersTyped, WireTyped DEF Connected, InfoReceived, StepState
  <2>. QED BY <2>1 DEF Connected, InfoReceived, Bare
<1> DEFINE T == {n \in Nat : n <= N => f[n] \in StepState /\ Agree(f[n], q[n])}
<1>5. 0 \in T
  <2>1. f[0] = Connected /\ q[0] = Bare
    BY <1>1, <1>2, <1>3 DEF IsFold, IsQueue
  <2>. QED BY <1>4, <2>1
<1>6. ASSUME NEW n \in Nat, n \in T PROVE n + 1 \in T
  <2> HIDE DEF N
  <2>1. SUFFICES ASSUME n + 1 <= N PROVE f[n + 1] \in StepState /\ Agree(f[n + 1], q[n + 1])
    OBVIOUS
  <2>2. n + 1 \in 0..N /\ n + 1 # 0 /\ (n + 1) - 1 = n
        /\ backlog[n + 1] \in ConnectionCommand
    BY <1>1, <2>1
  <2>3. f[n + 1] = StepCommand(f[(n + 1) - 1], backlog[n + 1])
    BY <1>3, <2>2 DEF IsFold
  <2>4. q[n + 1] = More(q[(n + 1) - 1], backlog[n + 1])
    BY <1>2, <2>2 DEF IsQueue
  <2>5. f[n] \in StepState /\ Agree(f[n], q[n])
    BY <1>1, <1>6, <2>1
  <2>6. f[n + 1] \in StepState
    BY <2>2, <2>3, <2>5, StepTyped
  <2>7. ASSUME ~f[n + 1].panicked
        PROVE  f[n + 1].buffered_transmits = q[n + 1].pipe /\ f[n + 1].sid_generator = q[n + 1].next
    <3> DEFINE s == f[n]
               c == backlog[n + 1]
               t == StepCommand(s, c)
    <3>1. f[n + 1] = t /\ s \in StepState /\ c \in ConnectionCommand
      BY <2>2, <2>3, <2>5
    <3> HIDE DEF s, c
    <3>2. LET b == More([pipe |-> s.buffered_transmits, next |-> s.sid_generator], c)
          IN  ~s.panicked /\ t.buffered_transmits = b.pipe /\ t.sid_generator = b.next
      BY <2>7, <3>1, StepQueues
    <3>3. s.buffered_transmits = q[n].pipe /\ s.sid_generator = q[n].next
      BY <2>5, <3>2 DEF s
    <3>4. q[n + 1] = More(q[n], c)
      BY <2>2, <2>4 DEF c
    <3>. QED BY <3>1, <3>2, <3>3, <3>4 DEF More
  <2>. QED BY <2>6, <2>7
<1>7. N \in T
  <2> HIDE DEF T, N
  <2>. QED BY <1>1, <1>5, <1>6, NatSetInduction
<1>. QED BY <1>1, <1>2, <1>3, <1>7 DEF Replay

-----------------------------------------------------------------------------
(* Every step of the binding is a step of the pipe, or none.               *)

\* A connection that is over has nothing queued.
Emptied == conn_state \in Terminal => buffered_transmits = <<>>

PipeStep == [Pipe!Next]_(Pipe!vars)

\* A connection that is over has nothing to send, and stays so.
LEMMA EmptiedStep ==
    ASSUME Emptied, [Next]_vars
    PROVE  Emptied'
<1> USE DEF Terminal
<1>1. ASSUME NEW s, Become(s) PROVE Emptied'
  BY <1>1 DEF Become, Leave, Emptied
<1>2. ASSUME NEW state, Leave(state) PROVE Emptied'
  BY <1>2 DEF Leave, Emptied
<1>3. ASSUME UNCHANGED <<conn_state, buffered_transmits>> PROVE Emptied'
  BY <1>3 DEF Emptied
<1>4. ASSUME NEW cmd, HandleClientInput(cmd) PROVE Emptied'
  BY <1>1, <1>3, <1>4 DEF HandleClientInput, inner
<1>5. CASE ServerInput
  BY <1>1, <1>2, <1>3, <1>5
     DEF ServerInput, HandleServerInput, ReceiveInfo, ReceiveNotInfo, ReceiveMsg, DeliverWithin,
         ReceiveHMsg, ReceiveKeepAlive, Disregard, binding, inner
<1>6. CASE Timeout
  <2>1. ASSUME NEW c, NEW field, NEW value, conn_state = "InfoReceived", Enqueue(c, field, value)
        PROVE  Emptied'
    BY <2>1 DEF Enqueue, Emptied
  <2>. QED BY <1>2, <1>3, <1>6, <2>1
              DEF Timeout, HandleSendPingTimeout, HandleSendPongTimeout,
                  HandleKeepAliveTimeout, binding, inner
<1>7. CASE Transmit
  BY <1>7 DEF Transmit, PollTransmit, Emptied
<1>. QED BY <1>3, <1>4, <1>5, <1>6, <1>7
            DEF Next, Request, Cancel, Send, ClientInput, Leaving, DropReceiver, Taking, TakeMsg,
                vars, binding, inner

\* The callers hand in one more command.
LEMMA HandIn ==
    ASSUME accepted \in Seq(ConnectionCommand), NEW cmd \in ConnectionCommand,
           accepted' = Append(accepted, cmd)
    PROVE  Pipe!OneMore /\ Pipe!Handed = cmd
<1>1. /\ accepted' # accepted
      /\ accepted'[Len(accepted')] = cmd
  <2>1. /\ Len(Append(accepted, cmd)) = Len(accepted) + 1
        /\ Append(accepted, cmd)[Len(accepted) + 1] = cmd
        /\ Len(accepted) \in Nat
    OBVIOUS
  <2>. QED BY <2>1
<1>. QED BY <1>1 DEF Pipe!OneMore, Pipe!Handed

\* A connection that ends.
LEMMA LeaveEnds ==
    ASSUME conn_state \in {"AwaitingInfo", "InfoReceived"},
           NEW state \in Terminal, Leave(state), UNCHANGED outgoing,
           UNCHANGED accepted \/ Pipe!OneMore
    PROVE  Pipe!End
<1>1. /\ Phase # "over" /\ Phase' = "over"
      /\ Upcoming' = 1 /\ Queued' = <<>>
  BY DEF Phase, Upcoming, Queued, Leave, Terminal
<1>. QED BY <1>1 DEF Pipe!End

\* A step of the binding that computes what the pipe holds.
LEMMA BecomeOpens ==
    ASSUME NEW s, Become(s), ~s.panicked
    PROVE  Phase' = "open" /\ Queued' = s.buffered_transmits /\ Upcoming' = s.sid_generator
BY DEF Become, Phase, Queued, Upcoming, Terminal

\* A call of the binding is an Accept of the pipe.
LEMMA ClientInputAccepts ==
    ASSUME IInv, NEW cmd \in ConnectionCommand, ClientInput(cmd)
    PROVE  PipeStep
<1> USE DEF IInv, PipeStep
<1>1. /\ accepted \in Seq(ConnectionCommand) /\ preliminary \in Seq(ConnectionCommand)
      /\ conn_state \in {"AwaitingInfo", "InfoReceived"} \cup Terminal
  BY DEF TypeOK, BindingTypeOK
<1>2. HandleClientInput(cmd) /\ UNCHANGED outgoing
  BY DEF ClientInput
<1>3. ASSUME conn_state \notin Terminal PROVE Pipe!OneMore /\ Pipe!Handed = cmd
  BY <1>1, <1>3, HandIn DEF ClientInput
<1>4. CASE conn_state = "AwaitingInfo"
  <2>1. /\ Phase = "greeting" /\ Phase' = "greeting"
        /\ Queued = Backlog(preliminary).pipe /\ Upcoming = Backlog(preliminary).next
        /\ Queued' = Backlog(preliminary').pipe /\ Upcoming' = Backlog(preliminary').next
        /\ preliminary' = Append(preliminary, cmd)
    BY <1>2, <1>4 DEF HandleClientInput, Phase, Queued, Upcoming, Terminal
  <2>2. /\ Queued' = Queued \o Transmits(cmd, Upcoming)
        /\ Upcoming' = IF TakesSid(cmd) THEN Upcoming + 1 ELSE Upcoming
    <3>1. Backlog(preliminary') = More(Backlog(preliminary), cmd)
      BY <1>1, <2>1, BacklogMore
    <3> DEFINE b == Backlog(preliminary)
    <3>2. /\ More(b, cmd).pipe = b.pipe \o Transmits(cmd, b.next)
          /\ More(b, cmd).next = IF TakesSid(cmd) THEN b.next + 1 ELSE b.next
      BY DEF More
    <3>. QED BY <2>1, <3>1, <3>2
  <2>3. Pipe!OneMore /\ Pipe!Handed = cmd
    BY <1>3, <1>4 DEF Terminal
  <2>4. Pipe!Accept
    BY <1>2, <2>1, <2>2, <2>3 DEF Pipe!Accept
  <2>. QED BY <2>4 DEF Pipe!Next
<1>5. CASE conn_state = "InfoReceived"
  <2> DEFINE t == StepCommand(Before, cmd)
  <2>1. Become(t)
    BY <1>2, <1>5 DEF HandleClientInput, Before, Terminal
  <2>2. Phase = "open" /\ Queued = buffered_transmits /\ Upcoming = sid_generator
    BY <1>5 DEF Phase, Queued, Upcoming, Terminal
  <2>3. Pipe!OneMore /\ Pipe!Handed = cmd
    BY <1>3, <1>5 DEF Terminal
  <2>4. CASE t.panicked
    <3>1. Leave("Panicked")
      BY <2>1, <2>4 DEF Become
    <3>2. Pipe!End
      BY <1>2, <1>5, <2>3, <3>1, LeaveEnds DEF Terminal
    <3>. QED BY <3>2 DEF Pipe!Next
  <2>5. CASE ~t.panicked
    <3>1. /\ Before \in StepState
          /\ Before.buffered_transmits = buffered_transmits
          /\ Before.sid_generator = sid_generator
      BY BeforeIs
    <3>2. /\ t.buffered_transmits = buffered_transmits \o Transmits(cmd, sid_generator)
          /\ t.sid_generator = IF TakesSid(cmd) THEN sid_generator + 1 ELSE sid_generator
      BY <2>5, <3>1, StepQueues DEF More
    <3> HIDE DEF t
    <3>3. Phase' = "open" /\ Queued' = t.buffered_transmits /\ Upcoming' = t.sid_generator
      BY <2>1, <2>5, BecomeOpens
    <3>4. Pipe!Accept
      BY <1>2, <2>2, <2>3, <3>2, <3>3 DEF Pipe!Accept
    <3>. QED BY <3>4 DEF Pipe!Next
  <2>. QED BY <2>4, <2>5
<1>6. CASE conn_state \in Terminal
  <2>1. UNCHANGED <<conn_state, preliminary, buffered_transmits, sid_generator, accepted, outgoing>>
    BY <1>2, <1>6 DEF ClientInput, HandleClientInput, Terminal, inner
  <2>2. UNCHANGED <<Phase, accepted, Upcoming, Queued, outgoing>>
    BY <2>1 DEF Phase, Upcoming, Queued
  <2>. QED BY <2>2 DEF Pipe!vars
<1>. QED BY <1>1, <1>4, <1>5, <1>6

\* INFO opens the pipe, a bad greeting or a panic ends it, all else is a stutter.
LEMMA ServerInputGreets ==
    ASSUME IInv, ServerInput
    PROVE  PipeStep
<1> USE DEF IInv, PipeStep
<1>1. PICK cmd \in ServerCommand, now \in Instants : HandleServerInput(cmd, now)
  BY DEF ServerInput
<1>2. UNCHANGED <<accepted, outgoing>>
  BY DEF ServerInput
<1>3. ASSUME UNCHANGED <<conn_state, preliminary, buffered_transmits, sid_generator>>
      PROVE  PipeStep
  <2>1. UNCHANGED <<Phase, accepted, Upcoming, Queued, outgoing>>
    BY <1>2, <1>3 DEF Phase, Upcoming, Queued
  <2>. QED BY <2>1 DEF Pipe!vars
<1>4. ASSUME NEW state \in Terminal, Leave(state),
             conn_state \in {"AwaitingInfo", "InfoReceived"}
      PROVE  PipeStep
  <2>1. Pipe!End
    BY <1>2, <1>4, LeaveEnds
  <2>. QED BY <2>1 DEF Pipe!Next
<1>5. "NotInfoReceived" \in Terminal /\ "Panicked" \in Terminal
  BY DEF Terminal
<1>6. CASE ReceiveInfo
  <2> DEFINE s == Replay(preliminary)
  <2>1. conn_state = "AwaitingInfo" /\ Become(s)
    BY <1>6 DEF ReceiveInfo
  <2>2. /\ preliminary \in Seq(ConnectionCommand)
        /\ answer \in [Requests -> Nat \cup {None}]
    BY DEF TypeOK, BindingTypeOK
  <2>3. ASSUME ~s.panicked
        PROVE  /\ s.buffered_transmits = Backlog(preliminary).pipe
               /\ s.sid_generator = Backlog(preliminary).next
    BY <2>2, <2>3, ReplayIsBacklog
  <2> HIDE DEF s
  <2>4. CASE s.panicked
    BY <1>4, <1>5, <2>1, <2>4 DEF Become
  <2>5. CASE ~s.panicked
    <3>1. Phase' = "open" /\ Queued' = s.buffered_transmits /\ Upcoming' = s.sid_generator
      BY <2>1, <2>5, BecomeOpens
    <3>2. /\ Phase = "greeting"
          /\ Queued = Backlog(preliminary).pipe /\ Upcoming = Backlog(preliminary).next
      BY <2>1 DEF Phase, Queued, Upcoming, Terminal
    <3>3. Pipe!Greeted
      BY <1>2, <2>3, <2>5, <3>1, <3>2 DEF Pipe!Greeted
    <3>. QED BY <3>3 DEF Pipe!Next
  <2>. QED BY <2>4, <2>5
<1>7. CASE ReceiveNotInfo
  BY <1>4, <1>5, <1>7 DEF ReceiveNotInfo
<1>8. CASE ReceiveMsg(cmd)
  BY <1>3, <1>4, <1>5, <1>8 DEF ReceiveMsg, DeliverWithin, inner
<1>9. CASE ReceiveHMsg(cmd)
  BY <1>4, <1>5, <1>9 DEF ReceiveHMsg
<1>10. ASSUME NEW field, ReceiveKeepAlive(field, now) PROVE PipeStep
  BY <1>3, <1>10 DEF ReceiveKeepAlive
<1>11. CASE Disregard(cmd)
  BY <1>3, <1>11 DEF Disregard, binding, inner
<1> HIDE DEF PipeStep
<1>. QED BY <1>1, <1>6, <1>7, <1>8, <1>9, <1>10, <1>11 DEF HandleServerInput

\* A timer puts a PING or a PONG in the pipe, ends it, or does nothing to it.
LEMMA TimeoutBeats ==
    ASSUME Timeout
    PROVE  PipeStep
<1> USE DEF PipeStep
<1>1. UNCHANGED <<accepted, outgoing>>
  BY DEF Timeout
<1>2. ASSUME NEW c \in {Ping, Pong}, NEW field, NEW value,
             conn_state = "InfoReceived", Enqueue(c, field, value)
      PROVE  PipeStep
  <2>1. /\ Phase = "open" /\ Queued' = Append(Queued, c)
        /\ UNCHANGED <<Phase, Upcoming>>
    BY <1>2 DEF Enqueue, Phase, Queued, Upcoming, Terminal
  <2>2. Pipe!Beat(c)
    BY <1>1, <2>1 DEF Pipe!Beat
  <2>. QED BY <2>2 DEF Pipe!Next
<1>3. CASE UNCHANGED binding
  <2>1. UNCHANGED <<Phase, accepted, Upcoming, Queued, outgoing>>
    BY <1>1, <1>3 DEF Phase, Upcoming, Queued, binding, inner
  <2>. QED BY <2>1 DEF Pipe!vars
<1>4. CASE conn_state = "InfoReceived" /\ Leave("ConnectionLost")
  <2>1. Pipe!End
    BY <1>1, <1>4, LeaveEnds DEF Terminal
  <2>. QED BY <2>1 DEF Pipe!Next
<1> HIDE DEF PipeStep
<1>. QED BY <1>2, <1>3, <1>4
            DEF Timeout, HandleSendPingTimeout, HandleSendPongTimeout, HandleKeepAliveTimeout

\* poll_transmit takes the first command out of the pipe.
LEMMA TransmitSends ==
    ASSUME IInv, Emptied, Transmit
    PROVE  PipeStep
<1>1. conn_state = "InfoReceived"
  <2>1. conn_state # "AwaitingInfo"
    BY DEF IInv, TypeOK, BindingTypeOK, Greeting, Stream, Transmit, PollTransmit
  <2>. QED BY <2>1 DEF IInv, TypeOK, BindingTypeOK, Emptied, Transmit, PollTransmit
<1>2. /\ Phase = "open" /\ Queued = buffered_transmits /\ Queued' = Tail(Queued)
      /\ UNCHANGED <<Phase, Upcoming, accepted>>
  BY <1>1 DEF Phase, Queued, Upcoming, Transmit, PollTransmit, Terminal
<1>3. Pipe!Send
  BY <1>2 DEF Pipe!Send, Transmit, PollTransmit
<1>. QED BY <1>3 DEF PipeStep, Pipe!Next

\* Every step of the binding is a step of the pipe or a stutter.
LEMMA RefinementStep ==
    ASSUME IInv, Emptied, [Next]_vars
    PROVE  PipeStep
<1>1. ASSUME UNCHANGED <<conn_state, preliminary, inner, accepted, outgoing>> PROVE PipeStep
  <2>1. UNCHANGED <<Phase, accepted, Upcoming, Queued, outgoing>>
    BY <1>1 DEF Phase, Upcoming, Queued, inner
  <2>. QED BY <2>1 DEF PipeStep, Pipe!vars
<1>2. ASSUME NEW r \in Requests, NEW max \in Limits \cup {None}, Request(r, max) PROVE PipeStep
  <2>1. Subscribe(r, max) \in ConnectionCommand
    BY DEF Subscribe, ConnectionCommand
  <2>. QED BY <1>2, <2>1, ClientInputAccepts DEF Request
<1>3. ASSUME NEW r \in Requests, Cancel(r) PROVE PipeStep
  <2>1. Unsubscribe(answer[r]) \in ConnectionCommand
    BY <1>3 DEF Cancel, Unsubscribe, ConnectionCommand, IInv, TypeOK, BindingTypeOK
  <2>. QED BY <1>3, <2>1, ClientInputAccepts DEF Cancel
<1>4. ASSUME NEW p \in Payloads, Send(p) PROVE PipeStep
  <2>1. Publish(p) \in ConnectionCommand
    BY DEF Publish, ConnectionCommand
  <2>. QED BY <1>4, <2>1, ClientInputAccepts DEF Send
<1>5. ASSUME NEW r, Leaving(r) \/ Taking(r) PROVE PipeStep
  BY <1>1, <1>5 DEF Leaving, DropReceiver, Taking, TakeMsg
<1>6. CASE UNCHANGED vars
  BY <1>1, <1>6 DEF vars, binding
<1>. QED BY <1>2, <1>3, <1>4, <1>5, <1>6, ServerInputGreets, TimeoutBeats, TransmitSends
         DEF Next

\* For every set of callers and every order of calls, the binding does with the
\* commands handed in what the pipe promises: in order, whole, once, after CONNECT.
THEOREM Refinement == Spec => ImplementsCommandPipe
<1>1. Init => Pipe!Init
  BY BacklogEmpty DEF Init, BindingInit, Pipe!Init, Phase, Queued, Upcoming, Bare, Terminal
<1>2. Init => Emptied
  BY DEF Init, BindingInit, Emptied, Terminal
<1>3. Emptied /\ [Next]_vars => Emptied'
  BY EmptiedStep
<1>4. IInv /\ Emptied /\ [Next]_vars => [Pipe!Next]_(Pipe!vars)
  BY RefinementStep DEF PipeStep
<1>. QED BY <1>1, <1>2, <1>3, <1>4, Invariance, PTL DEF Spec, ImplementsCommandPipe, Pipe!Spec

=============================================================================
