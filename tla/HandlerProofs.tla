--------------------------- MODULE HandlerProofs ----------------------------
(***************************************************************************)
(* Lemmas about NatsBinding, for whoever calls it: what a command's step   *)
(* keeps, that the replay of a backlog keeps whatever each of its commands *)
(* keeps, the types of the fields, and what a panic and an answer need.    *)
(***************************************************************************)
EXTENDS NatsBinding, TLAPS, SequenceTheorems, FiniteSetTheorems, WellFoundedInduction

-----------------------------------------------------------------------------
(* Induction over a set of numbers, from the well-foundedness of strict    *)
(* inclusion between finite sets.                                          *)

\* A set with 0 that is closed under successor holds every natural number.
LEMMA NatSetInduction ==
    ASSUME NEW T, 0 \in T, \A n \in Nat : n \in T => n + 1 \in T
    PROVE  Nat \subseteq T
<1> DEFINE R == StrictSubsetOrdering(Nat)
           F == FiniteSubsetsOf(Nat)
           C == {0..n : n \in Nat \ T}
<1>1. SUFFICES ASSUME NEW k \in Nat, k \notin T PROVE FALSE
  OBVIOUS
<1>2. IsWellFoundedOn(R, F)
  BY FS_StrictSubsetOrderingWellFounded
<1>3. C \subseteq F
  <2>1. \A n \in Nat : 0..n \subseteq Nat /\ IsFiniteSet(0..n)
    BY FS_Interval
  <2>. QED BY <2>1 DEF FiniteSubsetsOf
<1>4. C # {}
  BY <1>1
<1>5. PICK x \in C : \A y \in C : ~ (<<y, x>> \in R)
  <2> HIDE DEF C, R, F
  <2>. QED BY <1>2, <1>3, <1>4, WFMin
<1>6. PICK n \in Nat \ T : x = 0..n
  OBVIOUS
<1>7. n - 1 \in Nat /\ n - 1 + 1 = n
  BY <1>6
<1>8. n - 1 \notin T
  BY <1>6, <1>7
<1>9. 0..(n - 1) \in C
  BY <1>7, <1>8
<1>10. <<0..(n - 1), 0..n>> \in R
  <2>1. 0..(n - 1) \subseteq 0..n /\ n \in 0..n /\ n \notin 0..(n - 1)
    BY <1>7
  <2>2. 0..(n - 1) \in SUBSET Nat /\ 0..n \in SUBSET Nat
    BY <1>7
  <2>. QED BY <2>1, <2>2 DEF StrictSubsetOrdering
<1>. QED BY <1>5, <1>6, <1>9, <1>10

-----------------------------------------------------------------------------
(* The fold over the backlog.                                              *)

\* The recursive function of ReplayOnto, cut off at m.
IsFold(f, m, start, backlog) ==
    f = [n \in 0..m |-> IF n = 0 THEN start ELSE StepCommand(f[n - 1], backlog[n])]

\* Such a function exists for every m.
LEMMA FoldExists ==
    ASSUME NEW start, NEW backlog
    PROVE  \A m \in Nat : \E f : IsFold(f, m, start, backlog)
<1> DEFINE T == {m \in Nat : \E f : IsFold(f, m, start, backlog)}
<1>1. 0 \in T
  <2>1. IsFold([n \in 0..0 |-> start], 0, start, backlog)
    BY DEF IsFold
  <2>. QED BY <2>1
<1>2. ASSUME NEW m \in Nat, m \in T PROVE m + 1 \in T
  <2>1. PICK f : IsFold(f, m, start, backlog)
    BY <1>2
  <2> DEFINE g == [n \in 0..(m + 1) |->
                      IF n \in 0..m THEN f[n] ELSE StepCommand(f[m], backlog[m + 1])]
             h == [n \in 0..(m + 1) |->
                      IF n = 0 THEN start ELSE StepCommand(g[n - 1], backlog[n])]
  <2>2. ASSUME NEW n \in 0..(m + 1) PROVE g[n] = h[n]
    <3>1. CASE n = 0
      BY <2>1, <3>1 DEF IsFold
    <3>2. CASE n \in 1..m
      <4>1. g[n] = f[n] /\ g[n - 1] = f[n - 1]
        BY <3>2
      <4>2. f[n] = StepCommand(f[n - 1], backlog[n])
        <5>1. n \in 0..m /\ n # 0
          BY <3>2
        <5>. QED BY <2>1, <5>1 DEF IsFold
      <4>. QED BY <3>2, <4>1, <4>2
    <3>3. CASE n = m + 1
      BY <3>3
    <3>. QED BY <3>1, <3>2, <3>3
  <2>3. g = h
    BY <2>2
  <2>4. IsFold(g, m + 1, start, backlog)
    BY <2>3 DEF IsFold
  <2> HIDE DEF g
  <2>. QED BY <2>4
<1>3. Nat \subseteq T
  <2> HIDE DEF T
  <2>. QED BY <1>1, <1>2, NatSetInduction
<1>. QED BY <1>3

\* The replay ends in the last value of such a function.
LEMMA ReplayIs ==
    ASSUME NEW Cmds, NEW start, NEW backlog \in Seq(Cmds)
    PROVE  \E f : /\ IsFold(f, Len(backlog), start, backlog)
                  /\ ReplayOnto(start, backlog) = f[Len(backlog)]
<1> DEFINE IsReplayed(f) ==
               f = [n \in 0..Len(backlog) |->
                       IF n = 0 THEN start ELSE StepCommand(f[n - 1], backlog[n])]
           f == CHOOSE f : IsReplayed(f)
<1>1. ReplayOnto(start, backlog) = f[Len(backlog)]
  BY DEF ReplayOnto
<1>2. IsReplayed(f)
  <2>1. Len(backlog) \in Nat
    OBVIOUS
  <2>2. PICK g : IsFold(g, Len(backlog), start, backlog)
    BY <2>1, FoldExists
  <2>3. IsReplayed(g)
    BY <2>2 DEF IsFold
  <2> HIDE DEF IsReplayed
  <2>. QED BY <2>3
<1> HIDE DEF f
<1>. QED BY <1>1, <1>2 DEF IsFold

\* A set of states that every command of the backlog's kind stays in is not left by
\* the replay of the whole backlog.
LEMMA ReplayStays ==
    ASSUME NEW S, NEW Cmds, NEW start \in S, NEW backlog \in Seq(Cmds),
           \A s \in S, cmd \in Cmds : StepCommand(s, cmd) \in S
    PROVE  ReplayOnto(start, backlog) \in S
<1> DEFINE N == Len(backlog)
<1>1. N \in Nat
  OBVIOUS
<1>2. PICK f : IsFold(f, N, start, backlog) /\ ReplayOnto(start, backlog) = f[N]
  BY ReplayIs
<1> DEFINE T == {n \in Nat : n <= N => f[n] \in S}
<1>3. 0 \in T
  BY <1>1, <1>2 DEF IsFold
<1>4. ASSUME NEW n \in Nat, n \in T PROVE n + 1 \in T
  <2>1. SUFFICES ASSUME n + 1 <= N PROVE f[n + 1] \in S
    OBVIOUS
  <2>2. f[n] \in S /\ backlog[n + 1] \in Cmds
    BY <1>1, <1>4, <2>1
  <2>3. f[n + 1] = StepCommand(f[n], backlog[n + 1])
    BY <1>1, <1>2, <2>1 DEF IsFold
  <2>. QED BY <2>2, <2>3
<1>5. N \in T
  <2> HIDE DEF T
  <2>. QED BY <1>1, <1>3, <1>4, NatSetInduction
<1>. QED BY <1>1, <1>2, <1>5

-----------------------------------------------------------------------------
(* What steps compute has its type.                                        *)

\* Routing tables, and the values StepCommand reads and writes.
Table == UNION {[D -> Requests] : D \in SUBSET Nat}

StepState ==
    [buffered_transmits : Seq(ClientCommand), sid_generator : Nat \ {0},
     sid2subscriber : Table, answer : [Requests -> Nat \cup {None}], panicked : BOOLEAN]

\* BindingTypeOK says the same of sid2subscriber without the union.
LEMMA TableIs ==
    ASSUME NEW f
    PROVE  f \in Table <=> DOMAIN f \subseteq Nat /\ f \in [DOMAIN f -> Requests]
BY DEF Table

\* A table with one more sid is a table.
LEMMA ExtendTyped ==
    ASSUME NEW f \in Table, NEW sid \in Nat, NEW r \in Requests
    PROVE  Extend(f, sid, r) \in Table
<1> DEFINE D == DOMAIN f \cup {sid}
<1>1. D \in SUBSET Nat /\ f \in [DOMAIN f -> Requests]
  BY DEF Table
<1>2. Extend(f, sid, r) \in [D -> Requests]
  BY <1>1 DEF Extend
<1>. QED BY <1>1, <1>2 DEF Table

\* A table without a sid is a table.
LEMMA WithoutTyped ==
    ASSUME NEW f \in Table, NEW sid
    PROVE  Without(f, sid) \in Table
<1> DEFINE D == DOMAIN f \ {sid}
<1>1. D \in SUBSET Nat /\ f \in [DOMAIN f -> Requests]
  BY DEF Table
<1>2. Without(f, sid) \in [D -> Requests]
  BY <1>1 DEF Without
<1>. QED BY <1>1, <1>2 DEF Table

\* The commands put on the wire are ones this client builds.
LEMMA WireTyped ==
    /\ {Connect, Ping, Pong} \subseteq ClientCommand
    /\ \A p \in Payloads : Pub(p) \in ClientCommand
    /\ \A r \in Requests, sid \in Nat : Sub(r, sid) \in ClientCommand
    /\ \A sid \in Nat, max \in Limits \cup {None} : Unsub(sid, max) \in ClientCommand
BY DEF ClientCommand, Connect, Ping, Pong, Pub, Sub, Unsub

\* What a command puts on the wire is typed.
LEMMA TransmitsTyped ==
    ASSUME NEW cmd \in ConnectionCommand, NEW sid \in Nat
    PROVE  Transmits(cmd, sid) \in Seq(ClientCommand)
<1>1. CASE cmd.type = "Publish"
  <2>1. cmd.payload \in Payloads
    BY <1>1 DEF ConnectionCommand
  <2>2. Transmits(cmd, sid) = <<Pub(cmd.payload)>>
    BY <1>1 DEF Transmits
  <2>. QED BY <2>1, <2>2, WireTyped
<1>2. CASE cmd.type = "Unsubscribe"
  <2>1. cmd.sid \in Nat /\ cmd.max_msgs = None
    BY <1>2 DEF ConnectionCommand
  <2>2. Transmits(cmd, sid) = <<Unsub(cmd.sid, cmd.max_msgs)>>
    BY <1>2 DEF Transmits
  <2>. QED BY <2>1, <2>2, WireTyped
<1>3. CASE cmd.type = "Subscribe"
  <2>1. cmd.request \in Requests /\ cmd.max_msgs \in Limits \cup {None}
    BY <1>3 DEF ConnectionCommand
  <2>2. Transmits(cmd, sid) =
            <<Sub(cmd.request, sid)>> \o
            (IF cmd.max_msgs = None THEN <<>> ELSE <<Unsub(sid, cmd.max_msgs)>>)
    BY <1>3 DEF Transmits
  <2>3. <<Sub(cmd.request, sid)>> \in Seq(ClientCommand)
    BY <2>1, WireTyped
  <2>4. <<Unsub(sid, cmd.max_msgs)>> \in Seq(ClientCommand)
    BY <2>1, WireTyped
  <2>. QED BY <2>2, <2>3, <2>4
<1>. QED BY <1>1, <1>2, <1>3 DEF ConnectionCommand

\* A step of Step<ConnectionCommand> keeps the types.
LEMMA StepTyped ==
    ASSUME NEW s \in StepState, NEW cmd \in ConnectionCommand
    PROVE  StepCommand(s, cmd) \in StepState
<1> DEFINE wire == s.buffered_transmits \o Transmits(cmd, s.sid_generator)
<1>1. wire \in Seq(ClientCommand)
  BY TransmitsTyped DEF StepState
<1> HIDE DEF wire
<1>2. CASE s.panicked
  BY <1>2 DEF StepCommand
<1>3. CASE ~s.panicked /\ cmd.type = "Subscribe"
  <2>1. cmd.request \in Requests
    BY <1>3 DEF ConnectionCommand
  <2>2. Extend(s.sid2subscriber, s.sid_generator, cmd.request) \in Table
    BY <2>1, ExtendTyped DEF StepState
  <2>3. StepCommand(s, cmd) = StepSubscribe(s, cmd)
    BY <1>3 DEF StepCommand
  <2>4. CASE caller[cmd.request] = "gone"
    BY <2>3, <2>4 DEF StepSubscribe, StepState
  <2>5. CASE caller[cmd.request] # "gone"
    <3> DEFINE table   == Extend(s.sid2subscriber, s.sid_generator, cmd.request)
               answers == [s.answer EXCEPT ![cmd.request] = s.sid_generator]
               next    == s.sid_generator + 1
    <3>1. StepSubscribe(s, cmd) =
              [s EXCEPT !.sid_generator = next, !.sid2subscriber = table,
                        !.answer = answers, !.buffered_transmits = wire]
      BY <2>5 DEF StepSubscribe, wire
    <3>2. next \in Nat \ {0} /\ answers \in [Requests -> Nat \cup {None}]
      BY <2>1 DEF StepState
    <3> HIDE DEF table, answers, next
    <3>3. [s EXCEPT !.sid_generator = next, !.sid2subscriber = table,
                    !.answer = answers, !.buffered_transmits = wire] \in StepState
      BY <1>1, <2>2, <3>2 DEF StepState, table
    <3>. QED BY <2>3, <3>1, <3>3
  <2>. QED BY <2>4, <2>5
<1>4. CASE ~s.panicked /\ cmd.type = "Unsubscribe"
  <2>1. Without(s.sid2subscriber, cmd.sid) \in Table
    BY WithoutTyped DEF StepState
  <2>2. StepCommand(s, cmd) =
            [s EXCEPT !.sid2subscriber = Without(s.sid2subscriber, cmd.sid),
                      !.buffered_transmits = wire]
    BY <1>4 DEF StepCommand, StepUnsubscribe, wire
  <2>. QED BY <1>1, <2>1, <2>2 DEF StepState
<1>5. CASE ~s.panicked /\ cmd.type = "Publish"
  <2>1. StepCommand(s, cmd) = [s EXCEPT !.buffered_transmits = wire]
    BY <1>5 DEF StepCommand, StepPublish, wire
  <2>. QED BY <1>1, <2>1 DEF StepState
<1>. QED BY <1>2, <1>3, <1>4, <1>5 DEF ConnectionCommand, StepState

\* So does the replay of a backlog.
LEMMA ReplayTyped ==
    ASSUME NEW backlog \in Seq(ConnectionCommand), answer \in [Requests -> Nat \cup {None}]
    PROVE  Replay(backlog) \in StepState
<1>1. NoSubscribers \in Table
  <2>1. NoSubscribers \in [{} -> Requests]
    BY DEF NoSubscribers
  <2>. QED BY <2>1 DEF Table
<1>2. Connected \in StepState
  BY <1>1, WireTyped DEF Connected, InfoReceived, StepState
<1>3. \A s \in StepState, cmd \in ConnectionCommand : StepCommand(s, cmd) \in StepState
  BY StepTyped
<1>4. ReplayOnto(Connected, backlog) \in StepState
  <2> HIDE DEF StepState
  <2>. QED BY <1>2, <1>3, ReplayStays
<1>. QED BY <1>4 DEF Replay

-----------------------------------------------------------------------------
(* Types.                                                                  *)

KeepAliveState ==
    [{"last_ping_sent_at", "last_ping_received_at", "last_pong_received_at"}
        -> Nat \cup {None}]

\* BindingTypeOK without caller, which handlers do not change.
FieldsTyped ==
    /\ conn_state \in {"AwaitingInfo", "InfoReceived"} \cup Terminal
    /\ preliminary \in Seq(ConnectionCommand)
    /\ buffered_transmits \in Seq(ClientCommand)
    /\ keep_alive \in KeepAliveState
    /\ sid_generator \in Nat \ {0}
    /\ sid2subscriber \in Table
    /\ answer \in [Requests -> Nat \cup {None}]
    /\ msg_chan \in [Requests -> Seq(Message)]

CallerTyped == caller \in [Requests -> {"idle", "live", "gone"}]

\* The type invariant of the binding: its fields, and what it shares with callers.
LEMMA TypeParts == BindingTypeOK <=> FieldsTyped /\ CallerTyped
BY TableIs DEF BindingTypeOK, FieldsTyped, CallerTyped, KeepAliveState

\* The same of the next state.
LEMMA TypePartsNext == BindingTypeOK' <=> FieldsTyped' /\ CallerTyped'
BY TableIs DEF BindingTypeOK, FieldsTyped, CallerTyped, KeepAliveState

\* No time stamp is a state of the timers.
LEMMA NeverHeardTyped == NeverHeard \in KeepAliveState
BY DEF NeverHeard, KeepAliveState

\* The empty table is one.
LEMMA NoSubscribersTyped == NoSubscribers \in Table
BY TableIs DEF NoSubscribers

\* Leaving a variant resets its fields to typed values.
LEMMA LeaveTyped ==
    ASSUME FieldsTyped, NEW state \in Terminal, Leave(state),
           answer' \in [Requests -> Nat \cup {None}], UNCHANGED msg_chan
    PROVE  FieldsTyped'
BY NeverHeardTyped, NoSubscribersTyped DEF FieldsTyped, Leave

\* So does the end of a step.
LEMMA BecomeTyped ==
    ASSUME FieldsTyped, NEW s \in StepState, Become(s), UNCHANGED msg_chan
    PROVE  FieldsTyped'
<1>1. s.answer \in [Requests -> Nat \cup {None}]
  BY DEF StepState
<1>2. CASE Leave("Panicked")
  <2>1. answer' \in [Requests -> Nat \cup {None}]
    BY <1>1 DEF Become
  <2>2. "Panicked" \in Terminal
    BY DEF Terminal
  <2>. QED BY <1>2, <2>1, <2>2, LeaveTyped
<1>3. CASE ~s.panicked
  <2>1. /\ conn_state' = "InfoReceived" /\ preliminary' = <<>>
        /\ buffered_transmits' = s.buffered_transmits
        /\ sid_generator' = s.sid_generator /\ sid2subscriber' = s.sid2subscriber
        /\ answer' = s.answer /\ UNCHANGED keep_alive
    BY <1>3 DEF Become
  <2>2. /\ s.buffered_transmits \in Seq(ClientCommand)
        /\ s.sid_generator \in Nat \ {0} /\ s.sid2subscriber \in Table
    BY DEF StepState
  <2>. QED BY <1>1, <2>1, <2>2 DEF FieldsTyped
<1>. QED BY <1>2, <1>3 DEF Become

\* handle_client_input, before INFO and after.
LEMMA ClientInputTyped ==
    ASSUME FieldsTyped, NEW cmd \in ConnectionCommand, HandleClientInput(cmd)
    PROVE  FieldsTyped'
<1>1. CASE conn_state = "InfoReceived"
  <2> DEFINE s == InfoReceived(buffered_transmits, sid_generator, sid2subscriber)
  <2>1. s \in StepState
    BY DEF InfoReceived, StepState, FieldsTyped
  <2> HIDE DEF s
  <2>2. StepCommand(s, cmd) \in StepState
    BY <2>1, StepTyped
  <2>3. Become(StepCommand(s, cmd))
    BY <1>1 DEF HandleClientInput, Terminal, s
  <2>4. UNCHANGED msg_chan
    BY DEF HandleClientInput
  <2>. QED BY <2>2, <2>3, <2>4, BecomeTyped
<1>2. CASE conn_state = "AwaitingInfo"
  <2>1. preliminary' = Append(preliminary, cmd) /\ UNCHANGED <<conn_state, inner, answer, msg_chan>>
    BY <1>2 DEF HandleClientInput, Terminal
  <2>. QED BY <2>1 DEF FieldsTyped, inner
<1>3. CASE conn_state \in Terminal
  BY <1>3 DEF HandleClientInput, Terminal, FieldsTyped, inner
<1>. QED BY <1>1, <1>2, <1>3 DEF HandleClientInput

\* handle_server_input, whatever the command.
LEMMA ServerInputTyped ==
    ASSUME FieldsTyped, NEW cmd, cmd.type = "MSG" => cmd \in Message,
           NEW now \in Nat, HandleServerInput(cmd, now)
    PROVE  FieldsTyped'
<1>1. CASE ReceiveInfo
  <2>1. Replay(preliminary) \in StepState
    BY ReplayTyped DEF FieldsTyped
  <2>. QED BY <1>1, <2>1, BecomeTyped DEF ReceiveInfo
<1>2. CASE ReceiveNotInfo
  BY <1>2, LeaveTyped DEF ReceiveNotInfo, Terminal, FieldsTyped
<1>3. CASE cmd.type = "MSG" /\ ReceiveMsg(cmd)
  <2> DEFINE r == sid2subscriber[cmd.sid]
  <2>1. r \in Requests
    BY <1>3, TableIs DEF ReceiveMsg, DeliverWithin, FieldsTyped
  <2>2. cmd \in Message
    BY <1>3
  <2>3. CASE Leave("Panicked")
    BY <1>3, <2>3, LeaveTyped
       DEF ReceiveMsg, DeliverWithin, Terminal, FieldsTyped, Leave, inner
  <2>4. CASE /\ msg_chan' = [msg_chan EXCEPT ![r] = Append(@, cmd)]
             /\ UNCHANGED <<conn_state, preliminary, inner>>
    <3>1. msg_chan' \in [Requests -> Seq(Message)]
      BY <2>1, <2>2, <2>4 DEF FieldsTyped
    <3>. QED BY <1>3, <2>4, <3>1 DEF ReceiveMsg, DeliverWithin, FieldsTyped, inner
  <2>. QED BY <1>3, <2>3, <2>4 DEF ReceiveMsg, DeliverWithin
<1>4. CASE ReceiveHMsg(cmd)
  BY <1>4, LeaveTyped DEF ReceiveHMsg, Terminal, FieldsTyped
<1>5. ASSUME NEW field \in {"last_ping_received_at", "last_pong_received_at"},
             ReceiveKeepAlive(field, now)
      PROVE  FieldsTyped'
  <2>1. keep_alive' \in KeepAliveState
    BY <1>5 DEF ReceiveKeepAlive, FieldsTyped, KeepAliveState
  <2>. QED BY <1>5, <2>1 DEF ReceiveKeepAlive, FieldsTyped
<1>6. CASE Disregard(cmd)
  BY <1>6 DEF Disregard, FieldsTyped, binding, inner
<1>. QED BY <1>1, <1>2, <1>3, <1>4, <1>5, <1>6 DEF HandleServerInput

\* The three timeout handlers.
LEMMA TimeoutTyped ==
    ASSUME FieldsTyped, NEW now \in Nat,
           \/ HandleSendPingTimeout(now)
           \/ HandleSendPongTimeout(now)
           \/ HandleKeepAliveTimeout(now)
    PROVE  FieldsTyped'
<1>1. ASSUME NEW command \in {Ping, Pong}, NEW value \in Nat \cup {None},
             NEW field \in {"last_ping_sent_at", "last_ping_received_at"},
             Enqueue(command, field, value)
      PROVE  FieldsTyped'
  <2>1. buffered_transmits' \in Seq(ClientCommand)
    BY <1>1, WireTyped DEF Enqueue, FieldsTyped
  <2>2. keep_alive' \in KeepAliveState
    BY <1>1 DEF Enqueue, FieldsTyped, KeepAliveState
  <2>. QED BY <1>1, <2>1, <2>2 DEF Enqueue, FieldsTyped
<1>2. CASE UNCHANGED binding
  BY <1>2 DEF FieldsTyped, binding, inner
<1>3. CASE Leave("ConnectionLost") /\ UNCHANGED <<answer, msg_chan>>
  BY <1>3, LeaveTyped DEF Terminal, FieldsTyped
<1>. QED BY <1>1, <1>2, <1>3
            DEF HandleSendPingTimeout, HandleSendPongTimeout, HandleKeepAliveTimeout

-----------------------------------------------------------------------------
(* What a command puts on the wire.                                        *)

\* A sequence of commands with one more.
LEMMA Pushed ==
    ASSUME NEW stream \in Seq(ClientCommand), NEW c \in ClientCommand
    PROVE  /\ Append(stream, c) \in Seq(ClientCommand)
           /\ DOMAIN stream = 1..Len(stream) /\ Len(stream) \in Nat
           /\ DOMAIN Append(stream, c) = 1..(Len(stream) + 1)
           /\ \A i \in 1..Len(stream) : Append(stream, c)[i] = stream[i]
           /\ Append(stream, c)[Len(stream) + 1] = c
OBVIOUS

\* What a step puts behind the stream, and what it does to table, sids and answers.
LEMMA StepWire ==
    ASSUME NEW out \in Seq(ClientCommand), NEW s \in StepState, NEW cmd \in ConnectionCommand,
           ~s.panicked
    PROVE  LET stream == out \o s.buffered_transmits
               t      == StepCommand(s, cmd)
               wire   == out \o t.buffered_transmits
               next   == s.sid_generator
               sub    == Append(stream, Sub(cmd.request, next))
           IN  /\ cmd.type = "Publish" =>
                      /\ wire = Append(stream, Pub(cmd.payload))
                      /\ t.sid2subscriber = s.sid2subscriber
                      /\ t.sid_generator = next /\ t.answer = s.answer
               /\ cmd.type = "Unsubscribe" =>
                      /\ wire = Append(stream, Unsub(cmd.sid, None))
                      /\ t.sid2subscriber = Without(s.sid2subscriber, cmd.sid)
                      /\ t.sid_generator = next /\ t.answer = s.answer
               /\ cmd.type = "Subscribe" /\ caller[cmd.request] # "gone" =>
                      /\ wire = IF cmd.max_msgs = None THEN sub
                                ELSE Append(sub, Unsub(next, cmd.max_msgs))
                      /\ t.sid2subscriber = Extend(s.sid2subscriber, next, cmd.request)
                      /\ t.sid_generator = next + 1
                      /\ t.answer = [s.answer EXCEPT ![cmd.request] = next]
<1> DEFINE stream == out \o s.buffered_transmits
           next   == s.sid_generator
           t      == StepCommand(s, cmd)
<1>1. /\ next \in Nat \ {0} /\ s.buffered_transmits \in Seq(ClientCommand)
  BY DEF StepState
<1>2. \A q \in Seq(ClientCommand), c \in ClientCommand :
          /\ out \o Append(q, c) = Append(out \o q, c)
          /\ q \o <<c>> = Append(q, c)
  OBVIOUS
<1>3. CASE cmd.type = "Publish"
  <2>1. /\ t.buffered_transmits = Append(s.buffered_transmits, Pub(cmd.payload))
        /\ t.sid2subscriber = s.sid2subscriber /\ t.sid_generator = next /\ t.answer = s.answer
    BY <1>1, <1>3 DEF StepCommand, StepPublish, Transmits, StepState
  <2>2. Pub(cmd.payload) \in ClientCommand
    BY <1>3, WireTyped DEF ConnectionCommand
  <2>. QED BY <1>1, <1>2, <1>3, <2>1, <2>2
<1>4. CASE cmd.type = "Unsubscribe"
  <2>1. cmd.sid \in Nat /\ cmd.max_msgs = None
    BY <1>4 DEF ConnectionCommand
  <2>2. Transmits(cmd, next) = <<Unsub(cmd.sid, None)>>
    BY <1>4, <2>1 DEF Transmits
  <2>3. s.buffered_transmits \o <<Unsub(cmd.sid, None)>>
            = Append(s.buffered_transmits, Unsub(cmd.sid, None))
    BY <1>1, <1>2, <2>1, WireTyped
  <2>4. t = StepUnsubscribe(s, cmd)
    BY <1>4 DEF StepCommand
  <2>5. /\ t.buffered_transmits = Append(s.buffered_transmits, Unsub(cmd.sid, None))
        /\ t.sid2subscriber = Without(s.sid2subscriber, cmd.sid)
        /\ t.sid_generator = next /\ t.answer = s.answer
    BY <2>2, <2>3, <2>4 DEF StepUnsubscribe, StepState
  <2>. QED BY <1>1, <1>2, <1>4, <2>1, <2>5, WireTyped
<1>5. CASE cmd.type = "Subscribe" /\ caller[cmd.request] # "gone"
  <2> DEFINE r   == cmd.request
             c   == Sub(r, next)
             u   == Unsub(next, cmd.max_msgs)
             sub == Append(s.buffered_transmits, c)
  <2>1. r \in Requests /\ cmd.max_msgs \in Limits \cup {None}
    BY <1>5 DEF ConnectionCommand
  <2>2. c \in ClientCommand /\ (cmd.max_msgs # None => u \in ClientCommand)
    BY <1>1, <2>1, WireTyped
  <2>3. s.buffered_transmits \o <<c>> = sub /\ sub \in Seq(ClientCommand)
    BY <1>1, <2>2
  <2>4. Transmits(cmd, next) = <<c>> \o (IF cmd.max_msgs = None THEN <<>> ELSE <<u>>)
    BY <1>5 DEF Transmits
  <2>5. s.buffered_transmits \o Transmits(cmd, next) =
            IF cmd.max_msgs = None THEN sub ELSE Append(sub, u)
    <3>1. CASE cmd.max_msgs = None
      <4>1. <<c>> \o <<>> = <<c>>
        OBVIOUS
      <4>. QED BY <2>3, <2>4, <3>1, <4>1
    <3>2. CASE cmd.max_msgs # None
      <4>1. <<c>> \in Seq(ClientCommand) /\ <<u>> \in Seq(ClientCommand)
        BY <2>2, <3>2
      <4>2. s.buffered_transmits \o (<<c>> \o <<u>>) = (s.buffered_transmits \o <<c>>) \o <<u>>
        BY <1>1, <4>1, ConcatAssociative
      <4>3. sub \o <<u>> = Append(sub, u)
        BY <1>2, <2>2, <2>3, <3>2
      <4>. QED BY <2>3, <2>4, <3>2, <4>2, <4>3
    <3>. QED BY <3>1, <3>2
  <2>6. /\ t.buffered_transmits = IF cmd.max_msgs = None THEN sub ELSE Append(sub, u)
        /\ t.sid2subscriber = Extend(s.sid2subscriber, next, r)
        /\ t.sid_generator = next + 1 /\ t.answer = [s.answer EXCEPT ![r] = next]
    <3>1. t = StepSubscribe(s, cmd)
      BY <1>5 DEF StepCommand
    <3> HIDE DEF sub
    <3>. QED BY <1>5, <2>5, <3>1 DEF StepSubscribe, StepState
  <2>7. out \o sub = Append(stream, c)
    BY <1>1, <1>2, <2>2
  <2>8. cmd.max_msgs # None => out \o Append(sub, u) = Append(Append(stream, c), u)
    BY <1>2, <2>2, <2>3, <2>7
  <2>. QED BY <1>5, <2>6, <2>7, <2>8
<1>. QED BY <1>3, <1>4, <1>5

-----------------------------------------------------------------------------
(* Answers and panics.                                                     *)

\* A step answers nobody but the caller of its own command, with the next sid, and
\* moves no sid that is in the table.
LEMMA StepAnswers ==
    ASSUME NEW s \in StepState, NEW cmd \in ConnectionCommand
    PROVE  LET t == StepCommand(s, cmd)
           IN  /\ \A r \in Requests :
                      t.answer[r] = s.answer[r] \/ (cmd.type = "Subscribe" /\ r = cmd.request)
               /\ \A sid \in DOMAIN t.sid2subscriber :
                      \/ sid \in DOMAIN s.sid2subscriber
                         /\ t.sid2subscriber[sid] = s.sid2subscriber[sid]
                      \/ sid = s.sid_generator
<1> DEFINE t == StepCommand(s, cmd)
<1>1. CASE s.panicked \/ cmd.type = "Publish"
  <2>1. t.answer = s.answer /\ t.sid2subscriber = s.sid2subscriber
    BY <1>1 DEF StepCommand, StepPublish, StepState
  <2>. QED BY <2>1
<1>2. CASE ~s.panicked /\ cmd.type = "Unsubscribe"
  <2>1. t.answer = s.answer /\ t.sid2subscriber = Without(s.sid2subscriber, cmd.sid)
    BY <1>2 DEF StepCommand, StepUnsubscribe, StepState
  <2>. QED BY <2>1 DEF Without
<1>3. CASE ~s.panicked /\ cmd.type = "Subscribe"
  <2>1. CASE caller[cmd.request] = "gone"
    <3>1. t.answer = s.answer /\ t.sid2subscriber = s.sid2subscriber
      BY <1>3, <2>1 DEF StepCommand, StepSubscribe, StepState
    <3>. QED BY <3>1
  <2>2. CASE caller[cmd.request] # "gone"
    <3>1. /\ t.answer = [s.answer EXCEPT ![cmd.request] = s.sid_generator]
          /\ t.sid2subscriber = Extend(s.sid2subscriber, s.sid_generator, cmd.request)
      BY <1>3, <2>2 DEF StepCommand, StepSubscribe, StepState
    <3>. QED BY <1>3, <3>1 DEF Extend, StepState
  <2>. QED BY <2>1, <2>2
<1>. QED BY <1>1, <1>2, <1>3 DEF ConnectionCommand, StepState

\* Whoever has an answer keeps one, a step that does not panic answers its caller, and
\* only a caller that has gone makes it panic.
LEMMA StepServesCaller ==
    ASSUME NEW s \in StepState, NEW cmd \in ConnectionCommand
    PROVE  LET t == StepCommand(s, cmd)
           IN  /\ \A r \in Requests : s.answer[r] # None => t.answer[r] # None
               /\ ~t.panicked => ~s.panicked
               /\ cmd.type = "Subscribe" /\ ~t.panicked => t.answer[cmd.request] # None
               /\ t.panicked /\ ~s.panicked =>
                      cmd.type = "Subscribe" /\ caller[cmd.request] = "gone"
<1> DEFINE t == StepCommand(s, cmd)
<1>1. CASE s.panicked \/ cmd.type = "Publish"
  <2>1. t.answer = s.answer /\ t.panicked = s.panicked
    BY <1>1 DEF StepCommand, StepPublish, StepState
  <2>2. s.panicked => t.panicked
    BY <2>1
  <2>. QED BY <1>1, <2>1, <2>2
<1>2. CASE ~s.panicked /\ cmd.type = "Unsubscribe"
  <2>1. t.answer = s.answer /\ t.panicked = s.panicked
    BY <1>2 DEF StepCommand, StepUnsubscribe, StepState
  <2>. QED BY <1>2, <2>1
<1>3. CASE ~s.panicked /\ cmd.type = "Subscribe" /\ caller[cmd.request] = "gone"
  <2>1. t.answer = s.answer /\ t.panicked
    BY <1>3 DEF StepCommand, StepSubscribe, StepState
  <2>. QED BY <1>3, <2>1
<1>4. CASE ~s.panicked /\ cmd.type = "Subscribe" /\ caller[cmd.request] # "gone"
  <2>1. t.answer = [s.answer EXCEPT ![cmd.request] = s.sid_generator] /\ ~t.panicked
    BY <1>4 DEF StepCommand, StepSubscribe, StepState
  <2>2. /\ cmd.request \in Requests /\ s.sid_generator # None
        /\ s.answer \in [Requests -> Nat \cup {None}]
    BY <1>4, NoneAssumption DEF ConnectionCommand, StepState
  <2>. QED BY <1>4, <2>1, <2>2
<1>. QED BY <1>1, <1>2, <1>3, <1>4 DEF ConnectionCommand, StepState

\* The value the replay starts from.
LEMMA ConnectedTyped ==
    ASSUME answer \in [Requests -> Nat \cup {None}]
    PROVE  Connected \in StepState /\ Connected.answer = answer /\ ~Connected.panicked
BY NoSubscribersTyped, WireTyped DEF Connected, InfoReceived, StepState

\* So does the replay: it answers everyone in the backlog, or finds a caller gone.
LEMMA ReplayServesCallers ==
    ASSUME NEW backlog \in Seq(ConnectionCommand), answer \in [Requests -> Nat \cup {None}]
    PROVE  /\ \A r \in Requests : answer[r] # None => Replay(backlog).answer[r] # None
           /\ ~Replay(backlog).panicked =>
                  \A i \in DOMAIN backlog :
                      backlog[i].type = "Subscribe" =>
                          Replay(backlog).answer[backlog[i].request] # None
           /\ Replay(backlog).panicked => \E r \in Requests : caller[r] = "gone"
<1> DEFINE N == Len(backlog)
           Kept(s)   == \A r \in Requests : answer[r] # None => s.answer[r] # None
           Met(n, s) == \A i \in 1..n : backlog[i].type = "Subscribe" =>
                            s.answer[backlog[i].request] # None
           Gone      == \E r \in Requests : caller[r] = "gone"
           Good(n, s) == /\ s \in StepState /\ Kept(s)
                         /\ ~s.panicked => Met(n, s)
                         /\ s.panicked => Gone
<1>1. /\ N \in Nat /\ DOMAIN backlog = 1..N
      /\ \A i \in 1..N : /\ backlog[i] \in ConnectionCommand
                         /\ backlog[i].type = "Subscribe" => backlog[i].request \in Requests
  BY DEF ConnectionCommand
<1>2. PICK f : IsFold(f, N, Connected, backlog) /\ ReplayOnto(Connected, backlog) = f[N]
  BY ReplayIs
<1> DEFINE T == {n \in Nat : n <= N => Good(n, f[n])}
<1>3. 0 \in T
  <2>1. f[0] = Connected
    BY <1>1, <1>2 DEF IsFold
  <2>. QED BY <2>1, ConnectedTyped
<1>4. ASSUME NEW n \in Nat, n \in T PROVE n + 1 \in T
  <2> HIDE DEF N, Gone
  <2>1. SUFFICES ASSUME n + 1 <= N PROVE Good(n + 1, f[n + 1])
    OBVIOUS
  <2> DEFINE s   == f[n]
             cmd == backlog[n + 1]
             t   == StepCommand(s, cmd)
  <2>2. n + 1 \in 0..N /\ n + 1 # 0 /\ (n + 1) - 1 = n /\ n + 1 \in 1..N
    BY <1>1, <2>1
  <2>3. f[n + 1] = t
    <3>1. f[n + 1] = StepCommand(f[(n + 1) - 1], backlog[n + 1])
      BY <1>2, <2>2 DEF IsFold
    <3>. QED BY <2>2, <3>1
  <2>4. Good(n, s)
    BY <1>1, <1>4, <2>1
  <2>5. cmd \in ConnectionCommand /\ (cmd.type = "Subscribe" => cmd.request \in Requests)
    BY <1>1, <2>2
  <2>6. t \in StepState
    BY <2>4, <2>5, StepTyped
  <2>7. /\ \A r \in Requests : s.answer[r] # None => t.answer[r] # None
        /\ ~t.panicked => ~s.panicked
        /\ cmd.type = "Subscribe" /\ ~t.panicked => t.answer[cmd.request] # None
        /\ t.panicked /\ ~s.panicked => cmd.type = "Subscribe" /\ caller[cmd.request] = "gone"
    BY <2>4, <2>5, StepServesCaller
  <2> HIDE DEF t, s
  <2>8. Kept(t)
    BY <2>4, <2>7
  <2>9. t.panicked => Gone
    BY <2>4, <2>5, <2>7 DEF Gone
  <2>10. ASSUME ~t.panicked PROVE Met(n + 1, t)
    <3>1. SUFFICES ASSUME NEW i \in 1..(n + 1), backlog[i].type = "Subscribe"
                   PROVE  t.answer[backlog[i].request] # None
      OBVIOUS
    <3>2. CASE i = n + 1
      BY <2>7, <2>10, <3>1, <3>2
    <3>3. CASE i # n + 1
      <4>1. i \in 1..n /\ i \in 1..N
        BY <1>1, <2>1, <3>3
      <4>. QED BY <1>1, <2>4, <2>7, <2>10, <3>1, <4>1
    <3>. QED BY <3>2, <3>3
  <2>. QED BY <2>3, <2>6, <2>8, <2>9, <2>10
<1>5. N \in T
  <2> HIDE DEF T, N
  <2>. QED BY <1>1, <1>3, <1>4, NatSetInduction
<1>6. Good(N, f[N])
  BY <1>1, <1>5
<1>. QED BY <1>1, <1>2, <1>6 DEF Replay

\* No handler takes an answer away.
LEMMA AnswersStay ==
    ASSUME FieldsTyped,
           \/ \E cmd \in ConnectionCommand : HandleClientInput(cmd)
           \/ \E cmd, now : HandleServerInput(cmd, now)
    PROVE  \A r \in Requests : answer[r] # None => answer'[r] # None
<1>1. CASE UNCHANGED answer
  BY <1>1
<1>2. ASSUME NEW cmd \in ConnectionCommand, HandleClientInput(cmd), conn_state = "InfoReceived"
      PROVE  \A r \in Requests : answer[r] # None => answer'[r] # None
  <2> DEFINE s == InfoReceived(buffered_transmits, sid_generator, sid2subscriber)
             t == StepCommand(s, cmd)
  <2>1. s \in StepState /\ s.answer = answer
    BY DEF InfoReceived, StepState, FieldsTyped
  <2>2. answer' = t.answer
    BY <1>2 DEF HandleClientInput, Become, Terminal
  <2> HIDE DEF s
  <2>. QED BY <2>1, <2>2, StepServesCaller
<1>3. CASE ReceiveInfo
  <2>1. /\ answer' = Replay(preliminary).answer /\ preliminary \in Seq(ConnectionCommand)
        /\ answer \in [Requests -> Nat \cup {None}]
    BY <1>3 DEF ReceiveInfo, Become, FieldsTyped
  <2>. QED BY <2>1, ReplayServesCallers
<1>. QED BY <1>1, <1>2, <1>3
            DEF HandleClientInput, HandleServerInput, ReceiveNotInfo, ReceiveMsg, DeliverWithin,
                ReceiveHMsg, ReceiveKeepAlive, Disregard, binding

\* A handler panics on a caller that has gone, on a channel that is full, or on HMSG.
LEMMA PanicsOn ==
    ASSUME FieldsTyped, conn_state # "Panicked", conn_state' = "Panicked",
           \A r \in Requests : Len(msg_chan[r]) <= ChanCapacity
    PROVE  /\ \A cmd \in ConnectionCommand :
                  HandleClientInput(cmd) => \E r \in Requests : caller[r] = "gone"
           /\ \A cmd, now :
                  HandleServerInput(cmd, now) =>
                      \/ \E r \in Requests : caller[r] = "gone" \/ Len(msg_chan[r]) = ChanCapacity
                      \/ cmd.type = "HMSG"
<1>1. ASSUME NEW cmd \in ConnectionCommand, HandleClientInput(cmd)
      PROVE  \E r \in Requests : caller[r] = "gone"
  <2> DEFINE s == InfoReceived(buffered_transmits, sid_generator, sid2subscriber)
             t == StepCommand(s, cmd)
  <2>1. s \in StepState /\ ~s.panicked
    BY DEF InfoReceived, StepState, FieldsTyped
  <2>2. Become(t)
    BY <1>1 DEF HandleClientInput
  <2> HIDE DEF s
  <2>3. t.panicked
    BY <2>2 DEF Become
  <2>4. cmd.type = "Subscribe" /\ caller[cmd.request] = "gone"
    BY <2>1, <2>3, StepServesCaller
  <2>. QED BY <2>4 DEF ConnectionCommand
<1>2. ASSUME NEW cmd, NEW now, HandleServerInput(cmd, now)
      PROVE  \/ \E r \in Requests : caller[r] = "gone" \/ Len(msg_chan[r]) = ChanCapacity
             \/ cmd.type = "HMSG"
  <2>1. CASE ReceiveInfo
    <3>1. Replay(preliminary).panicked
      BY <2>1 DEF ReceiveInfo, Become
    <3>. QED BY <3>1, ReplayServesCallers DEF FieldsTyped
  <2>2. CASE ReceiveMsg(cmd)
    <3>1. PICK r \in Requests : caller[r] = "gone" \/ Len(msg_chan[r]) >= ChanCapacity
      <4>1. cmd.sid \in DOMAIN sid2subscriber
        BY <2>2 DEF ReceiveMsg, DeliverWithin
      <4>2. sid2subscriber[cmd.sid] \in Requests
        BY <4>1, TableIs DEF FieldsTyped
      <4>. QED BY <2>2, <4>2 DEF ReceiveMsg, DeliverWithin
    <3>2. Len(msg_chan[r]) \in Nat
      BY DEF FieldsTyped
    <3>. QED BY <3>1, <3>2, CapacityAssumption
  <2>3. CASE ReceiveNotInfo
    BY <2>3 DEF ReceiveNotInfo, Leave
  <2>. QED BY <1>2, <2>1, <2>2, <2>3 DEF HandleServerInput, ReceiveKeepAlive, Disregard, binding
<1>. QED BY <1>1, <1>2

=============================================================================
