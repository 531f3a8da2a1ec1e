---------------------------- MODULE StreamProofs ----------------------------
(***************************************************************************)
(* Theorems about what travels through Connection's queues and sockets:    *)
(* to the server, publications (PublishedInOrder) and PONGs                *)
(* (NoUnsolicitedPong); from the server to a Subscriber, messages          *)
(* (NoMessageLost), which rests on how sids are given out: each to one     *)
(* request, named by one SUB, and in the routing table for as long as that *)
(* request is wanted.                                                      *)
(***************************************************************************)
EXTENDS ConnectionProofs

-----------------------------------------------------------------------------
(* InOrder, command by command.                                            *)

\* InOrder of what stands behind the first k.
OrderFrom(queue, k, kind, first, last) ==
    LET at == {i \in DOMAIN queue : i > k /\ queue[i] \in kind}
    IN  /\ first <= last
        /\ {queue[i].payload : i \in at} = (first + 1)..last
        /\ \A i, j \in at : i < j => queue[i].payload < queue[j].payload

\* All of a queue stands behind the first none.
LEMMA OrderIs ==
    ASSUME NEW C, NEW queue \in Seq(C), NEW kind, NEW first, NEW last
    PROVE  InOrder(queue, kind, first, last) <=> OrderFrom(queue, 0, kind, first, last)
<1>1. {i \in DOMAIN queue : queue[i] \in kind} = {i \in DOMAIN queue : i > 0 /\ queue[i] \in kind}
  OBVIOUS
<1>. QED BY <1>1 DEF InOrder, OrderFrom

\* What carries no payload of the kind is in order.
LEMMA OrderNone ==
    ASSUME NEW queue, NEW kind, NEW n \in Nat, \A i \in DOMAIN queue : queue[i] \notin kind
    PROVE  InOrder(queue, kind, n, n)
<1>1. {i \in DOMAIN queue : queue[i] \in kind} = {} /\ (n + 1)..n = {}
  OBVIOUS
<1>. QED BY <1>1 DEF InOrder

\* One more command continues the order, if it carries the next payload or is of no kind.
LEMMA OrderPush ==
    ASSUME NEW C, NEW queue \in Seq(C), NEW c \in C, NEW kind, \A d \in kind : d.payload \in Nat,
           NEW first \in Nat, NEW last \in Nat, InOrder(queue, kind, first, last)
    PROVE  /\ c \notin kind => InOrder(Append(queue, c), kind, first, last)
           /\ c \in kind /\ c.payload = last + 1 =>
                  InOrder(Append(queue, c), kind, first, last + 1)
<1> DEFINE longer == Append(queue, c)
           N  == Len(queue)
           at == {i \in DOMAIN queue : queue[i] \in kind}
           up == {i \in DOMAIN longer : longer[i] \in kind}
<1>1. /\ N \in Nat /\ DOMAIN queue = 1..N /\ DOMAIN longer = 1..(N + 1)
      /\ \A i \in 1..N : longer[i] = queue[i]
      /\ longer[N + 1] = c
  OBVIOUS
<1>2. /\ first <= last /\ {queue[i].payload : i \in at} = (first + 1)..last
      /\ \A i, j \in at : i < j => queue[i].payload < queue[j].payload
  BY DEF InOrder
<1> HIDE DEF longer, N
<1>3. \A i \in 1..(N + 1) : i \in 1..N \/ i = N + 1
  BY <1>1
<1>4. 1..N \subseteq 1..(N + 1) /\ N + 1 \in 1..(N + 1) /\ \A i \in 1..N : ~(N + 1 < i) /\ i # N + 1
  BY <1>1
<1>5. \A i \in at : i \in 1..N /\ longer[i] = queue[i] /\ queue[i] \in kind
  BY <1>1
<1>6. ASSUME c \notin kind PROVE InOrder(longer, kind, first, last)
  <2>1. up = at
    BY <1>1, <1>3, <1>4, <1>6
  <2>2. {longer[i].payload : i \in up} = {queue[i].payload : i \in at}
    BY <1>5, <2>1
  <2>3. \A i, j \in up : i < j => longer[i].payload < longer[j].payload
    BY <1>2, <1>5, <2>1
  <2>. QED BY <1>2, <2>2, <2>3 DEF InOrder
<1>7. ASSUME c \in kind, c.payload = last + 1 PROVE InOrder(longer, kind, first, last + 1)
  <2>1. up = at \cup {N + 1}
    BY <1>1, <1>3, <1>4, <1>7
  <2>2. {longer[i].payload : i \in up} = {queue[i].payload : i \in at} \cup {last + 1}
    BY <1>1, <1>5, <1>7, <2>1
  <2>3. (first + 1)..(last + 1) = (first + 1)..last \cup {last + 1}
    BY <1>2
  <2>4. ASSUME NEW i \in up, NEW j \in up, i < j PROVE longer[i].payload < longer[j].payload
    <3>1. i \in at
      BY <1>3, <1>4, <1>5, <2>1, <2>4
    <3>2. CASE j \in at
      BY <1>2, <1>5, <2>4, <3>1, <3>2
    <3>3. CASE j = N + 1
      <4>1. queue[i].payload \in (first + 1)..last
        BY <1>2, <3>1
      <4>. QED BY <1>1, <1>5, <1>7, <3>1, <3>3, <4>1
    <3>. QED BY <2>1, <3>2, <3>3
  <2>5. first <= last + 1
    BY <1>2
  <2>. QED BY <1>2, <2>2, <2>3, <2>4, <2>5 DEF InOrder
<1>. QED BY <1>6, <1>7 DEF longer

\* The next command of the kind carries the next payload, and the rest goes on from it.
LEMMA OrderNext ==
    ASSUME NEW C, NEW queue \in Seq(C), NEW kind, \A d \in kind : d.payload \in Nat,
           NEW first \in Nat, NEW last \in Nat, NEW k \in Nat, k + 1 \in DOMAIN queue,
           OrderFrom(queue, k, kind, first, last)
    PROVE  /\ queue[k + 1] \notin kind => OrderFrom(queue, k + 1, kind, first, last)
           /\ queue[k + 1] \in kind =>
                  /\ queue[k + 1].payload = first + 1 /\ first + 1 <= last
                  /\ OrderFrom(queue, k + 1, kind, first + 1, last)
<1> DEFINE at   == {i \in DOMAIN queue : i > k /\ queue[i] \in kind}
           rest == {i \in DOMAIN queue : i > k + 1 /\ queue[i] \in kind}
<1>1. DOMAIN queue \subseteq Nat /\ \A i \in DOMAIN queue : i > k <=> i = k + 1 \/ i > k + 1
  OBVIOUS
<1>2. /\ first <= last /\ {queue[i].payload : i \in at} = (first + 1)..last
      /\ \A i, j \in at : i < j => queue[i].payload < queue[j].payload
  BY DEF OrderFrom
<1>3. ASSUME queue[k + 1] \notin kind PROVE OrderFrom(queue, k + 1, kind, first, last)
  <2>1. rest = at
    BY <1>1, <1>3
  <2>. QED BY <1>2, <2>1 DEF OrderFrom
<1>4. ASSUME queue[k + 1] \in kind
      PROVE  /\ queue[k + 1].payload = first + 1 /\ first + 1 <= last
             /\ OrderFrom(queue, k + 1, kind, first + 1, last)
  <2>1. at = rest \cup {k + 1} /\ \A i \in rest : k + 1 < i /\ i # k + 1 /\ i \in Nat
    BY <1>1, <1>4
  <2> DEFINE x == queue[k + 1].payload
  <2>2. x \in (first + 1)..last /\ \A i \in rest : queue[i].payload \in (first + 1)..last
    BY <1>2, <2>1
  <2>3. \A i \in rest : x < queue[i].payload
    BY <1>2, <2>1
  <2> HIDE DEF x, at
  <2>4. x = first + 1
    <3>1. first + 1 \in (first + 1)..last
      BY <2>2
    <3>2. PICK i \in at : queue[i].payload = first + 1
      BY <1>2, <3>1
    <3>3. CASE i = k + 1
      BY <3>2, <3>3 DEF x
    <3>4. CASE i \in rest
      BY <2>2, <2>3, <3>2, <3>4
    <3>. QED BY <2>1, <3>3, <3>4
  <2>5. \A y \in (first + 2)..last : \E i \in rest : queue[i].payload = y
    <3>1. \A y \in (first + 2)..last : y \in (first + 1)..last /\ y # first + 1
      OBVIOUS
    <3>. QED BY <1>2, <2>1, <2>4, <3>1 DEF x
  <2>6. \A i \in rest : queue[i].payload \in (first + 2)..last
    BY <2>2, <2>3, <2>4
  <2>7. {queue[i].payload : i \in rest} = (first + 2)..last
    <3> HIDE DEF rest
    <3>. QED BY <2>5, <2>6
  <2>8. (first + 1) + 1 = first + 2 /\ first + 1 <= last
    BY <2>2, <2>4
  <2>9. \A i, j \in rest : i < j => queue[i].payload < queue[j].payload
    BY <1>2, <2>1
  <2>10. OrderFrom(queue, k + 1, kind, first + 1, last)
    BY <2>7, <2>8, <2>9 DEF OrderFrom
  <2>. QED BY <2>4, <2>8, <2>10 DEF x
<1>. QED BY <1>3, <1>4

\* The same of taking the head.
LEMMA OrderPop ==
    ASSUME NEW C, NEW queue \in Seq(C), queue # <<>>, NEW kind, \A d \in kind : d.payload \in Nat,
           NEW first \in Nat, NEW last \in Nat, InOrder(queue, kind, first, last)
    PROVE  /\ Head(queue) \notin kind => InOrder(Tail(queue), kind, first, last)
           /\ Head(queue) \in kind =>
                  /\ Head(queue).payload = first + 1 /\ first + 1 <= last
                  /\ InOrder(Tail(queue), kind, first + 1, last)
<1> DEFINE rest == Tail(queue)
           N    == Len(queue)
<1>1. /\ N \in Nat \ {0} /\ DOMAIN queue = 1..N /\ DOMAIN rest = 1..(N - 1)
      /\ \A i \in 1..(N - 1) : rest[i] = queue[i + 1]
      /\ Head(queue) = queue[1] /\ rest \in Seq(C)
  OBVIOUS
<1> HIDE DEF rest, N
<1>2. 0 \in Nat /\ 0 + 1 = 1 /\ 1 \in DOMAIN queue
  BY <1>1
<1>3. ASSUME NEW low \in Nat, OrderFrom(queue, 1, kind, low, last)
      PROVE  InOrder(rest, kind, low, last)
  <2> DEFINE at == {i \in DOMAIN queue : i > 1 /\ queue[i] \in kind}
             up == {i \in DOMAIN rest : rest[i] \in kind}
  <2>1. /\ low <= last /\ {queue[i].payload : i \in at} = (low + 1)..last
        /\ \A i, j \in at : i < j => queue[i].payload < queue[j].payload
    BY <1>3 DEF OrderFrom
  <2>2. \A i \in up : i \in Nat /\ i + 1 \in at /\ rest[i] = queue[i + 1]
    BY <1>1
  <2>3. \A j \in at : j - 1 \in up /\ rest[j - 1] = queue[j]
    <3>1. \A j \in 1..N : j > 1 => j - 1 \in 1..(N - 1) /\ (j - 1) + 1 = j
      BY <1>1
    <3>. QED BY <1>1, <3>1
  <2> HIDE DEF at, up
  <2>4. {rest[i].payload : i \in up} = {queue[i].payload : i \in at}
    <3>1. ASSUME NEW i \in up PROVE rest[i].payload \in {queue[j].payload : j \in at}
      <4>1. i + 1 \in at /\ rest[i].payload = queue[i + 1].payload
        BY <2>2
      <4>. QED BY <4>1
    <3>2. ASSUME NEW j \in at PROVE queue[j].payload \in {rest[i].payload : i \in up}
      <4>1. j - 1 \in up /\ rest[j - 1].payload = queue[j].payload
        BY <2>3
      <4>. QED BY <4>1
    <3>. QED BY <3>1, <3>2
  <2>5. ASSUME NEW i \in up, NEW j \in up, i < j PROVE rest[i].payload < rest[j].payload
    <3>1. i + 1 < j + 1
      BY <2>2, <2>5
    <3>. QED BY <2>1, <2>2, <3>1
  <2>. QED BY <2>1, <2>4, <2>5 DEF InOrder, up
<1>4. OrderFrom(queue, 0, kind, first, last)
  BY OrderIs
<1>5. 0 + 1 \in DOMAIN queue
  BY <1>2
<1>6. /\ queue[0 + 1] \notin kind => OrderFrom(queue, 0 + 1, kind, first, last)
      /\ queue[0 + 1] \in kind => /\ queue[0 + 1].payload = first + 1 /\ first + 1 <= last
                                  /\ OrderFrom(queue, 0 + 1, kind, first + 1, last)
  BY <1>2, <1>4, <1>5, OrderNext, Zenon
<1>7. /\ queue[1] \notin kind => OrderFrom(queue, 1, kind, first, last)
      /\ queue[1] \in kind => /\ queue[1].payload = first + 1 /\ first + 1 <= last
                              /\ OrderFrom(queue, 1, kind, first + 1, last)
  BY <1>2, <1>6
<1>. QED BY <1>1, <1>3, <1>7 DEF rest

\* One queue behind another.
LEMMA OrderConcat ==
    ASSUME NEW C, NEW D, NEW p \in Seq(C), NEW q \in Seq(D), NEW kind,
           \A d \in kind : d.payload \in Nat,
           NEW first \in Nat, NEW mid \in Nat, NEW last \in Nat,
           InOrder(p, kind, first, mid), InOrder(q, kind, mid, last)
    PROVE  InOrder(p \o q, kind, first, last)
<1> DEFINE both == p \o q
           M  == Len(p)
           N  == Len(q)
           ap == {i \in DOMAIN p : p[i] \in kind}
           aq == {i \in DOMAIN q : q[i] \in kind}
           up == {i \in DOMAIN both : both[i] \in kind}
<1>1. /\ M \in Nat /\ N \in Nat /\ DOMAIN p = 1..M /\ DOMAIN q = 1..N
      /\ DOMAIN both = 1..(M + N)
      /\ \A i \in 1..M : both[i] = p[i]
      /\ \A i \in (M + 1)..(M + N) : both[i] = q[i - M]
  OBVIOUS
<1>2. /\ first <= mid /\ {p[i].payload : i \in ap} = (first + 1)..mid
      /\ \A i, j \in ap : i < j => p[i].payload < p[j].payload
      /\ mid <= last /\ {q[i].payload : i \in aq} = (mid + 1)..last
      /\ \A i, j \in aq : i < j => q[i].payload < q[j].payload
  BY DEF InOrder
<1> HIDE DEF both, M, N
<1>3. \A i \in up : /\ i \in Nat
                    /\ \/ i \in ap /\ both[i] = p[i] /\ i <= M
                       \/ i - M \in aq /\ both[i] = q[i - M] /\ i > M
  <2>1. \A i \in 1..(M + N) : i \in 1..M \/ (i \in (M + 1)..(M + N) /\ i - M \in 1..N)
    BY <1>1
  <2>. QED BY <1>1, <2>1
<1>4. \A i \in ap : i \in up /\ both[i] = p[i]
  <2>1. 1..M \subseteq 1..(M + N)
    BY <1>1
  <2>. QED BY <1>1, <2>1
<1>5. \A i \in aq : M + i \in up /\ both[M + i] = q[i]
  <2>1. \A i \in 1..N : M + i \in (M + 1)..(M + N) /\ M + i \in 1..(M + N) /\ (M + i) - M = i
    BY <1>1
  <2>. QED BY <1>1, <2>1
<1>6. /\ \A i \in ap : p[i].payload \in (first + 1)..mid
      /\ \A i \in aq : q[i].payload \in (mid + 1)..last
  BY <1>2
<1>7. ASSUME NEW i \in up, NEW j \in up, i < j PROVE both[i].payload < both[j].payload
  <2>1. CASE j \in ap /\ both[j] = p[j] /\ j <= M
    <3>1. i \in ap /\ both[i] = p[i]
      BY <1>1, <1>3, <1>7, <2>1
    <3>. QED BY <1>2, <1>7, <2>1, <3>1
  <2>2. CASE j - M \in aq /\ both[j] = q[j - M] /\ j > M
    <3>1. CASE i \in ap /\ both[i] = p[i]
      <4>1. both[i].payload \in (first + 1)..mid /\ both[j].payload \in (mid + 1)..last
        BY <1>6, <2>2, <3>1
      <4>. QED BY <4>1
    <3>2. CASE i - M \in aq /\ both[i] = q[i - M]
      <4>1. i - M < j - M
        BY <1>1, <1>3, <1>7
      <4>. QED BY <1>2, <2>2, <3>2, <4>1
    <3>. QED BY <1>3, <3>1, <3>2
  <2>. QED BY <1>3, <2>1, <2>2
<1> HIDE DEF up, ap, aq
<1>8. {both[i].payload : i \in up} = {p[i].payload : i \in ap} \cup {q[i].payload : i \in aq}
  BY <1>3, <1>4, <1>5
<1>9. (first + 1)..last = (first + 1)..mid \cup (mid + 1)..last /\ first <= last
  BY <1>2
<1>. QED BY <1>2, <1>7, <1>8, <1>9 DEF InOrder, both, up

\* Nothing has been left out of an empty queue.
LEMMA OrderEmpty ==
    ASSUME NEW kind, NEW first \in Nat, NEW last \in Nat, InOrder(<<>>, kind, first, last)
    PROVE  first = last
<1>1. first <= last /\ (first + 1)..last = {}
  BY DEF InOrder
<1>2. first + 1 <= last => first + 1 \in (first + 1)..last
  OBVIOUS
<1>. QED BY <1>1, <1>2

-----------------------------------------------------------------------------
(* The replay, when what it keeps depends on how far it is.                *)

\* If each command leads from the set of states before it into the one behind it, the
\* replay of the backlog leads from the first set into the last.
LEMMA ReplayPasses ==
    ASSUME NEW Cmds, NEW backlog \in Seq(Cmds), NEW S, NEW start \in S[0],
           \A n \in Nat : n + 1 <= Len(backlog) =>
               \A s \in S[n] : StepCommand(s, backlog[n + 1]) \in S[n + 1]
    PROVE  ReplayOnto(start, backlog) \in S[Len(backlog)]
<1> DEFINE N == Len(backlog)
<1>1. N \in Nat
  OBVIOUS
<1>2. PICK f : IsFold(f, N, start, backlog) /\ ReplayOnto(start, backlog) = f[N]
  BY ReplayIs
<1> DEFINE T == {n \in Nat : n <= N => f[n] \in S[n]}
<1>3. 0 \in T
  BY <1>1, <1>2 DEF IsFold
<1>4. ASSUME NEW n \in Nat, n \in T PROVE n + 1 \in T
  <2>1. SUFFICES ASSUME n + 1 <= N PROVE f[n + 1] \in S[n + 1]
    OBVIOUS
  <2>2. f[n] \in S[n]
    BY <1>1, <1>4, <2>1
  <2>3. f[n + 1] = StepCommand(f[n], backlog[n + 1])
    BY <1>1, <1>2, <2>1 DEF IsFold
  <2>. QED BY <2>1, <2>2, <2>3
<1>5. N \in T
  <2> HIDE DEF T
  <2>. QED BY <1>1, <1>3, <1>4, NatSetInduction
<1>. QED BY <1>1, <1>2, <1>5

-----------------------------------------------------------------------------
(* Publications.                                                           *)

\* A publication carries a number; of the commands only PUB and Publish are publications.
LEMMA PublicationsAre ==
    /\ \A d \in Publications : d.payload \in Nat
    /\ \A c \in ClientCommand : c \in Publications <=> c.type = "PUB"
    /\ \A c \in ConnectionCommand : c \in Publications <=> c.type = "Publish"
<1>1. \A d \in Publications : d.payload \in Nat
  BY ConnectionAssumption DEF Publications
<1>2. ASSUME NEW c \in ClientCommand PROVE c \in Publications <=> c.type = "PUB"
  <2>1. c.type = "PUB" => c \in [type : {"PUB"}, payload : Payloads]
    BY DEF ClientCommand, Connect, Ping, Pong
  <2>2. c.type = "PUB" => c \in Publications
    BY <2>1 DEF Publications
  <2>3. c \in Publications => c.type \in {"PUB", "Publish"}
    BY DEF Publications
  <2>4. c.type # "Publish"
    BY DEF ClientCommand, Connect, Ping, Pong
  <2>. QED BY <2>2, <2>3, <2>4
<1>3. ASSUME NEW c \in ConnectionCommand PROVE c \in Publications <=> c.type = "Publish"
  <2>1. c.type = "Publish" => c \in [type : {"Publish"}, payload : Payloads]
    BY DEF ConnectionCommand
  <2>2. c.type = "Publish" => c \in Publications
    BY <2>1 DEF Publications
  <2>3. c \in Publications => c.type \in {"PUB", "Publish"}
    BY DEF Publications
  <2>4. c.type # "PUB"
    BY DEF ConnectionCommand
  <2>. QED BY <2>2, <2>3, <2>4
<1>. QED BY <1>1, <1>2, <1>3

\* What a step puts on the wire continues the order of the publications.
LEMMA StepPublishes ==
    ASSUME NEW out \in Seq(ClientCommand), NEW s \in StepState, NEW cmd \in ConnectionCommand,
           ~StepCommand(s, cmd).panicked, NEW first \in Nat, NEW mid \in Nat,
           InOrder(out \o s.buffered_transmits, Publications, first, mid)
    PROVE  LET wire == out \o StepCommand(s, cmd).buffered_transmits
           IN  /\ cmd \notin Publications => InOrder(wire, Publications, first, mid)
               /\ cmd \in Publications /\ cmd.payload = mid + 1 =>
                      InOrder(wire, Publications, first, mid + 1)
<1> DEFINE stream == out \o s.buffered_transmits
           wire   == out \o StepCommand(s, cmd).buffered_transmits
           next   == s.sid_generator
<1>1. stream \in Seq(ClientCommand) /\ next \in Nat \ {0} /\ ~s.panicked
  BY StepServesCaller DEF StepState
<1>2. ASSUME NEW q \in Seq(ClientCommand), NEW c \in ClientCommand, c.type # "PUB",
             InOrder(q, Publications, first, mid)
      PROVE  InOrder(Append(q, c), Publications, first, mid)
  BY <1>2, PublicationsAre, OrderPush
<1>3. CASE cmd.type = "Publish"
  <2> DEFINE c == Pub(cmd.payload)
  <2>1. c \in ClientCommand /\ c.type = "PUB" /\ c.payload = cmd.payload
    BY <1>3, WireTyped DEF ConnectionCommand, Pub
  <2>2. wire = Append(stream, c) /\ cmd \in Publications /\ c \in Publications
    BY <1>1, <1>3, <2>1, StepWire, PublicationsAre
  <2> HIDE DEF c, stream, wire
  <2>3. cmd.payload = mid + 1 => InOrder(Append(stream, c), Publications, first, mid + 1)
    BY <1>1, <2>1, <2>2, PublicationsAre, OrderPush DEF stream
  <2>. QED BY <2>2, <2>3 DEF wire
<1>4. CASE cmd.type = "Unsubscribe"
  <2> DEFINE c == Unsub(cmd.sid, None)
  <2>1. c \in ClientCommand /\ c.type # "PUB"
    BY <1>4, WireTyped DEF ConnectionCommand, Unsub
  <2>2. wire = Append(stream, c) /\ cmd \notin Publications
    BY <1>1, <1>4, StepWire, PublicationsAre
  <2> HIDE DEF c, stream, wire
  <2>. QED BY <1>1, <1>2, <2>1, <2>2 DEF stream, wire
<1>5. CASE cmd.type = "Subscribe"
  <2> DEFINE c == Sub(cmd.request, next)
             u == Unsub(next, cmd.max_msgs)
             sub == Append(stream, c)
  <2>1. caller[cmd.request] # "gone"
    BY <1>1, <1>5 DEF StepCommand, StepSubscribe, StepState
  <2>2. cmd.request \in Requests /\ cmd.max_msgs \in Limits \cup {None}
    BY <1>5 DEF ConnectionCommand
  <2>3. /\ c \in ClientCommand /\ c.type # "PUB"
        /\ u \in ClientCommand /\ u.type # "PUB"
    BY <1>1, <2>2, WireTyped DEF Sub, Unsub
  <2>4. /\ wire = IF cmd.max_msgs = None THEN sub ELSE Append(sub, u)
        /\ cmd \notin Publications
    BY <1>1, <1>5, <2>1, StepWire, PublicationsAre
  <2>5. sub \in Seq(ClientCommand)
    BY <1>1, <2>3
  <2> HIDE DEF c, u, stream, wire
  <2>6. InOrder(sub, Publications, first, mid)
    BY <1>1, <1>2, <2>3 DEF stream
  <2> HIDE DEF sub
  <2>7. InOrder(Append(sub, u), Publications, first, mid)
    BY <1>2, <2>3, <2>5, <2>6
  <2>. QED BY <2>4, <2>6, <2>7 DEF wire
<1>. QED BY <1>3, <1>4, <1>5 DEF ConnectionCommand

\* The replay puts the publications of the backlog on the wire in their order.
LEMMA ReplayPublishes ==
    ASSUME NEW backlog \in Seq(ConnectionCommand), answer \in [Requests -> Nat \cup {None}],
           NEW first \in Nat, NEW last \in Nat, InOrder(backlog, Publications, first, last),
           ~Replay(backlog).panicked
    PROVE  InOrder(Replay(backlog).buffered_transmits, Publications, first, last)
<1> DEFINE N == Len(backlog)
           Good(n, s) == s.panicked \/
               \E mid \in Nat : /\ InOrder(<<>> \o s.buffered_transmits, Publications, first, mid)
                                /\ OrderFrom(backlog, n, Publications, mid, last)
           S == [n \in 0..N |-> {s \in StepState : Good(n, s)}]
<1>1. N \in Nat /\ DOMAIN backlog = 1..N
  OBVIOUS
<1>2. Connected \in S[0]
  <2>1. Connected \in StepState
    BY ConnectedTyped
  <2>2. <<>> \o Connected.buffered_transmits = <<Connect>>
    BY DEF Connected, InfoReceived
  <2>3. InOrder(<<Connect>>, Publications, first, first)
    <3>1. Connect \notin Publications
      BY DEF Connect, Publications
    <3>2. \A i \in DOMAIN <<Connect>> : <<Connect>>[i] \notin Publications
      BY <3>1
    <3>. QED BY <3>2, OrderNone
  <2>4. OrderFrom(backlog, 0, Publications, first, last)
    BY OrderIs
  <2>. QED BY <1>1, <2>1, <2>2, <2>3, <2>4
<1>3. ASSUME NEW n \in Nat, n + 1 <= N, NEW s \in S[n]
      PROVE  StepCommand(s, backlog[n + 1]) \in S[n + 1]
  <2> DEFINE cmd == backlog[n + 1]
             t   == StepCommand(s, cmd)
  <2>1. n \in 0..N /\ n + 1 \in 0..N /\ n + 1 \in DOMAIN backlog
    BY <1>1, <1>3
  <2>2. s \in StepState /\ Good(n, s) /\ cmd \in ConnectionCommand
    BY <1>1, <1>3, <2>1
  <2>3. t \in StepState
    BY <2>2, StepTyped
  <2>4. ASSUME ~t.panicked
        PROVE  \E mid \in Nat : /\ InOrder(<<>> \o t.buffered_transmits, Publications, first, mid)
                                /\ OrderFrom(backlog, n + 1, Publications, mid, last)
    <3>1. ~s.panicked
      BY <2>2, <2>4, StepServesCaller
    <3>2. PICK mid \in Nat : /\ InOrder(<<>> \o s.buffered_transmits, Publications, first, mid)
                             /\ OrderFrom(backlog, n, Publications, mid, last)
      BY <2>2, <3>1
    <3>3. /\ cmd \notin Publications => OrderFrom(backlog, n + 1, Publications, mid, last)
          /\ cmd \in Publications =>
                 /\ cmd.payload = mid + 1 /\ mid + 1 <= last
                 /\ OrderFrom(backlog, n + 1, Publications, mid + 1, last)
      BY <2>1, <3>2, OrderNext, PublicationsAre
    <3> HIDE DEF t, cmd
    <3>4. <<>> \in Seq(ClientCommand) /\ mid + 1 \in Nat
      OBVIOUS
    <3>5. /\ cmd \notin Publications =>
                 InOrder(<<>> \o t.buffered_transmits, Publications, first, mid)
          /\ cmd \in Publications /\ cmd.payload = mid + 1 =>
                 InOrder(<<>> \o t.buffered_transmits, Publications, first, mid + 1)
      BY <2>2, <2>4, <3>2, <3>4, StepPublishes DEF t
    <3>. QED BY <3>3, <3>4, <3>5
  <2> HIDE DEF t
  <2>5. Good(n + 1, t)
    BY <2>4
  <2> HIDE DEF Good
  <2>6. t \in S[n + 1]
    BY <2>1, <2>3, <2>5
  <2>. QED BY <2>6 DEF t
<1>4. ReplayOnto(Connected, backlog) \in S[N]
  <2> HIDE DEF S
  <2>. QED BY <1>2, <1>3, ReplayPasses
<1> DEFINE s == ReplayOnto(Connected, backlog)
<1>5. s \in StepState /\ Good(N, s)
  BY <1>1, <1>4
<1> HIDE DEF s
<1>6. <<>> \o s.buffered_transmits = s.buffered_transmits
  BY <1>5 DEF StepState
<1>7. ~s.panicked
  BY DEF Replay, s
<1>8. PICK mid \in Nat : /\ InOrder(<<>> \o s.buffered_transmits, Publications, first, mid)
                         /\ OrderFrom(backlog, N, Publications, mid, last)
  BY <1>5, <1>7
<1>9. mid = last
  <2>1. {i \in DOMAIN backlog : i > N /\ backlog[i] \in Publications} = {}
    BY <1>1
  <2>2. mid <= last /\ (mid + 1)..last = {}
    BY <1>8, <2>1 DEF OrderFrom
  <2>3. mid + 1 <= last => mid + 1 \in (mid + 1)..last
    OBVIOUS
  <2>. QED BY <2>2, <2>3
<1>. QED BY <1>6, <1>8, <1>9 DEF Replay, s

\* The three queues a publication passes through hold consecutive runs of the calls.
InTurn ==
    \E sent, kept \in Nat :
        /\ InOrder(Ahead, Publications, server.heard, sent)
        /\ InOrder(preliminary, Publications, sent, kept)
        /\ InOrder(chan, Publications, kept, published)

Flowing == task = "running" /\ conn_state \notin Terminal /\ server.mode # "closed"

PubInv == Flowing => InTurn

\* Nothing has been published yet.
LEMMA PubInit == Init => PubInv
<1> SUFFICES ASSUME Init PROVE PubInv
  OBVIOUS
<1>1. /\ Ahead = <<>> /\ preliminary = <<>> /\ chan = <<>> /\ server.heard = 0 /\ published = 0
  <2>1. outbound = <<>> /\ buffered_transmits = <<>>
    BY DEF Init, BindingInit
  <2>2. Ahead = <<>> \o <<>>
    BY <2>1 DEF Ahead, Sent
  <2>. QED BY <2>2 DEF Init, BindingInit
<1>2. InOrder(<<>>, Publications, 0, 0)
  BY OrderNone
<1>. QED BY <1>1, <1>2 DEF PubInv, InTurn

\* A step that leaves the queues alone.
LEMMA PubQuiet ==
    ASSUME PubInv, UNCHANGED <<preliminary, chan, published>>, Ahead' = Ahead,
           server'.heard = server.heard, Flowing' => Flowing
    PROVE  PubInv'
BY DEF PubInv, InTurn

\* The loop takes a command from the queue.
LEMMA PubRecv ==
    ASSUME TInv, NoBacklog, PubInv, RecvCommand
    PROVE  PubInv'
<1> DEFINE cmd == Head(chan)
<1>1. /\ chan # <<>> /\ chan \in Seq(ConnectionCommand) /\ cmd \in ConnectionCommand
      /\ HandleClientInput(cmd) /\ UNCHANGED <<outbound, server, published>> /\ task = "running"
      /\ conn_state' # "Panicked" => chan' = Tail(chan)
  BY HeadsTyped DEF RecvCommand, Selecting, Loop, user
<1>2. server.heard \in Nat /\ published \in Nat
  BY DEF TInv, ServerTyped, ServerState, UsersTyped
<1> SUFFICES ASSUME Flowing' PROVE InTurn'
  BY DEF PubInv
<1>3. conn_state' \notin Terminal /\ conn_state \notin Terminal /\ chan' = Tail(chan)
  BY <1>1 DEF Flowing, HandleClientInput, Terminal
<1>4. PICK sent \in Nat, kept \in Nat :
          /\ InOrder(Ahead, Publications, server.heard, sent)
          /\ InOrder(preliminary, Publications, sent, kept)
          /\ InOrder(chan, Publications, kept, published)
  BY <1>1, <1>3 DEF PubInv, InTurn, Flowing
<1>5. /\ cmd \notin Publications => InOrder(chan', Publications, kept, published)
      /\ cmd \in Publications =>
             cmd.payload = kept + 1 /\ InOrder(chan', Publications, kept + 1, published)
  BY <1>1, <1>2, <1>3, <1>4, PublicationsAre, OrderPop
<1> HIDE DEF cmd
<1>6. CASE conn_state = "InfoReceived"
  <2> DEFINE s == InfoReceived(buffered_transmits, sid_generator, sid2subscriber)
             t == StepCommand(s, cmd)
  <2>1. s \in StepState /\ s.buffered_transmits = buffered_transmits
    BY DEF InfoReceived, StepState, TInv, FieldsTyped
  <2>2. Become(t)
    BY <1>1, <1>6 DEF HandleClientInput, Terminal
  <2> HIDE DEF s
  <2>3. ~t.panicked /\ preliminary' = <<>> /\ buffered_transmits' = t.buffered_transmits
    BY <1>3, <2>2 DEF Become, Leave, Terminal
  <2>4. preliminary = <<>> /\ sent = kept
    BY <1>4, <1>6, OrderEmpty DEF NoBacklog
  <2>5. /\ Ahead = Sent \o s.buffered_transmits /\ Ahead' = Sent \o t.buffered_transmits
        /\ Sent \in Seq(ClientCommand)
    BY <1>1, <2>1, <2>3, AheadTyped DEF Ahead, Sent
  <2>6. /\ cmd \notin Publications => InOrder(Ahead', Publications, server.heard, kept)
        /\ cmd \in Publications => InOrder(Ahead', Publications, server.heard, kept + 1)
    BY <1>1, <1>2, <1>4, <1>5, <2>1, <2>3, <2>4, <2>5, StepPublishes
  <2>7. kept + 1 \in Nat /\ \A n \in Nat : InOrder(preliminary', Publications, n, n)
    BY <2>3, OrderNone
  <2>. QED BY <1>1, <1>5, <2>6, <2>7 DEF InTurn
<1>7. CASE conn_state = "AwaitingInfo"
  <2>1. /\ preliminary' = Append(preliminary, cmd) /\ preliminary \in Seq(ConnectionCommand)
        /\ UNCHANGED buffered_transmits
    BY <1>1, <1>7 DEF HandleClientInput, Terminal, TInv, FieldsTyped, inner
  <2>2. Ahead' = Ahead
    BY <1>1, <2>1 DEF Ahead, Sent
  <2>3. /\ cmd \notin Publications => InOrder(preliminary', Publications, sent, kept)
        /\ cmd \in Publications => InOrder(preliminary', Publications, sent, kept + 1)
    BY <1>1, <1>4, <1>5, <2>1, PublicationsAre, OrderPush
  <2>4. kept + 1 \in Nat
    OBVIOUS
  <2>. QED BY <1>1, <1>4, <1>5, <2>2, <2>3, <2>4 DEF InTurn
<1>. QED BY <1>1, <1>3, <1>6, <1>7 DEF HandleClientInput

\* INFO moves the backlog to the transmit buffer.
LEMMA PubInfo ==
    ASSUME TInv, Unstarted, PubInv, ReceiveInfo, UNCHANGED <<outbound, server, published>>,
           task = "running", conn_state' # "Panicked" => UNCHANGED chan
    PROVE  PubInv'
<1> SUFFICES ASSUME Flowing' PROVE InTurn'
  BY DEF PubInv
<1> DEFINE s == Replay(preliminary)
<1>1. /\ conn_state = "AwaitingInfo" /\ outbound = <<>> /\ buffered_transmits = <<>> /\ Become(s)
      /\ preliminary \in Seq(ConnectionCommand) /\ answer \in [Requests -> Nat \cup {None}]
      /\ server.heard \in Nat
  BY DEF ReceiveInfo, Unstarted, TInv, FieldsTyped, ServerTyped, ServerState
<1>2. UNCHANGED chan /\ ~s.panicked /\ preliminary' = <<>> /\ buffered_transmits' = s.buffered_transmits
  BY <1>1 DEF Flowing, Become, Leave, Terminal
<1>3. PICK sent \in Nat, kept \in Nat :
          /\ InOrder(Ahead, Publications, server.heard, sent)
          /\ InOrder(preliminary, Publications, sent, kept)
          /\ InOrder(chan, Publications, kept, published)
  BY <1>1 DEF PubInv, InTurn, Flowing, Terminal
<1>4. Ahead = <<>> /\ Ahead' = s.buffered_transmits
  <2>1. Ahead = <<>> \o <<>> /\ Ahead' = <<>> \o s.buffered_transmits
    BY <1>1, <1>2 DEF Ahead, Sent
  <2>2. s.buffered_transmits \in Seq(ClientCommand)
    BY <1>1, ReplayTyped DEF StepState
  <2>. QED BY <2>1, <2>2
<1>5. sent = server.heard
  BY <1>1, <1>3, <1>4, OrderEmpty
<1>6. InOrder(Ahead', Publications, server.heard, kept)
  BY <1>1, <1>2, <1>3, <1>4, <1>5, ReplayPublishes
<1>7. InOrder(preliminary', Publications, kept, kept)
  BY <1>2, OrderNone
<1>. QED BY <1>2, <1>3, <1>6, <1>7 DEF InTurn

\* A timer puts at most a PING or a PONG behind the stream.
LEMMA TimerAhead ==
    ASSUME TInv, NEW t,
           HandleSendPingTimeout(t) \/ HandleSendPongTimeout(t) \/ HandleKeepAliveTimeout(t),
           UNCHANGED outbound
    PROVE  \/ Leave("ConnectionLost")
           \/ UNCHANGED binding /\ Ahead' = Ahead
           \/ /\ HandleSendPingTimeout(t) /\ PingDue(t) /\ Enqueue(Ping, "last_ping_sent_at", t)
              /\ conn_state = "InfoReceived" /\ Ahead' = Append(Ahead, Ping)
           \/ /\ HandleSendPongTimeout(t) /\ PongDue(t) /\ Enqueue(Pong, "last_ping_received_at", None)
              /\ conn_state = "InfoReceived" /\ Ahead' = Append(Ahead, Pong)
<1>1. CASE UNCHANGED binding
  BY <1>1 DEF Ahead, Sent, binding, inner
<1>2. ASSUME NEW c \in {Ping, Pong}, NEW field, NEW value, Enqueue(c, field, value)
      PROVE  Ahead' = Append(Ahead, c)
  <2>1. Ahead' = Sent \o Append(buffered_transmits, c)
    BY <1>2 DEF Enqueue, Ahead, Sent
  <2>2. \A p, q \in Seq(ClientCommand) : p \o Append(q, c) = Append(p \o q, c)
    BY WireTyped
  <2>. QED BY <2>1, <2>2, AheadTyped
<1>. QED BY <1>1, <1>2
         DEF HandleSendPingTimeout, HandleSendPongTimeout, HandleKeepAliveTimeout

\* One more command in the queue.
LEMMA PubOffer ==
    ASSUME TInv, PubInv, NEW cmd \in ConnectionCommand, Offer(cmd), Ahead' = Ahead,
           UNCHANGED <<preliminary, server>>, Flowing' => Flowing,
           \/ cmd.type # "Publish" /\ UNCHANGED published
           \/ cmd.type = "Publish" /\ cmd.payload = published + 1 /\ published' = published + 1
    PROVE  PubInv'
<1> SUFFICES ASSUME Flowing PROVE InTurn'
  BY DEF PubInv
<1>1. chan \in Seq(ConnectionCommand) /\ published \in Nat /\ chan' = Append(chan, cmd)
  BY HeadsTyped DEF TInv, UsersTyped, Offer
<1>2. PICK sent \in Nat, kept \in Nat :
          /\ InOrder(Ahead, Publications, server.heard, sent)
          /\ InOrder(preliminary, Publications, sent, kept)
          /\ InOrder(chan, Publications, kept, published)
  BY DEF PubInv, InTurn
<1>3. InOrder(chan', Publications, kept, published')
  BY <1>1, <1>2, PublicationsAre, OrderPush
<1>. QED BY <1>2, <1>3 DEF InTurn

\* The server takes the first command off the stream.
LEMMA PubRead ==
    ASSUME TInv, PubInv, ServerReads
    PROVE  PubInv'
<1> DEFINE cmd == Head(outbound).command
<1>1. /\ outbound # <<>> /\ outbound' = Tail(outbound) /\ server' = Serve(cmd)
      /\ UNCHANGED <<binding, task, chan, published>>
  BY DEF ServerReads, loop, user
<1>2. /\ Ahead # <<>> /\ Head(Ahead) = cmd /\ Ahead' = Tail(Ahead) /\ Ahead \in Seq(ClientCommand)
      /\ UNCHANGED <<preliminary, conn_state>>
  BY <1>1, AheadMoves, AheadTyped DEF binding, inner
<1>3. cmd \in ClientCommand
  BY <1>2
<1>4. server'.mode = server.mode /\ server.heard \in Nat /\ server \in ServerState
  BY <1>1, <1>3, ServeTyped DEF TInv, ServerTyped, ServerState
<1> HIDE DEF cmd
<1>5. server'.heard = IF cmd.type = "PUB" THEN cmd.payload ELSE server.heard
  BY <1>1, <1>4 DEF Serve, ServerState
<1> SUFFICES ASSUME Flowing PROVE InTurn'
  BY <1>1, <1>2, <1>4 DEF PubInv, Flowing
<1>6. PICK sent \in Nat, kept \in Nat :
          /\ InOrder(Ahead, Publications, server.heard, sent)
          /\ InOrder(preliminary, Publications, sent, kept)
          /\ InOrder(chan, Publications, kept, published)
  BY DEF PubInv, InTurn
<1>7. /\ cmd \notin Publications => InOrder(Ahead', Publications, server.heard, sent)
      /\ cmd \in Publications =>
             /\ cmd.payload = server.heard + 1
             /\ InOrder(Ahead', Publications, server.heard + 1, sent)
  BY <1>2, <1>4, <1>6, PublicationsAre, OrderPop
<1>8. InOrder(Ahead', Publications, server'.heard, sent)
  BY <1>3, <1>5, <1>7, PublicationsAre
<1>. QED BY <1>1, <1>2, <1>6, <1>8 DEF InTurn

\* Every step keeps the publications in their order.
LEMMA PubStep == TInv /\ RInv /\ PubInv /\ [Next]_cvars => PubInv'
<1> SUFFICES ASSUME TInv, RInv, PubInv, [Next]_cvars PROVE PubInv'
  OBVIOUS
<1>1. NoBacklog /\ Unstarted
  BY DEF RInv
<1>2. ASSUME UNCHANGED <<outbound, buffered_transmits>> PROVE Ahead' = Ahead
  BY <1>2 DEF Ahead, Sent
<1>3. ASSUME NEW state \in Terminal, Leave(state) PROVE PubInv'
  BY <1>3 DEF Leave, PubInv, Flowing
<1>4. CASE ReadCommand
  <2>1. /\ HandleServerInput(Head(inbound), now) /\ UNCHANGED <<outbound, server, published>>
        /\ task = "running" /\ (conn_state' # "Panicked" => UNCHANGED chan)
    BY <1>4 DEF ReadCommand, Selecting, Loop, user
  <2>2. CASE ReceiveInfo
    BY <1>1, <2>1, <2>2, PubInfo
  <2>3. CASE UNCHANGED <<conn_state, preliminary, buffered_transmits>>
    <3>1. Ahead' = Ahead
      BY <1>2, <2>1, <2>3
    <3>2. Flowing' => Flowing /\ UNCHANGED chan
      BY <2>1, <2>3 DEF Flowing, Terminal
    <3>. QED BY <2>1, <2>3, <3>1, <3>2, PubQuiet DEF PubInv
  <2>. QED BY <1>3, <2>1, <2>2, <2>3
           DEF HandleServerInput, ReceiveNotInfo, ReceiveMsg, DeliverWithin, ReceiveHMsg,
               ReceiveKeepAlive, Disregard, binding, inner, Terminal
<1>5. ASSUME NEW t,
             HandleSendPingTimeout(t) \/ HandleSendPongTimeout(t) \/ HandleKeepAliveTimeout(t),
             UNCHANGED <<outbound, server, published>>, task = "running",
             conn_state' # "Panicked" => UNCHANGED chan
      PROVE  PubInv'
  <2>1. CASE UNCHANGED binding /\ Ahead' = Ahead
    <3>1. Flowing' => Flowing /\ UNCHANGED chan
      BY <1>5, <2>1 DEF Flowing, Terminal, binding
    <3>. QED BY <1>5, <2>1, <3>1, PubQuiet DEF PubInv, binding
  <2>2. ASSUME NEW c \in {Ping, Pong}, NEW field, NEW value, Enqueue(c, field, value),
               Ahead' = Append(Ahead, c)
        PROVE  PubInv'
    <3>1. /\ Ahead \in Seq(ClientCommand) /\ server.heard \in Nat
          /\ c \in ClientCommand /\ c \notin Publications
      BY AheadTyped, WireTyped DEF TInv, ServerTyped, ServerState, Publications, Ping, Pong
    <3>2. Flowing' => Flowing /\ UNCHANGED <<chan, preliminary>>
      BY <1>5, <2>2 DEF Flowing, Terminal, Enqueue
    <3>. QED BY <1>5, <2>2, <3>1, <3>2, PublicationsAre, OrderPush DEF PubInv, InTurn
  <2>. QED BY <1>3, <1>5, <2>1, <2>2, TimerAhead DEF Terminal
<1>6. CASE TickPing \/ TickPong \/ TickKeepAlive
  BY <1>5, <1>6 DEF TickPing, TickPong, TickKeepAlive, Selecting, Loop, user
<1>7. CASE ReadError
  <2>1. /\ UNCHANGED <<outbound, buffered_transmits, preliminary, conn_state, server, published>>
        /\ task = "running" /\ (conn_state' # "Panicked" => UNCHANGED chan)
    BY <1>7 DEF ReadError, Selecting, Loop, binding, inner, user
  <2>2. Flowing' => Flowing /\ UNCHANGED chan
    BY <2>1 DEF Flowing, Terminal
  <2>. QED BY <1>2, <2>1, <2>2, PubQuiet DEF PubInv
<1>8. CASE ReadEof
  BY <1>8 DEF ReadEof, PubInv, Flowing
<1>9. CASE Transmit
  <2>1. /\ buffered_transmits # <<>> /\ buffered_transmits' = Tail(buffered_transmits)
        /\ UNCHANGED <<conn_state, preliminary, chan, task, server, published>>
        /\ \/ outbound' = Append(outbound, [command |-> Head(buffered_transmits), at |-> now])
           \/ server.mode = "closed"
    BY <1>9 DEF Transmit, PollTransmit, loop, user
  <2>2. CASE server.mode = "closed"
    BY <2>1, <2>2 DEF PubInv, Flowing
  <2>3. CASE server.mode # "closed"
    BY <2>1, <2>3, AheadMoves, PubQuiet DEF Flowing
  <2>. QED BY <2>2, <2>3
<1>10. CASE Greet \/ ServerPings \/ ServerGarbles \/ ServerCloses \/ ServerHangs
            \/ \E sid \in DOMAIN server.subs : ServerDelivers(sid)
  <2>1. /\ UNCHANGED <<outbound, buffered_transmits, preliminary, conn_state, chan, task, published>>
        /\ server.mode # "closed" \/ UNCHANGED server
    BY <1>10
       DEF Greet, ServerPings, ServerGarbles, ServerCloses, ServerHangs, ServerDelivers,
           ServerSends, binding, inner, loop, user
  <2>2. server \in ServerState
    BY DEF TInv, ServerTyped
  <2>3. server'.heard = server.heard
    BY <1>10, <2>2
       DEF Greet, ServerPings, ServerGarbles, ServerCloses, ServerHangs, ServerDelivers, ServerState
  <2>. QED BY <1>2, <2>1, <2>3, PubQuiet DEF Flowing
<1>11. CASE Tick \/ UNCHANGED cvars
  <2>1. UNCHANGED <<outbound, buffered_transmits, preliminary, conn_state, chan, task, published, server>>
    BY <1>11 DEF Tick, cvars, binding, inner, loop, net, user
  <2>. QED BY <1>2, <2>1, PubQuiet DEF Flowing
<1>12. ASSUME NEW r \in Requests, CallSubscribe(r) PROVE PubInv'
  <2> DEFINE cmd == Subscribe(r, MaxMsgs[r])
  <2>1. cmd \in ConnectionCommand /\ cmd.type # "Publish"
    BY ConnectionAssumption DEF Subscribe, ConnectionCommand
  <2>2. /\ UNCHANGED <<outbound, buffered_transmits, preliminary, conn_state, task, server, published>>
        /\ Offer(cmd) \/ UNCHANGED chan
    BY <1>12 DEF CallSubscribe, binding, inner, net, user
  <2> HIDE DEF cmd
  <2>. QED BY <1>2, <2>1, <2>2, PubQuiet, PubOffer DEF Flowing
<1>13. ASSUME NEW r \in Requests, DropSubscriber(r) PROVE PubInv'
  <2> DEFINE cmd == Unsubscribe(answer[r])
  <2>1. cmd \in ConnectionCommand /\ cmd.type # "Publish"
    BY <1>13 DEF DropSubscriber, TInv, HoldersAnswered, FieldsTyped, Unsubscribe, ConnectionCommand
  <2>2. /\ UNCHANGED <<outbound, buffered_transmits, preliminary, conn_state, task, server, published>>
        /\ Offer(cmd) \/ UNCHANGED chan
    BY <1>13 DEF DropSubscriber, DropReceiver, inner, net
  <2> HIDE DEF cmd
  <2>. QED BY <1>2, <2>1, <2>2, PubQuiet, PubOffer DEF Flowing
<1>14. CASE CallPublish
  <2> DEFINE cmd == Publish(published + 1)
  <2>1. cmd \in ConnectionCommand /\ cmd.type = "Publish" /\ cmd.payload = published + 1
    <3>1. published + 1 \in 1..MaxPublishes
      BY <1>14, ConnectionAssumption DEF CallPublish, TInv, UsersTyped
    <3>. QED BY <3>1, ConnectionAssumption DEF Publish, ConnectionCommand
  <2>2. /\ UNCHANGED <<outbound, buffered_transmits, preliminary, conn_state, task, server>>
        /\ \/ Offer(cmd) /\ published' = published + 1
           \/ UNCHANGED <<chan, published>>
    BY <1>14 DEF CallPublish, binding, inner, net
  <2> HIDE DEF cmd
  <2>. QED BY <1>2, <2>1, <2>2, PubQuiet, PubOffer DEF Flowing
<1>15. ASSUME NEW r \in Requests, SubscribeReturns(r) \/ NextMessage(r) \/ CancelSubscribe(r)
       PROVE  PubInv'
  <2>1. UNCHANGED <<outbound, buffered_transmits, preliminary, conn_state, chan, task, published, server>>
    BY <1>15
       DEF SubscribeReturns, NextMessage, TakeMsg, CancelSubscribe, DropReceiver, binding, inner,
           loop, net, user
  <2>. QED BY <1>2, <2>1, PubQuiet DEF Flowing
<1>. QED BY <1>1, <1>4, <1>6, <1>7, <1>8, <1>9, <1>10, <1>11, <1>12, <1>13, <1>14, <1>15,
            PubRecv, PubRead, ConnectionAssumption
         DEF Next, Run, Users, Server

\* Publications reach the server in the order of the calls, none missing and none twice:
\* for every number of them, every capacity of the queue and of the socket, and INFO
\* coming before, between or after them.
THEOREM PublicationsInOrder == Spec => []PublishedInOrder
<1>1. TInv /\ PubInv => PublishedInOrder
  <2> SUFFICES ASSUME TInv, PubInv, Flowing
               PROVE  InOrder(Ahead \o preliminary \o chan, Publications, server.heard, published)
    BY DEF PublishedInOrder, Flowing
  <2> DEFINE C == ClientCommand \cup ConnectionCommand
  <2>1. /\ Ahead \in Seq(C) /\ preliminary \in Seq(C) /\ chan \in Seq(C)
        /\ server.heard \in Nat /\ published \in Nat
    <3>1. /\ Ahead \in Seq(ClientCommand) /\ preliminary \in Seq(ConnectionCommand)
          /\ chan \in Seq(ConnectionCommand)
      BY AheadTyped, HeadsTyped DEF TInv, FieldsTyped
    <3>. QED BY <3>1 DEF TInv, ServerTyped, ServerState, UsersTyped
  <2>2. PICK sent \in Nat, kept \in Nat :
            /\ InOrder(Ahead, Publications, server.heard, sent)
            /\ InOrder(preliminary, Publications, sent, kept)
            /\ InOrder(chan, Publications, kept, published)
    BY DEF PubInv, InTurn
  <2> HIDE DEF C
  <2>3. InOrder(Ahead \o preliminary, Publications, server.heard, kept)
    BY <2>1, <2>2, PublicationsAre, OrderConcat
  <2>4. Ahead \o preliminary \in Seq(C)
    BY <2>1
  <2>. QED BY <2>1, <2>2, <2>3, <2>4, PublicationsAre, OrderConcat
<1>2. Init => RInv /\ PubInv
  BY HeededInit, OnceInit, AbreastInit, PubInit DEF RInv
<1>3. TInv /\ Heeded /\ RInv /\ PubInv /\ [Next]_cvars => RInv' /\ PubInv'
  BY HeededStep, OnceStep, AbreastStep, PubStep DEF RInv
<1>. QED BY <1>1, <1>2, <1>3, TInvInit, TInvStep, HeededInit, HeededStep, PTL DEF Spec, RInv

-----------------------------------------------------------------------------
(* Counting in a queue.                                                    *)

\* Numbers moved up by the same amount are as many.
LEMMA ShiftedCount ==
    ASSUME NEW S \in SUBSET Nat, IsFiniteSet(S), NEW k \in Nat
    PROVE  /\ IsFiniteSet({i + k : i \in S})
           /\ Cardinality({i + k : i \in S}) = Cardinality(S)
<1> DEFINE T == {i + k : i \in S}
           f == [i \in S |-> i + k]
<1>1. f \in [S -> T]
  OBVIOUS
<1>2. \A a, b \in S : f[a] = f[b] => a = b
  <2>1. \A a, b \in S : a + k = b + k => a = b
    OBVIOUS
  <2>. QED BY <2>1
<1>3. \A t \in T : \E s \in S : f[s] = t
  OBVIOUS
<1> HIDE DEF f, T
<1>4. f \in Bijection(S, T)
  BY <1>1, <1>2, <1>3 DEF Bijection, Injection, Surjection, IsInjective
<1>5. ExistsBijection(S, T)
  BY <1>4 DEF ExistsBijection
<1>6. IsFiniteSet(T) /\ Cardinality(T) = Cardinality(S)
  BY <1>5, FS_Bijection, Zenon
<1>. QED BY <1>6 DEF T

\* The count of two queues is the sum of theirs.
LEMMA CountConcat ==
    ASSUME NEW C, NEW p \in Seq(C), NEW q \in Seq(C), NEW cmd
    PROVE  /\ Count(p, cmd) \in Nat
           /\ Count(p \o q, cmd) = Count(p, cmd) + Count(q, cmd)
<1> DEFINE both == p \o q
           M  == Len(p)
           N  == Len(q)
           ap == {i \in DOMAIN p : p[i] = cmd}
           aq == {i \in DOMAIN q : q[i] = cmd}
           up == {i \in DOMAIN both : both[i] = cmd}
           sq == {i + M : i \in aq}
<1>1. /\ M \in Nat /\ N \in Nat /\ DOMAIN p = 1..M /\ DOMAIN q = 1..N
      /\ DOMAIN both = 1..(M + N)
      /\ \A i \in 1..M : both[i] = p[i]
      /\ \A i \in (M + 1)..(M + N) : both[i] = q[i - M]
  OBVIOUS
<1> HIDE DEF both, M, N
<1>2. /\ \A i \in 1..(M + N) : i \in 1..M \/ (i \in (M + 1)..(M + N) /\ i - M \in 1..N /\ i = (i - M) + M)
      /\ \A i \in 1..M : i \in 1..(M + N)
      /\ \A i \in 1..N : i + M \in 1..(M + N) /\ i + M \in (M + 1)..(M + N) /\ (i + M) - M = i
      /\ \A i \in 1..N : i + M \notin 1..M
      /\ 1..M \subseteq Nat /\ 1..N \subseteq Nat
  BY <1>1
<1>3. up = ap \cup sq
  <2>1. \A i \in up : i \in ap \/ i \in sq
    <3>1. ASSUME NEW i \in up PROVE i \in ap \/ i \in sq
      <4>1. CASE i \in 1..M
        BY <1>1, <3>1, <4>1
      <4>2. CASE i \in (M + 1)..(M + N) /\ i - M \in 1..N /\ i = (i - M) + M
        <5>1. i - M \in aq
          BY <1>1, <3>1, <4>2
        <5>. QED BY <4>2, <5>1
      <4>. QED BY <1>1, <1>2, <3>1, <4>1, <4>2
    <3>. QED BY <3>1
  <2>2. \A i \in ap : i \in up
    BY <1>1, <1>2
  <2>3. \A i \in aq : i + M \in up
    BY <1>1, <1>2
  <2>. QED BY <2>1, <2>2, <2>3
<1>4. ap \cap sq = {}
  BY <1>1, <1>2
<1>5. IsFiniteSet(ap) /\ IsFiniteSet(aq) /\ ap \subseteq Nat /\ aq \subseteq Nat
  <2>1. IsFiniteSet(1..M) /\ IsFiniteSet(1..N)
    BY <1>1, FS_Interval
  <2>. QED BY <1>1, <1>2, <2>1, FS_Subset
<1> HIDE DEF ap, aq, up
<1>6. IsFiniteSet(sq) /\ Cardinality(sq) = Cardinality(aq)
  BY <1>1, <1>5, ShiftedCount
<1>7. Cardinality(up) = Cardinality(ap) + Cardinality(sq) - 0
  <2> HIDE DEF sq
  <2>. QED BY <1>3, <1>4, <1>5, <1>6, FS_Union, FS_EmptySet
<1>8. Cardinality(ap) \in Nat /\ Cardinality(aq) \in Nat
  BY <1>5, FS_CardinalityType
<1>9. /\ Count(p, cmd) = Cardinality(ap) /\ Count(q, cmd) = Cardinality(aq)
      /\ Count(both, cmd) = Cardinality(up)
  BY DEF Count, ap, aq, up
<1>. QED BY <1>6, <1>7, <1>8, <1>9 DEF both

\* What comes into a queue, and what leaves it, is counted.
LEMMA CountIs ==
    ASSUME NEW C, NEW queue \in Seq(C), NEW cmd
    PROVE  /\ Count(<<>>, cmd) = 0 /\ Count(queue, cmd) \in Nat
           /\ \A c \in C : Count(Append(queue, c), cmd) =
                               Count(queue, cmd) + (IF c = cmd THEN 1 ELSE 0)
           /\ queue # <<>> =>
                  /\ Count(Tail(queue), cmd) \in Nat
                  /\ Count(queue, cmd) =
                         Count(Tail(queue), cmd) + (IF Head(queue) = cmd THEN 1 ELSE 0)
<1>1. ASSUME NEW c PROVE Count(<<c>>, cmd) = IF c = cmd THEN 1 ELSE 0
  <2>1. {i \in DOMAIN <<c>> : <<c>>[i] = cmd} = IF c = cmd THEN {1} ELSE {}
    OBVIOUS
  <2>. QED BY <2>1, FS_Singleton, FS_EmptySet DEF Count
<1>2. Count(<<>>, cmd) = 0
  <2>1. {i \in DOMAIN <<>> : <<>>[i] = cmd} = {}
    OBVIOUS
  <2>. QED BY <2>1, FS_EmptySet DEF Count
<1>3. Count(queue, cmd) \in Nat
  BY CountConcat
<1>4. ASSUME NEW c \in C
      PROVE  Count(Append(queue, c), cmd) = Count(queue, cmd) + (IF c = cmd THEN 1 ELSE 0)
  <2>1. <<c>> \in Seq(C) /\ Append(queue, c) = queue \o <<c>>
    OBVIOUS
  <2>2. Count(queue \o <<c>>, cmd) = Count(queue, cmd) + Count(<<c>>, cmd)
    BY <2>1, CountConcat
  <2>. QED BY <1>1, <2>1, <2>2
<1>5. ASSUME queue # <<>>
      PROVE  /\ Count(Tail(queue), cmd) \in Nat
             /\ Count(queue, cmd) =
                    Count(Tail(queue), cmd) + (IF Head(queue) = cmd THEN 1 ELSE 0)
  <2> DEFINE h == Head(queue)
             rest == Tail(queue)
  <2>1. h \in C /\ <<h>> \in Seq(C) /\ rest \in Seq(C) /\ queue = <<h>> \o rest
    BY <1>5
  <2> HIDE DEF h, rest
  <2>2. Count(queue, cmd) = Count(<<h>>, cmd) + Count(rest, cmd) /\ Count(rest, cmd) \in Nat
    BY <2>1, CountConcat
  <2>. QED BY <1>1, <2>2 DEF h, rest
<1>. QED BY <1>2, <1>3, <1>4, <1>5

-----------------------------------------------------------------------------
(* PONGs.                                                                  *)

\* A step of Step<ConnectionCommand> sends no PING and no PONG.
LEMMA StepBeatless ==
    ASSUME NEW beat \in {Ping, Pong}, NEW out \in Seq(ClientCommand),
           NEW s \in StepState, NEW cmd \in ConnectionCommand,
           ~StepCommand(s, cmd).panicked
    PROVE  Count(out \o StepCommand(s, cmd).buffered_transmits, beat)
               = Count(out \o s.buffered_transmits, beat)
<1> DEFINE stream == out \o s.buffered_transmits
           wire   == out \o StepCommand(s, cmd).buffered_transmits
           next   == s.sid_generator
<1>1. stream \in Seq(ClientCommand) /\ next \in Nat \ {0} /\ ~s.panicked
  BY StepServesCaller DEF StepState
<1>2. ASSUME NEW q \in Seq(ClientCommand), NEW c \in ClientCommand, c.type \notin {"PING", "PONG"}
      PROVE  Count(Append(q, c), beat) = Count(q, beat)
  <2>1. c # beat /\ Count(q, beat) \in Nat
    BY <1>2, CountIs DEF Ping, Pong
  <2>. QED BY <2>1, CountIs
<1>3. CASE cmd.type = "Publish"
  <2> DEFINE c == Pub(cmd.payload)
  <2>1. c \in ClientCommand /\ c.type \notin {"PING", "PONG"}
    BY <1>3, WireTyped DEF ConnectionCommand, Pub
  <2>2. wire = Append(stream, c)
    BY <1>1, <1>3, StepWire
  <2> HIDE DEF c, stream, wire
  <2>. QED BY <1>1, <1>2, <2>1, <2>2 DEF stream, wire
<1>4. CASE cmd.type = "Unsubscribe"
  <2> DEFINE c == Unsub(cmd.sid, None)
  <2>1. c \in ClientCommand /\ c.type \notin {"PING", "PONG"}
    BY <1>4, WireTyped DEF ConnectionCommand, Unsub
  <2>2. wire = Append(stream, c)
    BY <1>1, <1>4, StepWire
  <2> HIDE DEF c, stream, wire
  <2>. QED BY <1>1, <1>2, <2>1, <2>2 DEF stream, wire
<1>5. CASE cmd.type = "Subscribe"
  <2> DEFINE c == Sub(cmd.request, next)
             u == Unsub(next, cmd.max_msgs)
             sub == Append(stream, c)
  <2>1. caller[cmd.request] # "gone"
    BY <1>1, <1>5 DEF StepCommand, StepSubscribe, StepState
  <2>2. cmd.request \in Requests /\ cmd.max_msgs \in Limits \cup {None}
    BY <1>5 DEF ConnectionCommand
  <2>3. /\ c \in ClientCommand /\ c.type \notin {"PING", "PONG"}
        /\ u \in ClientCommand /\ u.type \notin {"PING", "PONG"}
    BY <1>1, <2>2, WireTyped DEF Sub, Unsub
  <2>4. wire = IF cmd.max_msgs = None THEN sub ELSE Append(sub, u)
    BY <1>1, <1>5, <2>1, StepWire
  <2>5. sub \in Seq(ClientCommand)
    BY <1>1, <2>3
  <2> HIDE DEF c, u, stream, wire
  <2>6. Count(sub, beat) = Count(stream, beat)
    BY <1>1, <1>2, <2>3 DEF stream
  <2> HIDE DEF sub
  <2>7. Count(Append(sub, u), beat) = Count(sub, beat)
    BY <1>2, <2>3, <2>5
  <2>. QED BY <2>4, <2>6, <2>7 DEF wire, stream
<1>. QED BY <1>3, <1>4, <1>5 DEF ConnectionCommand

\* Nor does the replay of the backlog.
LEMMA ReplayBeatless ==
    ASSUME NEW beat \in {Ping, Pong}, NEW backlog \in Seq(ConnectionCommand),
           answer \in [Requests -> Nat \cup {None}],
           ~Replay(backlog).panicked
    PROVE  Count(Replay(backlog).buffered_transmits, beat) = 0
<1> DEFINE S == {s \in StepState : s.panicked \/ Count(<<>> \o s.buffered_transmits, beat) = 0}
<1>1. Connected \in S
  <2>1. Connected \in StepState
    BY ConnectedTyped
  <2>2. <<>> \o Connected.buffered_transmits = Append(<<>>, Connect)
    BY DEF Connected, InfoReceived
  <2>3. <<>> \in Seq(ClientCommand) /\ Connect \in ClientCommand /\ Connect # beat
    BY WireTyped DEF Connect, Ping, Pong
  <2>4. Count(Append(<<>>, Connect), beat) = 0
    <3>1. Count(<<>>, beat) = 0
      BY <2>3, CountIs
    <3>2. ASSUME NEW q \in Seq(ClientCommand) PROVE Count(Append(q, Connect), beat) = Count(q, beat)
      <4>1. Count(q, beat) \in Nat
        BY CountIs
      <4>. QED BY <2>3, <4>1, CountIs
    <3>. QED BY <2>3, <3>1, <3>2
  <2>. QED BY <2>1, <2>2, <2>4
<1>2. ASSUME NEW s \in S, NEW cmd \in ConnectionCommand PROVE StepCommand(s, cmd) \in S
  <2>1. <<>> \in Seq(ClientCommand)
    OBVIOUS
  <2>2. StepCommand(s, cmd) \in StepState /\ (~StepCommand(s, cmd).panicked => ~s.panicked)
    BY StepTyped, StepServesCaller
  <2>3. ASSUME ~StepCommand(s, cmd).panicked
        PROVE  Count(<<>> \o StepCommand(s, cmd).buffered_transmits, beat) = 0
    <3>1. s \in StepState /\ Count(<<>> \o s.buffered_transmits, beat) = 0
      BY <2>2, <2>3
    <3> HIDE DEF S
    <3>. QED BY <2>1, <2>3, <3>1, StepBeatless
  <2>. QED BY <2>2, <2>3
<1>3. ReplayOnto(Connected, backlog) \in S
  <2> HIDE DEF S
  <2>. QED BY <1>1, <1>2, ReplayStays
<1> DEFINE s == ReplayOnto(Connected, backlog)
<1>4. s \in StepState /\ (~s.panicked => Count(<<>> \o s.buffered_transmits, beat) = 0)
  BY <1>3
<1> HIDE DEF s
<1>5. <<>> \o s.buffered_transmits = s.buffered_transmits
  BY <1>4 DEF StepState
<1>. QED BY <1>4, <1>5 DEF Replay, s

\* The two terms of NoUnsolicitedPong that are no counts of a queue.
Owed   == IF keep_alive.last_ping_received_at = None THEN 0 ELSE 1
Unread == IF task = "running" THEN Count(inbound, SPing) ELSE 0

\* The terms are numbers.
PongSum ==
    /\ Count(Ahead, Pong) \in Nat /\ Owed \in Nat /\ Unread \in Nat
    /\ server.pings \in Nat /\ server.pongs \in Nat
    /\ NoUnsolicitedPong <=>
           server.pongs + Count(Ahead, Pong) + Owed + Unread <= server.pings

\* That follows from the types, before a step and after it.
LEMMA PongTerms == TInv => PongSum
<1> SUFFICES ASSUME TInv PROVE PongSum
  OBVIOUS
<1>1. Count(Ahead, Pong) \in Nat /\ Count(inbound, SPing) \in Nat
  BY AheadTyped, HeadsTyped, CountIs
<1>2. server.pings \in Nat /\ server.pongs \in Nat
  BY DEF TInv, ServerTyped, ServerState
<1>. QED BY <1>1, <1>2 DEF PongSum, Owed, Unread, NoUnsolicitedPong

\* A step after which no more is under way than before.
LEMMA PongLess ==
    ASSUME TInv, TInv', NoUnsolicitedPong,
           server'.pings >= server.pings,
           server'.pongs + Count(Ahead', Pong) + Owed' + Unread'
               <= server.pongs + Count(Ahead, Pong) + Owed + Unread
                      + (server'.pings - server.pings)
    PROVE  NoUnsolicitedPong'
<1>1. PongSum /\ PongSum'
  BY PongTerms, PTL
<1>. QED BY <1>1 DEF PongSum

\* A step on the client's side that sends no PONG and takes no PING from the server.
LEMMA PongQuiet ==
    ASSUME TInv, TInv', NoUnsolicitedPong, UNCHANGED server,
           Count(Ahead', Pong) <= Count(Ahead, Pong), Owed' <= Owed, Unread' <= Unread
    PROVE  NoUnsolicitedPong'
<1>1. PongSum /\ PongSum'
  BY PongTerms, PTL
<1>. QED BY <1>1, PongLess DEF PongSum

\* The rest of the input holds no more PINGs, and an input that is thrown away none.
LEMMA UnreadLess ==
    ASSUME TInv, task = "running",
           \/ task' = "ended"
           \/ UNCHANGED task /\ inbound' = <<Eof>>
           \/ UNCHANGED task /\ inbound # <<>> /\ inbound' = Tail(inbound)
           \/ UNCHANGED <<task, inbound>>
    PROVE  Unread' <= Unread
<1>1. inbound \in Seq(Inbound) /\ Count(inbound, SPing) \in Nat
  BY HeadsTyped, CountIs
<1>2. Unread = Count(inbound, SPing)
  BY DEF Unread
<1>3. CASE task' = "ended"
  BY <1>1, <1>2, <1>3 DEF Unread
<1>4. CASE UNCHANGED task /\ inbound' = <<Eof>>
  <2>1. {i \in DOMAIN <<Eof>> : <<Eof>>[i] = SPing} = {}
    BY DEF Eof, SPing
  <2>2. Unread' = 0
    BY <1>4, <2>1, FS_EmptySet DEF Unread, Count
  <2>. QED BY <1>1, <1>2, <2>2
<1>5. CASE UNCHANGED task /\ inbound # <<>> /\ inbound' = Tail(inbound)
  <2>1. Count(Tail(inbound), SPing) \in Nat
    BY <1>1, <1>5, CountIs
  <2>2. Count(inbound, SPing) = Count(Tail(inbound), SPing) + (IF Head(inbound) = SPing THEN 1 ELSE 0)
    BY <1>1, <1>5, CountIs
  <2>. QED BY <1>2, <1>5, <2>1, <2>2 DEF Unread
<1>6. CASE UNCHANGED <<task, inbound>>
  BY <1>1, <1>6 DEF Unread
<1>. QED BY <1>3, <1>4, <1>5, <1>6

\* Leaving a variant drops what was buffered, and what was owed.
LEMMA LeaveBeatless ==
    ASSUME NEW beat, TInv, NEW state, Leave(state), UNCHANGED outbound
    PROVE  Count(Ahead', beat) <= Count(Ahead, beat) /\ Owed' <= Owed
<1>1. /\ Sent \in Seq(ClientCommand) /\ Ahead = Sent \o buffered_transmits
      /\ buffered_transmits \in Seq(ClientCommand)
  BY AheadTyped
<1>2. Ahead' = Sent \o <<>>
  BY DEF Leave, Ahead, Sent
<1>3. Ahead' = Sent
  BY <1>1, <1>2
<1>4. /\ Count(Ahead, beat) = Count(Sent, beat) + Count(buffered_transmits, beat)
      /\ Count(Sent, beat) \in Nat /\ Count(buffered_transmits, beat) \in Nat
  BY <1>1, CountConcat
<1>5. Owed' = 0 /\ Owed \in Nat
  BY DEF Leave, NeverHeard, Owed
<1>. QED BY <1>3, <1>4, <1>5

\* Commands from the queue, and INFO, send no PING and no PONG.
LEMMA CommandsBeatless ==
    ASSUME NEW beat \in {Ping, Pong}, TInv, Unstarted,
           (\E cmd \in ConnectionCommand : HandleClientInput(cmd)) \/ ReceiveInfo,
           UNCHANGED outbound
    PROVE  Count(Ahead', beat) <= Count(Ahead, beat) /\ Owed' <= Owed
<1>1. /\ Sent \in Seq(ClientCommand) /\ Ahead = Sent \o buffered_transmits
      /\ Count(Ahead, beat) \in Nat /\ Owed \in Nat
  BY AheadTyped, CountIs DEF Owed
<1>2. ASSUME NEW cmd \in ConnectionCommand, HandleClientInput(cmd), conn_state = "InfoReceived"
      PROVE  Count(Ahead', beat) <= Count(Ahead, beat) /\ Owed' <= Owed
  <2> DEFINE s == InfoReceived(buffered_transmits, sid_generator, sid2subscriber)
             t == StepCommand(s, cmd)
  <2>1. s \in StepState /\ s.buffered_transmits = buffered_transmits
    BY DEF InfoReceived, StepState, TInv, FieldsTyped
  <2>2. Become(t)
    BY <1>2 DEF HandleClientInput, Terminal
  <2> HIDE DEF s
  <2>3. ASSUME ~t.panicked, buffered_transmits' = t.buffered_transmits, UNCHANGED keep_alive
        PROVE  Count(Ahead', beat) <= Count(Ahead, beat) /\ Owed' <= Owed
    <3>1. Ahead' = Sent \o t.buffered_transmits
      BY <2>3 DEF Ahead, Sent
    <3>2. Count(Sent \o t.buffered_transmits, beat) = Count(Sent \o s.buffered_transmits, beat)
      BY <1>1, <2>1, <2>3, StepBeatless
    <3>3. Count(Ahead', beat) = Count(Ahead, beat)
      BY <1>1, <2>1, <3>1, <3>2
    <3>. QED BY <1>1, <2>3, <3>3 DEF Owed
  <2> HIDE DEF t
  <2>. QED BY <2>2, <2>3, LeaveBeatless DEF Become
<1>3. CASE ReceiveInfo
  <2> DEFINE s == Replay(preliminary)
  <2>1. /\ outbound = <<>> /\ Become(s)
        /\ preliminary \in Seq(ConnectionCommand) /\ answer \in [Requests -> Nat \cup {None}]
    BY <1>3 DEF ReceiveInfo, Unstarted, TInv, FieldsTyped
  <2>2. ASSUME ~s.panicked, buffered_transmits' = s.buffered_transmits, UNCHANGED keep_alive
        PROVE  Count(Ahead', beat) <= Count(Ahead, beat) /\ Owed' <= Owed
    <3>1. Ahead' = <<>> \o s.buffered_transmits /\ s.buffered_transmits \in Seq(ClientCommand)
      BY <2>1, <2>2, ReplayTyped DEF Ahead, Sent, StepState
    <3>2. Ahead' = s.buffered_transmits
      BY <3>1
    <3>3. Count(Ahead', beat) = 0
      BY <2>1, <2>2, <3>2, ReplayBeatless
    <3>. QED BY <1>1, <2>2, <3>3 DEF Owed
  <2> HIDE DEF s
  <2>. QED BY <2>1, <2>2, LeaveBeatless DEF Become
<1>4. CASE UNCHANGED <<buffered_transmits, keep_alive>>
  <2>1. Ahead' = Ahead
    BY <1>4 DEF Ahead, Sent
  <2>. QED BY <1>1, <1>4, <2>1 DEF Owed
<1>. QED BY <1>2, <1>3, <1>4 DEF HandleClientInput, inner

\* No step of the client sends a PONG that is not owed, and none of the server is more
\* than a PING.
LEMMA PongStep == TInv /\ TInv' /\ Unstarted /\ NoUnsolicitedPong /\ [Next]_cvars => NoUnsolicitedPong'
<1> SUFFICES ASSUME TInv, TInv', Unstarted, NoUnsolicitedPong, [Next]_cvars
             PROVE  NoUnsolicitedPong'
  OBVIOUS
<1>1. PongSum /\ PongSum'
  BY PongTerms, PTL
<1>2. Count(Ahead, Pong) \in Nat /\ Owed \in Nat /\ Unread \in Nat
  BY <1>1 DEF PongSum
<1>3. ASSUME UNCHANGED <<outbound, buffered_transmits>> PROVE Ahead' = Ahead
  BY <1>3 DEF Ahead, Sent
<1>4. CASE RecvCommand
  <2>1. /\ HandleClientInput(Head(chan)) /\ Head(chan) \in ConnectionCommand
        /\ UNCHANGED <<outbound, server>> /\ task = "running"
        /\ task' = "ended" \/ UNCHANGED <<task, inbound>>
    BY <1>4, HeadsTyped DEF RecvCommand, Selecting, Loop
  <2>. QED BY <2>1, CommandsBeatless, UnreadLess, PongQuiet
<1>5. CASE ReadCommand
  <2> DEFINE cmd == Head(inbound)
  <2>1. /\ HandleServerInput(cmd, now) /\ cmd \in Inbound /\ inbound # <<>>
        /\ inbound \in Seq(Inbound)
        /\ UNCHANGED <<outbound, server>> /\ task = "running"
        /\ task' = "ended" \/ (UNCHANGED task /\ inbound' = Tail(inbound))
        /\ conn_state' # "Panicked" => UNCHANGED task /\ inbound' = Tail(inbound)
    BY <1>5, HeadsTyped DEF ReadCommand, Selecting, Loop
  <2>2. Unread' <= Unread
    BY <2>1, UnreadLess
  <2>3. ASSUME NEW state, Leave(state) PROVE NoUnsolicitedPong'
    BY <2>1, <2>2, <2>3, LeaveBeatless, PongQuiet
  <2>4. CASE UNCHANGED <<buffered_transmits, keep_alive>>
    <3>1. Ahead' = Ahead /\ Owed' = Owed
      BY <1>3, <2>1, <2>4 DEF Owed
    <3>. QED BY <1>2, <2>1, <2>2, <3>1, PongQuiet
  <2>5. CASE ReceiveKeepAlive("last_pong_received_at", now)
    <3>1. keep_alive'.last_ping_received_at = keep_alive.last_ping_received_at
      BY <2>5 DEF ReceiveKeepAlive, TInv, FieldsTyped, KeepAliveState
    <3>2. Ahead' = Ahead /\ Owed' = Owed
      BY <1>3, <2>1, <2>5, <3>1 DEF Owed, ReceiveKeepAlive
    <3>. QED BY <1>2, <2>1, <2>2, <3>2, PongQuiet
  <2>6. CASE cmd.type = "PING" /\ ReceiveKeepAlive("last_ping_received_at", now)
    <3>1. cmd = SPing
      BY <2>1, <2>6
         DEF Inbound, Info, SPing, SPong, OkOrErr, Eof, Garbled, Message, HMessage
    <3>2. Count(inbound, SPing) = Count(Tail(inbound), SPing) + 1
      BY <2>1, <3>1, CountIs
    <3>3. UNCHANGED task /\ inbound' = Tail(inbound)
      BY <2>1, <2>6 DEF ReceiveKeepAlive
    <3>4. Count(Tail(inbound), SPing) \in Nat
      BY <2>1, CountIs
    <3>5. Unread' + 1 = Unread /\ Owed' <= 1
      BY <2>1, <3>2, <3>3, <3>4 DEF Unread, Owed
    <3>6. Ahead' = Ahead
      BY <1>3, <2>1, <2>6 DEF ReceiveKeepAlive
    <3>7. server.pongs' = server.pongs /\ server.pings' = server.pings
      BY <2>1
    <3>8. Count(Ahead', Pong) = Count(Ahead, Pong)
      BY <3>6
    <3>9. /\ server.pongs \in Nat /\ server.pings \in Nat /\ Count(Ahead, Pong) \in Nat
          /\ Owed \in Nat /\ Unread' \in Nat /\ Owed' \in Nat
          /\ server.pongs + Count(Ahead, Pong) + Owed + Unread <= server.pings
      BY <1>1, <1>2 DEF PongSum
    <3>10. ASSUME NEW pongs \in Nat, NEW sent \in Nat, NEW owed \in Nat, NEW unread \in Nat,
                  NEW pings \in Nat, NEW owes \in Nat, NEW rest \in Nat,
                  pongs + sent + owed + unread <= pings, rest + 1 = unread, owes <= 1
           PROVE  pongs + sent + owes + rest <= pings
      BY <3>10
    <3> HIDE DEF cmd
    <3>11. server.pongs + Count(Ahead, Pong) + Owed' + Unread' <= server.pings
      BY <1>2, <3>5, <3>9, <3>10
    <3>12. server.pongs' + Count(Ahead', Pong) + Owed' + Unread' <= server.pings'
      BY <3>7, <3>8, <3>11
    <3>. QED BY <1>1, <3>12 DEF PongSum
  <2>. QED BY <2>1, <2>2, <2>3, <2>4, <2>5, <2>6, CommandsBeatless, PongQuiet
           DEF HandleServerInput, ReceiveNotInfo, ReceiveMsg, DeliverWithin, ReceiveHMsg,
               Disregard, binding, inner
<1>6. ASSUME NEW t,
             HandleSendPingTimeout(t) \/ HandleSendPongTimeout(t) \/ HandleKeepAliveTimeout(t),
             UNCHANGED <<outbound, server>>, Unread' <= Unread
      PROVE  NoUnsolicitedPong'
  <2>1. Ahead \in Seq(ClientCommand) /\ Ping \in ClientCommand /\ Pong \in ClientCommand /\ Ping # Pong
    BY AheadTyped, WireTyped DEF Ping, Pong
  <2>2. CASE UNCHANGED binding /\ Ahead' = Ahead
    BY <1>2, <1>6, <2>2, PongQuiet DEF binding, inner, Owed
  <2>3. CASE Enqueue(Ping, "last_ping_sent_at", t) /\ Ahead' = Append(Ahead, Ping)
    <3>1. Count(Ahead', Pong) = Count(Ahead, Pong)
      BY <1>2, <2>1, <2>3, CountIs
    <3>2. Owed' = Owed
      BY <2>3 DEF Enqueue, Owed, TInv, FieldsTyped, KeepAliveState
    <3>. QED BY <1>2, <1>6, <3>1, <3>2, PongQuiet
  <2>4. CASE PongDue(t) /\ Enqueue(Pong, "last_ping_received_at", None) /\ Ahead' = Append(Ahead, Pong)
    <3>1. Count(Ahead', Pong) = Count(Ahead, Pong) + 1
      BY <2>1, <2>4, CountIs
    <3>2. Owed = 1 /\ Owed' = 0
      BY <2>4 DEF Enqueue, PongDue, Owed, TInv, FieldsTyped, KeepAliveState
    <3>. QED BY <1>1, <1>6, <3>1, <3>2 DEF PongSum
  <2>. QED BY <1>6, <2>2, <2>3, <2>4, TimerAhead, LeaveBeatless, PongQuiet
<1>7. CASE TickPing \/ TickPong \/ TickKeepAlive
  <2>1. task = "running" /\ (task' = "ended" \/ UNCHANGED <<task, inbound>>)
    BY <1>7 DEF TickPing, TickPong, TickKeepAlive, Selecting, Loop
  <2>. QED BY <1>6, <1>7, <2>1, UnreadLess DEF TickPing, TickPong, TickKeepAlive
<1>8. CASE ReadError
  <2>1. /\ UNCHANGED <<outbound, buffered_transmits, keep_alive, server>> /\ task = "running"
        /\ task' = "ended" \/ (UNCHANGED task /\ inbound' = <<Eof>>)
    BY <1>8 DEF ReadError, Selecting, Loop, binding, inner
  <2>2. Ahead' = Ahead /\ Owed' = Owed
    BY <1>3, <2>1 DEF Owed
  <2>. QED BY <1>2, <2>1, <2>2, UnreadLess, PongQuiet
<1>9. CASE ReadEof
  <2>1. task = "running" /\ task' = "ended" /\ Leave(conn_state) /\ UNCHANGED <<outbound, server>>
    BY <1>9 DEF ReadEof, Selecting
  <2>. QED BY <2>1, UnreadLess, LeaveBeatless, PongQuiet
<1>10. CASE Transmit
  <2>1. /\ buffered_transmits # <<>> /\ buffered_transmits' = Tail(buffered_transmits)
        /\ UNCHANGED <<task, inbound, server, keep_alive>>
        /\ \/ outbound' = Append(outbound, [command |-> Head(buffered_transmits), at |-> now])
           \/ UNCHANGED outbound
    BY <1>10 DEF Transmit, PollTransmit, loop
  <2>2. Owed' = Owed /\ Unread' = Unread
    BY <2>1 DEF Owed, Unread
  <2>3. Count(Ahead', Pong) <= Count(Ahead, Pong)
    <3>1. CASE UNCHANGED outbound
      <4> DEFINE rest == Tail(buffered_transmits)
      <4>1. /\ Sent \in Seq(ClientCommand) /\ buffered_transmits \in Seq(ClientCommand)
            /\ rest \in Seq(ClientCommand)
            /\ Ahead = Sent \o buffered_transmits /\ Ahead' = Sent \o rest
        BY <2>1, <3>1, AheadTyped DEF Ahead, Sent
      <4>2. /\ Count(rest, Pong) \in Nat
            /\ Count(buffered_transmits, Pong) =
                   Count(rest, Pong) + (IF Head(buffered_transmits) = Pong THEN 1 ELSE 0)
        BY <2>1, <4>1, CountIs
      <4> HIDE DEF rest
      <4>3. /\ Count(Ahead, Pong) = Count(Sent, Pong) + Count(buffered_transmits, Pong)
            /\ Count(Ahead', Pong) = Count(Sent, Pong) + Count(rest, Pong)
            /\ Count(Sent, Pong) \in Nat
        BY <4>1, CountConcat
      <4>. QED BY <4>2, <4>3
    <3>. QED BY <1>2, <2>1, <3>1, AheadMoves
  <2>. QED BY <1>2, <2>1, <2>2, <2>3, PongQuiet
<1>11. CASE ServerReads
  <2> DEFINE cmd == Head(outbound).command
  <2>1. /\ outbound # <<>> /\ outbound' = Tail(outbound) /\ server' = Serve(cmd)
        /\ UNCHANGED <<binding, task>>
        /\ inbound' = Append(inbound, SPong) \/ UNCHANGED inbound
    BY <1>11 DEF ServerReads, loop
  <2>2. /\ Ahead # <<>> /\ Head(Ahead) = cmd /\ Ahead' = Tail(Ahead) /\ Ahead \in Seq(ClientCommand)
    BY <2>1, AheadMoves, AheadTyped DEF binding, inner
  <2>3. cmd \in ClientCommand
    BY <2>2
  <2>4. Count(Ahead, Pong) = Count(Ahead', Pong) + (IF cmd = Pong THEN 1 ELSE 0)
    BY <2>2, CountIs
  <2> HIDE DEF cmd
  <2>5. /\ server'.pings = server.pings
        /\ server'.pongs = server.pongs + (IF cmd = Pong THEN 1 ELSE 0)
    <3>1. server \in ServerState
      BY DEF TInv, ServerTyped
    <3>2. cmd.type = "PONG" <=> cmd = Pong
      BY <2>3 DEF ClientCommand, Connect, Ping, Pong
    <3>. QED BY <2>1, <3>1, <3>2 DEF Serve, ServerState
  <2>6. Unread' = Unread /\ Owed' = Owed
    <3>1. inbound \in Seq(Inbound) /\ SPong \in Inbound /\ SPong # SPing
      BY HeadsTyped DEF Inbound, SPing, SPong
    <3>2. Count(Append(inbound, SPong), SPing) = Count(inbound, SPing)
      <4>1. Count(inbound, SPing) \in Nat
        BY <3>1, CountIs
      <4>. QED BY <3>1, <4>1, CountIs
    <3>. QED BY <2>1, <3>2 DEF Unread, Owed, binding, inner
  <2>. QED BY <1>1, <2>4, <2>5, <2>6 DEF PongSum
<1>12. CASE ServerPings
  <2>1. /\ server' = [server EXCEPT !.pings = server.pings + 1] /\ task = "running"
        /\ inbound' = Append(inbound, SPing) /\ UNCHANGED <<binding, task, outbound>>
    BY <1>12 DEF ServerPings, ServerSends, loop
  <2>2. server'.pings = server.pings + 1 /\ server'.pongs = server.pongs
    BY <2>1 DEF TInv, ServerTyped, ServerState
  <2>3. Ahead' = Ahead /\ Owed' = Owed
    BY <1>3, <2>1 DEF Owed, binding, inner
  <2>4. Unread' = Unread + 1
    <3>1. inbound \in Seq(Inbound) /\ SPing \in Inbound
      BY HeadsTyped DEF Inbound
    <3>2. Count(Append(inbound, SPing), SPing) = Count(inbound, SPing) + 1
      BY <3>1, CountIs
    <3>. QED BY <2>1, <3>2 DEF Unread
  <2>. QED BY <1>1, <2>2, <2>3, <2>4 DEF PongSum
<1>13. CASE Greet \/ ServerGarbles \/ ServerCloses \/ ServerHangs
            \/ \E sid \in DOMAIN server.subs : ServerDelivers(sid)
  <2>1. /\ UNCHANGED <<binding, task, outbound>>
        /\ UNCHANGED inbound
           \/ \E item : item # SPing /\ item \in Inbound /\ inbound' = Append(inbound, item)
    <3>1. ASSUME NEW sid \in DOMAIN server.subs, ServerDelivers(sid)
          PROVE  \E item : item # SPing /\ item \in Inbound /\ inbound' = Append(inbound, item)
      <4> DEFINE serial == server.serials[sid] + 1
                 msg  == [type |-> "MSG", sid |-> sid, payload |-> serial]
                 hmsg == [type |-> "HMSG", sid |-> sid, payload |-> serial]
      <4>1. sid \in Nat /\ serial \in Payloads
        <5>1. sid \in Nat /\ server.serials[sid] \in Nat
          BY BySidIs DEF TInv, ServerTyped, ServerState
        <5>. QED BY <3>1, <5>1, ConnectionAssumption DEF ServerDelivers
      <4>2. msg \in Inbound /\ hmsg \in Inbound /\ msg # SPing /\ hmsg # SPing
        BY <4>1 DEF Inbound, Message, HMessage, SPing
      <4>3. inbound' = Append(inbound, msg) \/ inbound' = Append(inbound, hmsg)
        BY <3>1 DEF ServerDelivers, ServerSends
      <4>. QED BY <4>2, <4>3
    <3>2. /\ Info \in Inbound /\ OkOrErr \in Inbound /\ Garbled \in Inbound /\ Eof \in Inbound
          /\ SPing \notin {Info, OkOrErr, Garbled, Eof}
      BY DEF Inbound, Info, OkOrErr, Garbled, Eof, SPing
    <3>3. CASE Greet \/ ServerGarbles \/ ServerCloses \/ ServerHangs
      BY <3>2, <3>3 DEF Greet, ServerGarbles, ServerCloses, ServerHangs, ServerSends, loop
    <3>4. CASE \E sid \in DOMAIN server.subs : ServerDelivers(sid)
      BY <3>1, <3>4 DEF ServerDelivers, ServerSends, loop
    <3>. QED BY <1>13, <3>3, <3>4
  <2>2. server'.pings = server.pings /\ server'.pongs = server.pongs
    BY <1>13
       DEF Greet, ServerGarbles, ServerCloses, ServerHangs, ServerDelivers, ServerState, TInv,
           ServerTyped
  <2>3. Ahead' = Ahead /\ Owed' = Owed
    BY <1>3, <2>1 DEF Owed, binding, inner
  <2>4. Unread' = Unread
    <3>1. ASSUME NEW item \in Inbound, item # SPing
          PROVE  Count(Append(inbound, item), SPing) = Count(inbound, SPing)
      <4>1. inbound \in Seq(Inbound) /\ Count(inbound, SPing) \in Nat
        BY HeadsTyped, CountIs
      <4>. QED BY <3>1, <4>1, CountIs
    <3>. QED BY <2>1, <3>1 DEF Unread
  <2>. QED BY <1>1, <2>2, <2>3, <2>4 DEF PongSum
<1>14. CASE Users \/ Tick \/ UNCHANGED cvars
  <2>1. UNCHANGED <<outbound, buffered_transmits, keep_alive, task, inbound, server>>
    BY <1>14
       DEF Users, CallSubscribe, SubscribeReturns, NextMessage, TakeMsg, CancelSubscribe,
           DropSubscriber, DropReceiver, CallPublish, Tick, cvars, binding, inner, loop, net
  <2>2. Ahead' = Ahead /\ Owed' = Owed /\ Unread' = Unread
    BY <1>3, <2>1 DEF Owed, Unread
  <2>. QED BY <1>2, <2>1, <2>2, PongQuiet
<1>. QED BY <1>4, <1>5, <1>7, <1>8, <1>9, <1>10, <1>11, <1>12, <1>13, <1>14 DEF Next, Run, Server

\* Never more PONGs than PINGs received: for every number of PINGs, in every interleaving
\* of the timers with the input and the socket.
THEOREM PongsSolicited == Spec => []NoUnsolicitedPong
<1>1. Init => NoUnsolicitedPong
  <2> SUFFICES ASSUME Init PROVE NoUnsolicitedPong
    OBVIOUS
  <2>1. TInv
    BY TInvInit
  <2>2. Ahead = <<>> /\ inbound = <<>>
    <3>1. outbound = <<>> /\ buffered_transmits = <<>>
      BY DEF Init, BindingInit
    <3>2. Ahead = <<>> \o <<>>
      BY <3>1 DEF Ahead, Sent
    <3>. QED BY <3>2 DEF Init
  <2>3. Count(<<>>, Pong) = 0 /\ Count(<<>>, SPing) = 0
    <3>1. <<>> \in Seq(Nat)
      OBVIOUS
    <3>. QED BY <3>1, CountIs
  <2>4. keep_alive.last_ping_received_at = None
    BY DEF Init, BindingInit, NeverHeard
  <2>. QED BY <2>2, <2>3, <2>4 DEF Init, NoUnsolicitedPong
<1>2. Init => RInv
  BY HeededInit, OnceInit, AbreastInit DEF RInv
<1>3. TInv /\ Heeded /\ RInv /\ [Next]_cvars => RInv'
  BY HeededStep, OnceStep, AbreastStep DEF RInv
<1>4. RInv => Unstarted
  BY DEF RInv
<1>. QED BY <1>1, <1>2, <1>3, <1>4, PongStep, TInvInit, TInvStep, HeededInit, HeededStep, PTL
         DEF Spec, RInv

-----------------------------------------------------------------------------
(* Sids.                                                                   *)

\* Each SUB of a stream names a sid of its own, given out and not served before.
Announces(stream, next, served) ==
    /\ \A i \in DOMAIN stream :
           stream[i].type = "SUB" => stream[i].sid < next /\ stream[i].sid \notin served
    /\ \A i, j \in DOMAIN stream :
           stream[i].type = "SUB" /\ stream[j].type = "SUB" /\ stream[i].sid = stream[j].sid => i = j

\* Each answer is a sid given out, to one request, and the table routes by the answers.
Told(next, table, answers) ==
    /\ \A r \in Requests : answers[r] # None => answers[r] < next
    /\ \A q, r \in Requests : answers[q] # None /\ answers[q] = answers[r] => q = r
    /\ \A sid \in DOMAIN table : answers[table[sid]] = sid
    /\ \A r \in Requests : caller[r] = "live" /\ answers[r] # None => answers[r] \in DOMAIN table

\* One more command.
LEMMA AnnouncesPush ==
    ASSUME NEW stream \in Seq(ClientCommand), NEW c \in ClientCommand, NEW next \in Nat,
           NEW served, Announces(stream, next, served)
    PROVE  /\ c.type # "SUB" => Announces(Append(stream, c), next, served)
           /\ c.type = "SUB" /\ c.sid = next /\ next \notin served =>
                  Announces(Append(stream, c), next + 1, served)
<1> DEFINE longer == Append(stream, c)
           N == Len(stream)
<1>1. /\ N \in Nat /\ DOMAIN stream = 1..N /\ DOMAIN longer = 1..(N + 1)
      /\ \A i \in 1..N : longer[i] = stream[i]
      /\ longer[N + 1] = c
  BY Pushed
<1>2. \A i \in 1..N : stream[i].type = "SUB" => stream[i].sid \in Nat
  BY <1>1 DEF ClientCommand, Connect, Ping, Pong
<1> HIDE DEF longer, N
<1>3. \A i \in 1..(N + 1) : i \in 1..N \/ i = N + 1
  BY <1>1
<1>4. ASSUME c.type # "SUB" PROVE Announces(longer, next, served)
  BY <1>1, <1>3, <1>4 DEF Announces
<1>5. ASSUME c.type = "SUB", c.sid = next, next \notin served
      PROVE  Announces(longer, next + 1, served)
  <2>1. \A i \in 1..N : stream[i].type = "SUB" =>
            stream[i].sid < next + 1 /\ stream[i].sid # next /\ stream[i].sid \notin served
    BY <1>1, <1>2 DEF Announces
  <2>2. next < next + 1
    OBVIOUS
  <2>. QED BY <1>1, <1>3, <1>5, <2>1, <2>2 DEF Announces
<1>. QED BY <1>4, <1>5 DEF longer

\* The first command taken off the stream, and served.
LEMMA AnnouncesPop ==
    ASSUME NEW stream \in Seq(ClientCommand), stream # <<>>, NEW next, NEW served, NEW after,
           Announces(stream, next, served),
           \/ after = served
           \/ Head(stream).type = "SUB" /\ after = served \cup {Head(stream).sid}
    PROVE  Announces(Tail(stream), next, after)
<1> DEFINE N == Len(stream)
           rest == Tail(stream)
<1>1. /\ N \in Nat \ {0} /\ DOMAIN stream = 1..N /\ DOMAIN rest = 1..(N - 1)
      /\ \A i \in 1..(N - 1) : rest[i] = stream[i + 1]
      /\ stream[1] = Head(stream)
  OBVIOUS
<1> HIDE DEF rest, N
<1>2. 1 \in 1..N /\ \A i \in 1..(N - 1) : i + 1 \in 1..N /\ i + 1 # 1
  BY <1>1
<1>3. ASSUME NEW i \in DOMAIN rest, rest[i].type = "SUB"
      PROVE  rest[i].sid < next /\ rest[i].sid \notin after
  <2>1. i + 1 \in DOMAIN stream /\ i + 1 # 1 /\ 1 \in DOMAIN stream /\ stream[i + 1] = rest[i]
    BY <1>1, <1>2, <1>3, Zenon
  <2>2. rest[i].sid < next /\ rest[i].sid \notin served
    BY <1>3, <2>1, Zenon DEF Announces
  <2>3. stream[1].type = "SUB" => rest[i].sid # stream[1].sid
    BY <1>3, <2>1, Zenon DEF Announces
  <2>. QED BY <1>1, <2>2, <2>3
<1>4. ASSUME NEW i \in DOMAIN rest, NEW j \in DOMAIN rest,
             rest[i].type = "SUB", rest[j].type = "SUB", rest[i].sid = rest[j].sid
      PROVE  i = j
  <2>1. i + 1 = j + 1
    BY <1>1, <1>2, <1>4 DEF Announces
  <2>. QED BY <1>1, <2>1
<1>. QED BY <1>3, <1>4 DEF Announces, rest

\* A step gives out the next sid, if its command is an Unsubscribe for nobody living, or
\* the request of its command has no answer yet.
LEMMA StepTold ==
    ASSUME NEW out \in Seq(ClientCommand), NEW s \in StepState, NEW cmd \in ConnectionCommand,
           cmd.type = "Subscribe" => s.answer[cmd.request] = None,
           cmd.type = "Unsubscribe" =>
               \E q \in Requests : s.answer[q] = cmd.sid /\ caller[q] = "gone",
           ~StepCommand(s, cmd).panicked, Told(s.sid_generator, s.sid2subscriber, s.answer)
    PROVE  LET t == StepCommand(s, cmd)
           IN  /\ Told(t.sid_generator, t.sid2subscriber, t.answer)
               /\ s.sid_generator <= t.sid_generator
               /\ \A served : Announces(out \o s.buffered_transmits, s.sid_generator, served)
                                  /\ s.sid_generator \notin served
                      => Announces(out \o t.buffered_transmits, t.sid_generator, served)
<1> DEFINE t      == StepCommand(s, cmd)
           stream == out \o s.buffered_transmits
           wire   == out \o t.buffered_transmits
           next   == s.sid_generator
           table  == s.sid2subscriber
<1>1. /\ stream \in Seq(ClientCommand) /\ next \in Nat \ {0} /\ table \in Table
      /\ s.answer \in [Requests -> Nat \cup {None}] /\ next <= next
  BY DEF StepState
<1>2. ~s.panicked
  BY StepServesCaller
<1>3. CASE cmd.type = "Publish"
  <2> DEFINE c == Pub(cmd.payload)
  <2>1. c \in ClientCommand /\ c.type # "SUB"
    BY <1>3, WireTyped DEF ConnectionCommand, Pub
  <2>2. wire = Append(stream, c) /\ t.sid2subscriber = table /\ t.sid_generator = next /\ t.answer = s.answer
    BY <1>2, <1>3, StepWire
  <2> HIDE DEF c, stream, wire, t
  <2>3. \A served : Announces(stream, next, served) => Announces(Append(stream, c), next, served)
    BY <1>1, <2>1, AnnouncesPush
  <2>. QED BY <1>1, <2>2, <2>3 DEF stream, wire, t
<1>4. CASE cmd.type = "Unsubscribe"
  <2> DEFINE c == Unsub(cmd.sid, None)
             smaller == Without(table, cmd.sid)
  <2>1. c \in ClientCommand /\ c.type # "SUB"
    BY <1>4, WireTyped DEF ConnectionCommand, Unsub
  <2>2. wire = Append(stream, c) /\ t.sid2subscriber = smaller /\ t.sid_generator = next /\ t.answer = s.answer
    BY <1>2, <1>4, StepWire
  <2>3. Told(next, smaller, s.answer)
    <3>1. PICK q \in Requests : s.answer[q] = cmd.sid /\ caller[q] = "gone"
      BY <1>4
    <3>2. /\ DOMAIN smaller = DOMAIN table \ {cmd.sid}
          /\ \A sid \in DOMAIN smaller : smaller[sid] = table[sid]
      BY DEF Without
    <3>3. cmd.sid # None
      BY <1>4, NoneAssumption DEF ConnectionCommand
    <3> HIDE DEF smaller
    <3>. QED BY <3>1, <3>2, <3>3 DEF Told
  <2> HIDE DEF c, stream, wire, t, smaller
  <2>4. \A served : Announces(stream, next, served) => Announces(Append(stream, c), next, served)
    BY <1>1, <2>1, AnnouncesPush
  <2>. QED BY <1>1, <2>2, <2>3, <2>4 DEF stream, wire, t
<1>5. CASE cmd.type = "Subscribe"
  <2> DEFINE r == cmd.request
             c == Sub(r, next)
             u == Unsub(next, cmd.max_msgs)
             longer == Append(stream, c)
             larger == Extend(table, next, r)
             told   == [s.answer EXCEPT ![r] = next]
  <2>1. caller[r] # "gone"
    BY <1>2, <1>5 DEF StepCommand, StepSubscribe, StepState
  <2>2. r \in Requests /\ cmd.max_msgs \in Limits \cup {None}
    BY <1>5 DEF ConnectionCommand
  <2>3. /\ c \in ClientCommand /\ longer \in Seq(ClientCommand) /\ c.type = "SUB" /\ c.sid = next
        /\ u \in ClientCommand /\ u.type # "SUB"
    BY <1>1, <2>2, WireTyped DEF Sub, Unsub
  <2>4. /\ wire = IF cmd.max_msgs = None THEN longer ELSE Append(longer, u)
        /\ t.sid2subscriber = larger /\ t.answer = told /\ t.sid_generator = next + 1
    BY <1>2, <1>5, <2>1, StepWire
  <2>5. Told(next + 1, larger, told)
    <3>1. /\ told[r] = next /\ \A q \in Requests : q # r => told[q] = s.answer[q]
          /\ DOMAIN larger = DOMAIN table \cup {next} /\ larger[next] = r
          /\ \A sid \in DOMAIN table : sid # next => larger[sid] = table[sid]
      BY <1>1, <2>2 DEF Extend
    <3>2. /\ \A q \in Requests : s.answer[q] # None => s.answer[q] < next + 1 /\ s.answer[q] # next
          /\ next < next + 1 /\ next # None
      BY <1>1, NoneAssumption DEF Told
    <3>3. \A sid \in DOMAIN table : /\ sid # next /\ sid # None /\ table[sid] \in Requests
                                    /\ table[sid] # r
      <4>1. \A sid \in DOMAIN table : sid \in Nat /\ table[sid] \in Requests
        BY <1>1, TableIs
      <4>. QED BY <1>5, <3>2, <4>1, NoneAssumption DEF Told
    <3> HIDE DEF larger, told, r
    <3>4. ASSUME NEW q \in Requests, told[q] # None PROVE told[q] < next + 1
      BY <3>1, <3>2, <3>4
    <3>5. ASSUME NEW p \in Requests, NEW q \in Requests, told[p] # None, told[p] = told[q]
          PROVE  p = q
      BY <3>1, <3>2, <3>5 DEF Told
    <3>6. ASSUME NEW sid \in DOMAIN larger PROVE told[larger[sid]] = sid
      BY <3>1, <3>3 DEF Told
    <3>7. ASSUME NEW q \in Requests, caller[q] = "live", told[q] # None PROVE told[q] \in DOMAIN larger
      BY <3>1, <3>7 DEF Told
    <3>. QED BY <3>4, <3>5, <3>6, <3>7 DEF Told
  <2> HIDE DEF c, u, stream, wire, t, larger, told
  <2>6. \A served : Announces(stream, next, served) /\ next \notin served
                        => Announces(longer, next + 1, served)
    BY <1>1, <2>3, AnnouncesPush
  <2> HIDE DEF longer
  <2>7. \A served : Announces(longer, next + 1, served) => Announces(Append(longer, u), next + 1, served)
    BY <1>1, <2>3, AnnouncesPush
  <2>8. next <= next + 1
    BY <1>1
  <2>. QED BY <2>4, <2>5, <2>6, <2>7, <2>8 DEF stream, wire, t
<1>. QED BY <1>3, <1>4, <1>5 DEF ConnectionCommand

\* A backlog of no Unsubscribe, replayed before anything has been answered or served.
LEMMA ReplayTold ==
    ASSUME NEW backlog \in Seq(ConnectionCommand), answer \in [Requests -> Nat \cup {None}],
           \A r \in Requests : Single(backlog, r) /\ answer[r] = None,
           \A i \in DOMAIN backlog : backlog[i].type # "Unsubscribe",
           ~Replay(backlog).panicked
    PROVE  LET s == Replay(backlog)
           IN  /\ Told(s.sid_generator, s.sid2subscriber, s.answer)
               /\ Announces(s.buffered_transmits, s.sid_generator, {})
<1> DEFINE N == Len(backlog)
           Unmet(n, s) == \A i \in (n + 1)..N : backlog[i].type = "Subscribe" =>
                              s.answer[backlog[i].request] = None
           Upright(s)  == /\ Told(s.sid_generator, s.sid2subscriber, s.answer)
                          /\ Announces(<<>> \o s.buffered_transmits, s.sid_generator, {})
           Good(n, s)  == s.panicked \/ (Upright(s) /\ Unmet(n, s))
           S == [n \in 0..N |-> {s \in StepState : Good(n, s)}]
<1>1. /\ N \in Nat /\ DOMAIN backlog = 1..N
      /\ \A i \in 1..N : /\ backlog[i] \in ConnectionCommand
                         /\ backlog[i].type = "Subscribe" => backlog[i].request \in Requests
  BY DEF ConnectionCommand
<1>2. Connected \in S[0]
  <2>1. Connected \in StepState /\ Connected.answer = answer
    BY ConnectedTyped
  <2>2. /\ <<>> \o Connected.buffered_transmits = <<Connect>>
        /\ Connected.sid2subscriber = NoSubscribers
    BY DEF Connected, InfoReceived
  <2>3. Upright(Connected)
    BY <2>1, <2>2 DEF Told, Announces, Connect, NoSubscribers
  <2>4. Unmet(0, Connected)
    BY <1>1, <2>1
  <2>. QED BY <1>1, <2>1, <2>3, <2>4
<1>3. ASSUME NEW n \in Nat, n + 1 <= N, NEW s \in S[n]
      PROVE  StepCommand(s, backlog[n + 1]) \in S[n + 1]
  <2> DEFINE cmd == backlog[n + 1]
             t   == StepCommand(s, cmd)
  <2>1. n \in 0..N /\ n + 1 \in 0..N /\ n + 1 \in DOMAIN backlog /\ n + 1 \in (n + 1)..N
    BY <1>1, <1>3
  <2>2. s \in StepState /\ Good(n, s) /\ cmd \in ConnectionCommand /\ cmd.type # "Unsubscribe"
    BY <1>1, <1>3, <2>1
  <2>3. t \in StepState
    BY <2>2, StepTyped
  <2>4. ASSUME ~t.panicked PROVE Upright(t) /\ Unmet(n + 1, t)
    <3>1. ~s.panicked
      BY <2>2, <2>4, StepServesCaller
    <3>2. Upright(s) /\ Unmet(n, s)
      BY <2>2, <3>1
    <3>3. cmd.type = "Subscribe" => s.answer[cmd.request] = None
      BY <2>1, <3>2
    <3>4. s.sid_generator \notin {} /\ <<>> \in Seq(ClientCommand)
      OBVIOUS
    <3>5. \A r \in Requests :
              t.answer[r] = s.answer[r] \/ (cmd.type = "Subscribe" /\ r = cmd.request)
      BY <2>2, StepAnswers
    <3>6. \A i \in 1..N : i # n + 1 /\ backlog[i].type = "Subscribe" /\ cmd.type = "Subscribe"
                            => backlog[i].request # cmd.request
      BY <1>1, <2>1 DEF Single, Asks
    <3> HIDE DEF t, cmd
    <3>7. Upright(t)
      BY <2>2, <2>4, <3>2, <3>3, <3>4, StepTold DEF t
    <3>8. Unmet(n + 1, t)
      <4>1. \A i \in ((n + 1) + 1)..N : i \in (n + 1)..N /\ i \in 1..N /\ i # n + 1
        BY <1>1
      <4> HIDE DEF N
      <4>2. ASSUME NEW i \in ((n + 1) + 1)..N, backlog[i].type = "Subscribe"
            PROVE  t.answer[backlog[i].request] = None
        <5>1. i \in (n + 1)..N /\ i \in 1..N /\ i # n + 1
          BY <4>1, Zenon
        <5>2. s.answer[backlog[i].request] = None
          BY <3>2, <4>2, <5>1, Zenon
        <5>3. backlog[i].request \in Requests
          BY <1>1, <4>2, <5>1, Zenon
        <5>4. ~(cmd.type = "Subscribe" /\ backlog[i].request = cmd.request)
          BY <3>6, <4>2, <5>1, Zenon
        <5>. QED BY <3>5, <5>2, <5>3, <5>4, Zenon
      <4>. QED BY <4>2, Zenon
    <3>. QED BY <3>7, <3>8
  <2> HIDE DEF t
  <2>5. Good(n + 1, t)
    BY <2>4
  <2> HIDE DEF Good
  <2>6. t \in S[n + 1]
    BY <2>1, <2>3, <2>5
  <2>. QED BY <2>6 DEF t
<1>4. ReplayOnto(Connected, backlog) \in S[N]
  <2> HIDE DEF S
  <2>. QED BY <1>2, <1>3, ReplayPasses
<1> DEFINE s == ReplayOnto(Connected, backlog)
<1>5. s \in StepState /\ Good(N, s)
  BY <1>1, <1>4
<1> HIDE DEF s
<1>6. <<>> \o s.buffered_transmits = s.buffered_transmits
  BY <1>5 DEF StepState
<1>. QED BY <1>5, <1>6 DEF Replay, s

-----------------------------------------------------------------------------
(* What is so of the sids in every state.                                  *)

\* An Unsubscribe comes from a Subscriber that was dropped.
Backed == {cmd \in ConnectionCommand :
               cmd.type = "Unsubscribe" =>
                   \E q \in Requests : answer[q] = cmd.sid /\ caller[q] = "gone"}
AllBacked == chan \in Seq(Backed) /\ preliminary \in Seq(Backed)

\* Nobody has an answer before INFO, and nothing has been served.
Unanswered ==
    conn_state = "AwaitingInfo" =>
        (\A r \in Requests : answer[r] = None) /\ DOMAIN server.serials = {}

\* While the connection lasts; a socket that is closed takes commands from the stream.
Sids ==
    Live => /\ Told(sid_generator, sid2subscriber, answer)
            /\ \A sid \in DOMAIN server.serials : sid < sid_generator
            /\ server.mode # "closed" => Announces(Ahead, sid_generator, DOMAIN server.serials)

\* They hold of a connection that has not started.
LEMMA SidsInit == Init => AllBacked /\ Unanswered /\ Sids
<1> SUFFICES ASSUME Init PROVE AllBacked /\ Unanswered /\ Sids
  OBVIOUS
<1>1. chan = <<>> /\ preliminary = <<>> /\ conn_state = "AwaitingInfo"
  BY DEF Init, BindingInit
<1>2. (\A r \in Requests : answer[r] = None) /\ DOMAIN server.serials = {}
  BY DEF Init, BindingInit, NoSubscribers
<1>3. <<>> \in Seq(Backed)
  OBVIOUS
<1>. QED BY <1>1, <1>2, <1>3 DEF AllBacked, Unanswered, Sids, Live

\* A caller that is gone stays gone, and a wait begins with no answer.
LEMMA CallersStep ==
    ASSUME TInv, AllOnce, [Next]_cvars, NEW r \in Requests
    PROVE  /\ caller[r] = "gone" => caller'[r] = "gone"
           /\ caller'[r] = "live" /\ answer[r] # None => caller[r] = "live"
<1>1. /\ caller \in [Requests -> {"idle", "live", "gone"}]
      /\ caller[r] = "idle" => answer[r] = None
  BY DEF TInv, CallerTyped, AllOnce, AskedOnce
<1>2. CASE UNCHANGED caller
  BY <1>2
<1>3. ASSUME NEW q \in Requests, caller[q] = "idle", caller' = [caller EXCEPT ![q] = "live"]
      PROVE  /\ caller[r] = "gone" => caller'[r] = "gone"
             /\ caller'[r] = "live" /\ answer[r] # None => caller[r] = "live"
  BY <1>1, <1>3
<1>4. ASSUME NEW q \in Requests, caller' = [caller EXCEPT ![q] = "gone"]
      PROVE  /\ caller[r] = "gone" => caller'[r] = "gone"
             /\ caller'[r] = "live" /\ answer[r] # None => caller[r] = "live"
  BY <1>1, <1>4
<1>5. CASE Run \/ Server \/ Tick \/ UNCHANGED cvars
  <2>1. UNCHANGED caller
    BY <1>5
       DEF Run, Transmit, TickPing, TickPong, TickKeepAlive, RecvCommand, ReadCommand, ReadError,
           ReadEof, Server, Greet, ServerReads, ServerDelivers, ServerPings, ServerGarbles,
           ServerCloses, ServerHangs, ServerSends, Tick, cvars
  <2>. QED BY <1>2, <2>1
<1>6. CASE Users
  BY <1>2, <1>3, <1>4, <1>6, ConnectionAssumption
     DEF Users, CallSubscribe, SubscribeReturns, NextMessage, TakeMsg, CancelSubscribe,
         DropSubscriber, DropReceiver, CallPublish
<1>. QED BY <1>5, <1>6 DEF Next

\* An answer, once given, stays.
LEMMA AnswersKept ==
    ASSUME TInv, AllOnce, [Next]_cvars, NEW r \in Requests, answer[r] # None
    PROVE  answer'[r] = answer[r]
<1>1. ~HeldIn(chan, r) /\ ~HeldIn(preliminary, r)
  BY DEF AllOnce, AskedOnce
<1>2. CASE UNCHANGED answer
  BY <1>2
<1>3. CASE RecvCommand
  <2> DEFINE cmd == Head(chan)
             s   == InfoReceived(buffered_transmits, sid_generator, sid2subscriber)
             t   == StepCommand(s, cmd)
  <2>1. /\ HandleClientInput(cmd) /\ cmd \in ConnectionCommand /\ chan # <<>>
        /\ chan \in Seq(ConnectionCommand)
    BY <1>3, HeadsTyped DEF RecvCommand
  <2>2. s \in StepState /\ s.answer = answer
    BY DEF InfoReceived, StepState, TInv, FieldsTyped
  <2>3. ~Asks(cmd, r)
    <3>1. 1 \in DOMAIN chan /\ chan[1] = cmd
      BY <2>1
    <3>. QED BY <1>1, <3>1 DEF HeldIn
  <2>4. UNCHANGED answer \/ answer' = t.answer
    BY <2>1 DEF HandleClientInput, Become
  <2> HIDE DEF s, cmd
  <2>5. t.answer[r] = s.answer[r]
    BY <2>1, <2>2, <2>3, StepAnswers DEF Asks
  <2>. QED BY <2>2, <2>4, <2>5
<1>4. CASE ReceiveInfo
  <2>1. /\ preliminary \in Seq(ConnectionCommand) /\ answer \in [Requests -> Nat \cup {None}]
        /\ answer' = Replay(preliminary).answer
    BY <1>4 DEF ReceiveInfo, Become, TInv, FieldsTyped
  <2>. QED BY <1>1, <2>1, ReplayRoutes DEF AllOnce, AskedOnce
<1>5. CASE ReadCommand
  <2>1. ReceiveInfo \/ UNCHANGED answer
    BY <1>5
       DEF ReadCommand, HandleServerInput, ReceiveNotInfo, ReceiveMsg, DeliverWithin, ReceiveHMsg,
           ReceiveKeepAlive, Disregard, binding
  <2>. QED BY <1>2, <1>4, <2>1
<1>6. CASE (Run /\ ~RecvCommand /\ ~ReadCommand) \/ Server \/ Tick \/ UNCHANGED cvars
  <2>1. UNCHANGED answer
    BY <1>6
       DEF Run, Transmit, PollTransmit, TickPing, TickPong, TickKeepAlive, HandleSendPingTimeout,
           HandleSendPongTimeout, HandleKeepAliveTimeout, Enqueue, ReadError, ReadEof, Server,
           Greet, ServerReads, ServerDelivers, ServerPings, ServerGarbles, ServerCloses,
           ServerHangs, ServerSends, Tick, cvars, binding
  <2>. QED BY <1>2, <2>1
<1>7. CASE Users
  <2>1. UNCHANGED answer
    BY <1>7
       DEF Users, CallSubscribe, SubscribeReturns, NextMessage, TakeMsg, CancelSubscribe,
           DropSubscriber, DropReceiver, CallPublish, binding
  <2>. QED BY <1>2, <2>1
<1>. QED BY <1>3, <1>5, <1>6, <1>7 DEF Next

\* What has made an Unsubscribe right stays so, in whatever queue it is.
LEMMA BackedStays ==
    ASSUME TInv, AllOnce, [Next]_cvars
    PROVE  Backed \subseteq Backed' /\ Seq(Backed) \subseteq Seq(Backed')
<1>1. ASSUME NEW cmd \in Backed PROVE cmd \in Backed'
  <2>1. cmd \in ConnectionCommand
    BY DEF Backed
  <2>2. ASSUME cmd.type = "Unsubscribe"
        PROVE  \E q \in Requests : answer'[q] = cmd.sid /\ caller'[q] = "gone"
    <3>1. PICK q \in Requests : answer[q] = cmd.sid /\ caller[q] = "gone"
      BY <2>2 DEF Backed
    <3>2. cmd.sid # None
      BY <2>1, <2>2, NoneAssumption DEF ConnectionCommand
    <3>. QED BY <3>1, <3>2, AnswersKept, CallersStep
  <2>. QED BY <2>1, <2>2 DEF Backed
<1>2. Backed \subseteq Backed'
  BY <1>1
<1> DEFINE B == Backed
           C == Backed'
<1> HIDE DEF B, C
<1>3. B \subseteq C => Seq(B) \subseteq Seq(C)
  OBVIOUS
<1>. QED BY <1>2, <1>3 DEF B, C

\* Commands get into the queues backed.
LEMMA BackedStep == TInv /\ AllOnce /\ AllBacked /\ [Next]_cvars => AllBacked'
<1> SUFFICES ASSUME TInv, AllOnce, AllBacked, [Next]_cvars PROVE AllBacked'
  OBVIOUS
<1>1. chan \in Seq(Backed') /\ preliminary \in Seq(Backed') /\ <<>> \in Seq(Backed')
  BY BackedStays DEF AllBacked
<1>2. \A q \in Seq(Backed'), cmd \in Backed' :
          Append(q, cmd) \in Seq(Backed') /\ (q # <<>> => Head(q) \in Backed' /\ Tail(q) \in Seq(Backed'))
  <2> DEFINE B == Backed'
  <2> HIDE DEF B
  <2>1. \A q \in Seq(B), cmd \in B :
            Append(q, cmd) \in Seq(B) /\ (q # <<>> => Head(q) \in B /\ Tail(q) \in Seq(B))
    OBVIOUS
  <2>. QED BY <2>1 DEF B
<1>3. ASSUME chan' \in {chan, <<>>}, preliminary' \in {preliminary, <<>>} PROVE AllBacked'
  BY <1>1, <1>3 DEF AllBacked
<1>4. ASSUME NEW cmd \in ConnectionCommand, Offer(cmd), UNCHANGED preliminary,
             cmd.type = "Unsubscribe" =>
                 \E q \in Requests : answer'[q] = cmd.sid /\ caller'[q] = "gone"
      PROVE  AllBacked'
  <2>1. cmd \in Backed'
    BY <1>4 DEF Backed
  <2>. QED BY <1>1, <1>2, <1>4, <2>1 DEF AllBacked, Offer
<1>5. CASE RecvCommand
  <2>1. /\ chan # <<>> /\ chan' \in {Tail(chan), <<>>}
        /\ preliminary' \in {preliminary, <<>>, Append(preliminary, Head(chan))}
    BY <1>5 DEF RecvCommand, Loop, HandleClientInput, Become, Leave
  <2>2. Tail(chan) \in Seq(Backed') /\ Head(chan) \in Backed'
    <3> DEFINE B == Backed'
    <3> HIDE DEF B
    <3>1. chan \in Seq(B) /\ chan # <<>> => Head(chan) \in B /\ Tail(chan) \in Seq(B)
      OBVIOUS
    <3>. QED BY <1>1, <2>1, <3>1 DEF B
  <2>. QED BY <1>1, <1>2, <2>1, <2>2 DEF AllBacked
<1>6. CASE (Run /\ ~RecvCommand) \/ Server \/ Tick \/ UNCHANGED cvars
  <2>1. chan' \in {chan, <<>>} /\ preliminary' \in {preliminary, <<>>}
    BY <1>6
       DEF Run, Transmit, PollTransmit, TickPing, TickPong, TickKeepAlive, HandleSendPingTimeout,
           HandleSendPongTimeout, HandleKeepAliveTimeout, Enqueue, Leave, Loop, ReadCommand,
           HandleServerInput, ReceiveInfo, Become, ReceiveNotInfo, ReceiveMsg, DeliverWithin,
           ReceiveHMsg, ReceiveKeepAlive, Disregard, ReadError, ReadEof, Server, Greet,
           ServerReads, ServerDelivers, ServerPings, ServerGarbles, ServerCloses, ServerHangs,
           ServerSends, Tick, cvars, binding, loop
  <2>. QED BY <1>3, <2>1
<1>7. ASSUME NEW r \in Requests, CallSubscribe(r) PROVE AllBacked'
  <2> DEFINE cmd == Subscribe(r, MaxMsgs[r])
  <2>1. cmd \in ConnectionCommand /\ cmd.type # "Unsubscribe"
    BY ConnectionAssumption DEF Subscribe, ConnectionCommand
  <2>2. UNCHANGED preliminary /\ (Offer(cmd) \/ UNCHANGED chan)
    BY <1>7 DEF CallSubscribe, binding
  <2> HIDE DEF cmd
  <2>. QED BY <1>3, <1>4, <2>1, <2>2
<1>8. ASSUME NEW r \in Requests, DropSubscriber(r) PROVE AllBacked'
  <2> DEFINE cmd == Unsubscribe(answer[r])
  <2>1. cmd \in ConnectionCommand /\ cmd.sid = answer[r]
    BY <1>8 DEF DropSubscriber, TInv, HoldersAnswered, FieldsTyped, Unsubscribe, ConnectionCommand
  <2>2. /\ UNCHANGED <<preliminary, answer>> /\ (Offer(cmd) \/ UNCHANGED chan)
        /\ caller'[r] = "gone"
    BY <1>8 DEF DropSubscriber, DropReceiver, TInv, CallerTyped
  <2> HIDE DEF cmd
  <2>. QED BY <1>3, <1>4, <2>1, <2>2
<1>9. CASE CallPublish
  <2> DEFINE cmd == Publish(published + 1)
  <2>1. cmd.type # "Unsubscribe"
    BY DEF Publish
  <2>2. UNCHANGED preliminary /\ ((published < MaxPublishes /\ Offer(cmd)) \/ UNCHANGED chan)
    BY <1>9 DEF CallPublish, binding
  <2>3. published < MaxPublishes => cmd \in ConnectionCommand
    <3>1. published < MaxPublishes => published + 1 \in 1..MaxPublishes
      BY ConnectionAssumption DEF TInv, UsersTyped
    <3>. QED BY <3>1, ConnectionAssumption DEF Publish, ConnectionCommand
  <2> HIDE DEF cmd
  <2>. QED BY <1>3, <1>4, <2>1, <2>2, <2>3
<1>10. ASSUME NEW r \in Requests, SubscribeReturns(r) \/ NextMessage(r) \/ CancelSubscribe(r)
       PROVE  AllBacked'
  <2>1. UNCHANGED <<chan, preliminary>>
    BY <1>10
       DEF SubscribeReturns, NextMessage, TakeMsg, CancelSubscribe, DropReceiver, binding, loop
  <2>. QED BY <1>3, <2>1
<1>. QED BY <1>5, <1>6, <1>7, <1>8, <1>9, <1>10, ConnectionAssumption DEF Next, Users

\* Nothing is answered or served while INFO is awaited.
LEMMA UnansweredStep == TInv /\ Unstarted /\ Unanswered /\ [Next]_cvars => Unanswered'
<1> SUFFICES ASSUME TInv, Unstarted, Unanswered, [Next]_cvars, conn_state' = "AwaitingInfo"
             PROVE  (\A r \in Requests : answer'[r] = None) /\ DOMAIN server.serials' = {}
  BY DEF Unanswered
<1>1. conn_state = "AwaitingInfo" /\ UNCHANGED answer
  BY DEF Next, Run, Users, Transmit, PollTransmit, TickPing, TickPong, TickKeepAlive,
         HandleSendPingTimeout, HandleSendPongTimeout, HandleKeepAliveTimeout, Enqueue, Leave,
         RecvCommand, HandleClientInput, ReadCommand, HandleServerInput, ReceiveInfo, Become,
         ReceiveNotInfo, ReceiveMsg, DeliverWithin, ReceiveHMsg, ReceiveKeepAlive, Disregard,
         ReadError, ReadEof, Server, Greet, ServerReads, ServerDelivers, ServerPings,
         ServerGarbles, ServerCloses, ServerHangs, ServerSends, Tick, cvars, binding, Terminal,
         CallSubscribe, SubscribeReturns, NextMessage, TakeMsg, CancelSubscribe, DropSubscriber,
         DropReceiver, CallPublish
<1>2. outbound = <<>> /\ DOMAIN server.subs = {} /\ DOMAIN server.serials = {}
  BY <1>1 DEF Unstarted, Unanswered
<1>3. server \in ServerState
  BY DEF TInv, ServerTyped
<1>4. server'.serials = server.serials
  BY <1>2, <1>3
     DEF Next, Run, Users, Transmit, TickPing, TickPong, TickKeepAlive, RecvCommand, ReadCommand,
         ReadError, ReadEof, Server, Greet, ServerReads, ServerDelivers, ServerPings,
         ServerGarbles, ServerCloses, ServerHangs, Tick, cvars, net, CallSubscribe,
         SubscribeReturns, NextMessage, CancelSubscribe, DropSubscriber, CallPublish, ServerState
<1>. QED BY <1>1, <1>2, <1>4 DEF Unanswered

\* A step that gives out no sid.
LEMMA SidsQuiet ==
    ASSUME TInv, AllOnce, [Next]_cvars, Sids, Live' => Live,
           UNCHANGED <<sid_generator, sid2subscriber, answer>>,
           DOMAIN server'.serials = DOMAIN server.serials,
           server'.mode # "closed" =>
               /\ server.mode # "closed"
               /\ \/ Ahead' = Ahead
                  \/ \E c \in ClientCommand : c.type # "SUB" /\ Ahead' = Append(Ahead, c)
    PROVE  Sids'
<1> SUFFICES ASSUME Live'
             PROVE  /\ Told(sid_generator, sid2subscriber, answer)'
                    /\ \A sid \in DOMAIN server'.serials : sid < sid_generator'
                    /\ server'.mode # "closed" =>
                           Announces(Ahead', sid_generator', DOMAIN server'.serials)
  BY DEF Sids, Announces
<1>1. /\ Told(sid_generator, sid2subscriber, answer)
      /\ \A sid \in DOMAIN server.serials : sid < sid_generator
      /\ server.mode # "closed" => Announces(Ahead, sid_generator, DOMAIN server.serials)
  BY DEF Sids
<1>2. Told(sid_generator, sid2subscriber, answer)'
  BY <1>1, CallersStep DEF Told
<1>3. Ahead \in Seq(ClientCommand) /\ sid_generator \in Nat
  BY AheadTyped DEF TInv, FieldsTyped
<1>4. ASSUME server'.mode # "closed"
      PROVE  Announces(Ahead', sid_generator', DOMAIN server'.serials)
  BY <1>1, <1>3, <1>4, AnnouncesPush
<1>. QED BY <1>1, <1>2, <1>4

\* The loop gives out a sid, or takes one back.
LEMMA SidsRecv ==
    ASSUME TInv, AllOnce, AllBacked, Sids, RecvCommand
    PROVE  Sids'
<1> DEFINE cmd == Head(chan)
           s   == InfoReceived(buffered_transmits, sid_generator, sid2subscriber)
           t   == StepCommand(s, cmd)
<1> SUFFICES ASSUME Live'
             PROVE  /\ Told(sid_generator, sid2subscriber, answer)'
                    /\ \A sid \in DOMAIN server'.serials : sid < sid_generator'
                    /\ server'.mode # "closed" =>
                           Announces(Ahead', sid_generator', DOMAIN server'.serials)
  BY DEF Sids, Announces
<1>1. /\ HandleClientInput(cmd) /\ cmd \in ConnectionCommand /\ chan # <<>>
      /\ chan \in Seq(ConnectionCommand) /\ UNCHANGED <<outbound, server, caller>>
      /\ conn_state = "InfoReceived" /\ task = "running"
  BY HeadsTyped DEF RecvCommand, Selecting, HandleClientInput, Live, Terminal
<1>2. /\ Told(sid_generator, sid2subscriber, answer)
      /\ \A sid \in DOMAIN server.serials : sid < sid_generator
      /\ server.mode # "closed" => Announces(Ahead, sid_generator, DOMAIN server.serials)
      /\ DOMAIN server.serials \subseteq Nat /\ sid_generator \in Nat
  BY <1>1, BySidIs DEF Sids, Live, TInv, ServerTyped, ServerState, FieldsTyped
<1>3. /\ s \in StepState /\ s.answer = answer /\ s.sid_generator = sid_generator
      /\ s.sid2subscriber = sid2subscriber /\ s.buffered_transmits = buffered_transmits
  BY DEF InfoReceived, StepState, TInv, FieldsTyped
<1>4. /\ ~t.panicked /\ buffered_transmits' = t.buffered_transmits /\ answer' = t.answer
      /\ sid_generator' = t.sid_generator /\ sid2subscriber' = t.sid2subscriber
  BY <1>1 DEF HandleClientInput, Become, Leave, Live, Terminal
<1>5. cmd.type = "Subscribe" => s.answer[cmd.request] = None
  <2>1. 1 \in DOMAIN chan /\ chan[1] = cmd
    BY <1>1
  <2>2. cmd.type = "Subscribe" => cmd.request \in Requests /\ HeldIn(chan, cmd.request)
    BY <1>1, <2>1 DEF HeldIn, Asks, ConnectionCommand
  <2>. QED BY <1>3, <2>2 DEF AllOnce, AskedOnce
<1>6. cmd.type = "Unsubscribe" =>
          \E q \in Requests : s.answer[q] = cmd.sid /\ caller[q] = "gone"
  <2>1. cmd \in Backed
    <3> DEFINE B == Backed
    <3>1. chan \in Seq(B)
      BY DEF AllBacked
    <3> HIDE DEF B
    <3>2. Head(chan) \in B
      BY <1>1, <3>1
    <3>. QED BY <3>2 DEF B
  <2>. QED BY <1>3, <2>1 DEF Backed
<1>7. /\ Ahead = Sent \o s.buffered_transmits /\ Ahead' = Sent \o t.buffered_transmits
      /\ Sent \in Seq(ClientCommand)
  BY <1>1, <1>3, <1>4, AheadTyped DEF Ahead, Sent
<1>8. t \in StepState
  BY <1>1, <1>3, StepTyped
<1>9. s.sid_generator \notin DOMAIN server.serials
  BY <1>2, <1>3
<1> HIDE DEF s, cmd
<1>10. /\ Told(t.sid_generator, t.sid2subscriber, t.answer)
       /\ s.sid_generator <= t.sid_generator
       /\ \A served : Announces(Sent \o s.buffered_transmits, s.sid_generator, served)
                          /\ s.sid_generator \notin served
              => Announces(Sent \o t.buffered_transmits, t.sid_generator, served)
  BY <1>1, <1>2, <1>3, <1>4, <1>5, <1>6, <1>7, StepTold
<1> HIDE DEF t
<1>11. Told(sid_generator, sid2subscriber, answer)'
  BY <1>1, <1>4, <1>10 DEF Told
<1>12. \A sid \in DOMAIN server.serials : sid < sid_generator'
  <2>1. sid_generator' \in Nat /\ sid_generator <= sid_generator'
    BY <1>3, <1>4, <1>8, <1>10 DEF StepState
  <2>. QED BY <1>2, <2>1
<1>13. server.mode # "closed" => Announces(Ahead', sid_generator', DOMAIN server.serials)
  BY <1>2, <1>3, <1>4, <1>7, <1>9, <1>10
<1>. QED BY <1>1, <1>11, <1>12, <1>13

\* INFO gives out the first sids.
LEMMA SidsInfo ==
    ASSUME TInv, AllOnce, AllBacked, Unstarted, Unanswered, ReceiveInfo,
           UNCHANGED <<outbound, server, caller>>
    PROVE  Sids'
<1> DEFINE s == Replay(preliminary)
<1> SUFFICES ASSUME Live'
             PROVE  /\ Told(sid_generator, sid2subscriber, answer)'
                    /\ \A sid \in DOMAIN server'.serials : sid < sid_generator'
                    /\ server'.mode # "closed" =>
                           Announces(Ahead', sid_generator', DOMAIN server'.serials)
  BY DEF Sids, Announces
<1>1. /\ preliminary \in Seq(ConnectionCommand) /\ answer \in [Requests -> Nat \cup {None}]
      /\ Become(s) /\ outbound = <<>> /\ DOMAIN server.serials = {}
      /\ \A r \in Requests : answer[r] = None
  BY DEF ReceiveInfo, Unstarted, Unanswered, TInv, FieldsTyped
<1>2. /\ ~s.panicked /\ buffered_transmits' = s.buffered_transmits /\ answer' = s.answer
      /\ sid_generator' = s.sid_generator /\ sid2subscriber' = s.sid2subscriber
  BY <1>1 DEF Become, Leave, Live
<1>3. \A i \in DOMAIN preliminary : preliminary[i].type # "Unsubscribe"
  <2> DEFINE B == Backed
  <2>1. preliminary \in Seq(B)
    BY DEF AllBacked
  <2>2. \A cmd \in B : cmd.type # "Unsubscribe"
    BY <1>1, NoneAssumption DEF Backed, ConnectionCommand
  <2> HIDE DEF B
  <2>. QED BY <2>1, <2>2
<1>4. \A r \in Requests : Single(preliminary, r) /\ answer[r] = None
  BY <1>1 DEF AllOnce, AskedOnce
<1>5. s.buffered_transmits \in Seq(ClientCommand)
  BY <1>1, ReplayTyped DEF StepState
<1>6. /\ Told(s.sid_generator, s.sid2subscriber, s.answer)
      /\ Announces(s.buffered_transmits, s.sid_generator, {})
  BY <1>1, <1>2, <1>3, <1>4, ReplayTold
<1> HIDE DEF s
<1>7. Ahead' = s.buffered_transmits
  <2>1. Ahead' = <<>> \o s.buffered_transmits
    BY <1>1, <1>2 DEF Ahead, Sent
  <2>. QED BY <1>5, <2>1
<1>8. Told(sid_generator, sid2subscriber, answer)'
  BY <1>2, <1>6 DEF Told
<1>. QED BY <1>1, <1>2, <1>6, <1>7, <1>8

\* What reading a command does to the counters.
LEMMA ServeCounts ==
    ASSUME TInv, NEW cmd \in ClientCommand
    PROVE  /\ cmd.type # "SUB" => Serve(cmd).serials = server.serials
           /\ cmd.type = "SUB" => Serve(cmd).serials = Extend(server.serials, cmd.sid, 0)
           /\ Serve(cmd).mode = server.mode
<1>1. server \in ServerState
  BY DEF TInv, ServerTyped
<1>. QED BY <1>1 DEF Serve, ServerState

\* The server takes a sid off the stream.
LEMMA SidsRead ==
    ASSUME TInv, Sids, ServerReads
    PROVE  Sids'
<1> DEFINE cmd == Head(outbound).command
<1> SUFFICES ASSUME Live'
             PROVE  /\ Told(sid_generator, sid2subscriber, answer)'
                    /\ \A sid \in DOMAIN server'.serials : sid < sid_generator'
                    /\ server'.mode # "closed" =>
                           Announces(Ahead', sid_generator', DOMAIN server'.serials)
  BY DEF Sids, Announces
<1>1. /\ outbound # <<>> /\ outbound' = Tail(outbound) /\ server' = Serve(cmd)
      /\ server.mode # "closed"
      /\ UNCHANGED <<binding, caller, task>>
  BY DEF ServerReads, loop
<1>2. /\ Ahead # <<>> /\ Head(Ahead) = cmd /\ Ahead' = Tail(Ahead) /\ Ahead \in Seq(ClientCommand)
      /\ UNCHANGED <<conn_state, sid_generator, sid2subscriber, answer>>
  BY <1>1, AheadMoves, AheadTyped DEF binding, inner
<1>3. /\ Told(sid_generator, sid2subscriber, answer)
      /\ \A sid \in DOMAIN server.serials : sid < sid_generator
      /\ Announces(Ahead, sid_generator, DOMAIN server.serials)
  BY <1>1, <1>2 DEF Sids, Live
<1>4. cmd \in ClientCommand /\ 1 \in DOMAIN Ahead /\ Ahead[1] = cmd
  BY <1>2
<1> HIDE DEF cmd
<1>5. \/ DOMAIN server'.serials = DOMAIN server.serials
      \/ cmd.type = "SUB" /\ DOMAIN server'.serials = DOMAIN server.serials \cup {cmd.sid}
  BY <1>1, <1>4, ServeCounts DEF Extend
<1>6. Announces(Ahead', sid_generator, DOMAIN server'.serials)
  BY <1>2, <1>3, <1>5, AnnouncesPop
<1>7. \A sid \in DOMAIN server'.serials : sid < sid_generator
  BY <1>3, <1>4, <1>5 DEF Announces
<1>8. Told(sid_generator, sid2subscriber, answer)'
  BY <1>1, <1>2, <1>3 DEF Told
<1>. QED BY <1>2, <1>6, <1>7, <1>8

\* Delivering counts on the sid, and on no other.
LEMMA CountsOne ==
    ASSUME TInv, NEW sid \in DOMAIN server.subs, ServerDelivers(sid)
    PROVE  /\ server'.serials = [server.serials EXCEPT ![sid] = server.serials[sid] + 1]
           /\ DOMAIN server'.serials = DOMAIN server.serials
           /\ sid \in DOMAIN server.serials /\ server.serials[sid] \in Nat
           /\ server'.mode = server.mode
<1>1. server \in ServerState /\ sid \in DOMAIN server.serials /\ server.serials[sid] \in Nat
  BY BySidIs DEF TInv, ServerTyped, ServerState
<1> DEFINE serial  == server.serials[sid] + 1
           serials == [server.serials EXCEPT ![sid] = serial]
           subs    == IF server.subs[sid] = serial THEN Without(server.subs, sid) ELSE server.subs
<1>2. server' = [server EXCEPT !.serials = serials, !.subs = subs]
  BY DEF ServerDelivers
<1>3. DOMAIN serials = DOMAIN server.serials
  OBVIOUS
<1> HIDE DEF serials, subs
<1>4. server'.serials = serials /\ server'.mode = server.mode
  BY <1>1, <1>2 DEF ServerState
<1>. QED BY <1>1, <1>3, <1>4 DEF serials

SInv == AllBacked /\ Unanswered /\ Sids

\* Every step keeps the sids apart.
LEMMA SidsStep == TInv /\ RInv /\ SInv /\ [Next]_cvars => SInv'
<1> SUFFICES ASSUME TInv, RInv, SInv, [Next]_cvars PROVE Sids'
  BY BackedStep, UnansweredStep DEF SInv, RInv
<1>1. AllOnce /\ Unstarted /\ AllBacked /\ Unanswered /\ Sids
  BY DEF RInv, SInv
<1>2. ASSUME UNCHANGED <<outbound, buffered_transmits>> PROVE Ahead' = Ahead
  BY <1>2 DEF Ahead, Sent
<1>3. ASSUME NEW state \in Terminal, Leave(state) PROVE Sids'
  BY <1>3 DEF Leave, Sids, Live, Terminal
<1>4. ASSUME UNCHANGED <<conn_state, inner, answer, outbound, server>>, task' = "running" => task = "running"
      PROVE  Sids'
  <2>1. Ahead' = Ahead /\ (Live' => Live)
    BY <1>2, <1>4 DEF inner, Live
  <2>. QED BY <1>1, <1>4, <2>1, SidsQuiet DEF inner
<1>5. CASE ReadCommand
  <2>1. /\ HandleServerInput(Head(inbound), now) /\ UNCHANGED <<outbound, server, caller>>
        /\ task = "running"
    BY <1>5 DEF ReadCommand, Selecting
  <2>2. CASE ReceiveInfo
    BY <1>1, <2>1, <2>2, SidsInfo
  <2>3. CASE UNCHANGED <<conn_state, buffered_transmits, sid_generator, sid2subscriber, answer>>
    <3>1. Ahead' = Ahead /\ (Live' => Live)
      BY <1>2, <2>1, <2>3 DEF Live
    <3>. QED BY <1>1, <2>1, <2>3, <3>1, SidsQuiet
  <2>. QED BY <1>3, <2>1, <2>2, <2>3
           DEF HandleServerInput, ReceiveNotInfo, ReceiveMsg, DeliverWithin, ReceiveHMsg,
               ReceiveKeepAlive, Disregard, binding, inner, Terminal
<1>6. ASSUME NEW t,
             HandleSendPingTimeout(t) \/ HandleSendPongTimeout(t) \/ HandleKeepAliveTimeout(t),
             UNCHANGED <<outbound, server>>, task = "running"
      PROVE  Sids'
  <2>1. CASE UNCHANGED binding
    BY <1>4, <1>6, <2>1 DEF binding
  <2>2. ASSUME NEW c \in {Ping, Pong}, NEW field, NEW value, Enqueue(c, field, value),
               conn_state = "InfoReceived", Ahead' = Append(Ahead, c)
        PROVE  Sids'
    <3>1. c \in ClientCommand /\ c.type # "SUB"
      BY WireTyped DEF Ping, Pong
    <3>2. Live' => Live
      BY <1>6, <2>2 DEF Live
    <3>. QED BY <1>1, <1>6, <2>2, <3>1, <3>2, SidsQuiet DEF Enqueue
  <2>. QED BY <1>3, <1>6, <2>1, <2>2, TimerAhead DEF Terminal
<1>7. CASE TickPing \/ TickPong \/ TickKeepAlive
  BY <1>6, <1>7 DEF TickPing, TickPong, TickKeepAlive, Selecting
<1>8. CASE ReadError \/ Tick \/ UNCHANGED cvars
  BY <1>4, <1>8 DEF ReadError, Selecting, Tick, cvars, binding, net, loop
<1>9. CASE ReadEof
  BY <1>9 DEF ReadEof, Sids, Live
<1>10. CASE Transmit
  <2>1. /\ buffered_transmits # <<>> /\ buffered_transmits' = Tail(buffered_transmits)
        /\ UNCHANGED <<conn_state, sid_generator, sid2subscriber, answer, task, server>>
        /\ \/ outbound' = Append(outbound, [command |-> Head(buffered_transmits), at |-> now])
           \/ server.mode = "closed"
    BY <1>10 DEF Transmit, PollTransmit, loop
  <2>2. server.mode # "closed" => Ahead' = Ahead
    BY <2>1, AheadMoves
  <2>. QED BY <1>1, <2>1, <2>2, SidsQuiet DEF Live
<1>11. CASE Greet \/ ServerPings \/ ServerGarbles \/ ServerCloses \/ ServerHangs
            \/ \E sid \in DOMAIN server.subs : ServerDelivers(sid)
  <2>1. /\ UNCHANGED <<outbound, binding, task>>
        /\ server.mode # "closed"
    BY <1>11
       DEF Greet, ServerPings, ServerGarbles, ServerCloses, ServerHangs, ServerDelivers,
           ServerSends, loop
  <2>2. server \in ServerState
    BY DEF TInv, ServerTyped
  <2>3. DOMAIN server'.serials = DOMAIN server.serials
    <3>1. ASSUME NEW sid \in DOMAIN server.subs, ServerDelivers(sid)
          PROVE  DOMAIN server'.serials = DOMAIN server.serials
      BY <2>2, <3>1, CountsOne
    <3>. QED BY <1>11, <2>2, <3>1
             DEF Greet, ServerPings, ServerGarbles, ServerCloses, ServerHangs, ServerState
  <2>4. Ahead' = Ahead
    BY <1>2, <2>1 DEF binding, inner
  <2>. QED BY <1>1, <2>1, <2>3, <2>4, SidsQuiet DEF Live, binding, inner
<1>12. CASE Users
  <2>1. /\ UNCHANGED <<conn_state, inner, answer, outbound, server, task>>
    BY <1>12
       DEF Users, CallSubscribe, SubscribeReturns, NextMessage, TakeMsg, CancelSubscribe,
           DropSubscriber, DropReceiver, CallPublish, binding, loop, net
  <2>. QED BY <1>4, <2>1
<1>. QED BY <1>1, <1>5, <1>7, <1>8, <1>9, <1>10, <1>11, <1>12, SidsRecv, SidsRead
         DEF Next, Run, Server

-----------------------------------------------------------------------------
(* Messages of one subscription.                                           *)

\* A channel carries the messages of its sid only, and the input goes on where it ends.
Delivered(sid, queue, input, first, last) ==
    /\ \A i \in DOMAIN queue : queue[i].sid = sid
    /\ \E mid \in Nat : /\ InOrder(queue, Deliveries(sid), first, mid)
                        /\ InOrder(input, Deliveries(sid), mid, last)

\* A message carries a number; of the server's commands, MSG and HMSG are messages.
LEMMA DeliveriesAre ==
    ASSUME NEW sid
    PROVE  /\ \A d \in Deliveries(sid) : d.payload \in Nat
           /\ \A m \in Inbound :
                  m \in Deliveries(sid) <=> m.type \in {"MSG", "HMSG"} /\ m.sid = sid
<1>1. \A d \in Deliveries(sid) : d.payload \in Nat
  BY ConnectionAssumption DEF Deliveries
<1>2. ASSUME NEW m \in Inbound
      PROVE  m \in Deliveries(sid) <=> m.type \in {"MSG", "HMSG"} /\ m.sid = sid
  <2>1. m \in Deliveries(sid) => m.type \in {"MSG", "HMSG"} /\ m.sid = sid
    BY DEF Deliveries
  <2>2. m.type \in {"MSG", "HMSG"} => m \in Message \cup HMessage
    BY DEF Inbound, Info, SPing, SPong, OkOrErr, Eof, Garbled
  <2>3. ASSUME m \in Message \cup HMessage, m.sid = sid PROVE m \in Deliveries(sid)
    BY <2>3 DEF Message, HMessage, Deliveries
  <2>. QED BY <2>1, <2>2, <2>3
<1>. QED BY <1>1, <1>2

\* A subscription begins with nothing.
LEMMA DeliveredNone ==
    ASSUME NEW sid, NEW input, \A i \in DOMAIN input : input[i] \notin Deliveries(sid)
    PROVE  Delivered(sid, <<>>, input, 0, 0)
<1>1. InOrder(<<>>, Deliveries(sid), 0, 0) /\ InOrder(input, Deliveries(sid), 0, 0)
  BY OrderNone
<1>. QED BY <1>1 DEF Delivered

\* The server sends.
LEMMA DeliveredSend ==
    ASSUME NEW sid, NEW queue, NEW input \in Seq(Inbound), NEW first, NEW last \in Nat,
           Delivered(sid, queue, input, first, last), NEW m \in Inbound
    PROVE  /\ m \notin Deliveries(sid) => Delivered(sid, queue, Append(input, m), first, last)
           /\ m \in Deliveries(sid) /\ m.payload = last + 1 =>
                  Delivered(sid, queue, Append(input, m), first, last + 1)
<1>1. PICK mid \in Nat : /\ InOrder(queue, Deliveries(sid), first, mid)
                         /\ InOrder(input, Deliveries(sid), mid, last)
  BY DEF Delivered
<1>2. /\ m \notin Deliveries(sid) => InOrder(Append(input, m), Deliveries(sid), mid, last)
      /\ m \in Deliveries(sid) /\ m.payload = last + 1 =>
             InOrder(Append(input, m), Deliveries(sid), mid, last + 1)
  BY <1>1, DeliveriesAre, OrderPush
<1>. QED BY <1>1, <1>2 DEF Delivered

\* The client reads: a message into the channel, anything else away.
LEMMA DeliveredRead ==
    ASSUME NEW sid, NEW queue \in Seq(Message), NEW input \in Seq(Inbound), input # <<>>,
           NEW first \in Nat, NEW last \in Nat, Delivered(sid, queue, input, first, last)
    PROVE  /\ Head(input) \notin Deliveries(sid) => Delivered(sid, queue, Tail(input), first, last)
           /\ Head(input) \in Deliveries(sid) /\ Head(input) \in Message =>
                  Delivered(sid, Append(queue, Head(input)), Tail(input), first, last)
<1> DEFINE m == Head(input)
<1>1. PICK mid \in Nat : /\ InOrder(queue, Deliveries(sid), first, mid)
                         /\ InOrder(input, Deliveries(sid), mid, last)
  BY DEF Delivered
<1>2. /\ m \notin Deliveries(sid) => InOrder(Tail(input), Deliveries(sid), mid, last)
      /\ m \in Deliveries(sid) => /\ m.payload = mid + 1
                                  /\ InOrder(Tail(input), Deliveries(sid), mid + 1, last)
  BY <1>1, DeliveriesAre, OrderPop
<1> HIDE DEF m
<1>3. ASSUME m \in Deliveries(sid), m \in Message
      PROVE  Delivered(sid, Append(queue, m), Tail(input), first, last)
  <2>1. InOrder(Append(queue, m), Deliveries(sid), first, mid + 1) /\ mid + 1 \in Nat
    BY <1>1, <1>2, <1>3, DeliveriesAre, OrderPush
  <2>2. \A i \in DOMAIN Append(queue, m) : Append(queue, m)[i].sid = sid
    <3>1. m.sid = sid /\ \A i \in DOMAIN queue : queue[i].sid = sid
      BY <1>3 DEF Deliveries, Delivered
    <3>2. \A i \in DOMAIN Append(queue, m) :
              (i \in DOMAIN queue /\ Append(queue, m)[i] = queue[i]) \/ Append(queue, m)[i] = m
      BY <1>3
    <3>. QED BY <3>1, <3>2
  <2>. QED BY <1>2, <1>3, <2>1, <2>2 DEF Delivered
<1>. QED BY <1>1, <1>2, <1>3 DEF Delivered, m

\* The Subscriber takes one.
LEMMA DeliveredTake ==
    ASSUME NEW sid, NEW queue \in Seq(Message), queue # <<>>, NEW input,
           NEW first \in Nat, NEW last, Delivered(sid, queue, input, first, last)
    PROVE  Delivered(sid, Tail(queue), input, Head(queue).payload, last)
<1>1. PICK mid \in Nat : /\ InOrder(queue, Deliveries(sid), first, mid)
                         /\ InOrder(input, Deliveries(sid), mid, last)
  BY DEF Delivered
<1>2. Head(queue) \in Deliveries(sid)
  <2>1. 1 \in DOMAIN queue /\ queue[1] = Head(queue) /\ Head(queue) \in Message
    OBVIOUS
  <2>. QED BY <2>1 DEF Delivered, Message, Deliveries
<1>3. Head(queue).payload = first + 1 /\ InOrder(Tail(queue), Deliveries(sid), first + 1, mid)
  BY <1>1, <1>2, DeliveriesAre, OrderPop
<1>4. \A i \in DOMAIN Tail(queue) : Tail(queue)[i].sid = sid
  <2>1. \A i \in DOMAIN Tail(queue) : i + 1 \in DOMAIN queue /\ Tail(queue)[i] = queue[i + 1]
    OBVIOUS
  <2>. QED BY <2>1 DEF Delivered
<1>. QED BY <1>1, <1>3, <1>4 DEF Delivered

-----------------------------------------------------------------------------
(* Messages in every state.                                                *)

\* A channel without a sid is empty.
Untold == \A r \in Requests : answer[r] = None => msg_chan[r] = <<>> /\ taken[r] = 0

\* The server counts what it sends.
Counted == {m \in Inbound : m.type \in {"MSG", "HMSG"} => m.sid \in DOMAIN server.serials}

\* How far the server has counted for a request.
Seen(r) == IF answer[r] \in DOMAIN server.serials THEN server.serials[answer[r]] ELSE 0

Served(r) == caller[r] = "live" /\ answer[r] # None
Whole(r)  == Delivered(answer[r], msg_chan[r], inbound, taken[r], Seen(r))

\* The connection lasts, and the stream from the server is not at its end.
Reading == Live /\ (inbound # <<>> => Head(inbound) # Eof)

DInv ==
    /\ Untold /\ inbound \in Seq(Counted)
    /\ Reading => \A r \in Requests : Served(r) => Whole(r)

\* Nothing has been sent yet.
LEMMA DInvInit == Init => DInv
<1> SUFFICES ASSUME Init PROVE DInv
  OBVIOUS
<1>1. Untold /\ inbound = <<>> /\ ~Live
  BY DEF Init, BindingInit, Untold, Live
<1>2. <<>> \in Seq(Counted)
  OBVIOUS
<1>. QED BY <1>1, <1>2 DEF DInv, Reading

\* The types of what Whole speaks of.
LEMMA WholeTyped ==
    ASSUME TInv, NEW r \in Requests
    PROVE  /\ msg_chan[r] \in Seq(Message) /\ taken[r] \in Nat /\ Seen(r) \in Nat
           /\ answer[r] \in Nat \cup {None}
<1>1. \A sid \in DOMAIN server.serials : server.serials[sid] \in Nat
  BY BySidIs DEF TInv, ServerTyped, ServerState
<1>. QED BY <1>1 DEF TInv, FieldsTyped, UsersTyped, Seen

\* A step that neither sends nor reads, nor answers, nor yields.
LEMMA DInvQuiet ==
    ASSUME TInv, AllOnce, [Next]_cvars, DInv, UNCHANGED <<answer, msg_chan, taken, inbound>>,
           server'.serials = server.serials, Live' => Live
    PROVE  DInv'
<1>1. Counted' = Counted
  BY DEF Counted
<1>2. Untold'
  BY DEF DInv, Untold
<1>3. ASSUME NEW r \in Requests, Reading', Served(r)' PROVE Whole(r)'
  <2>1. Reading
    BY <1>3 DEF Reading
  <2>2. Served(r)
    BY <1>3, CallersStep DEF Served
  <2>3. Whole(r)
    BY <2>1, <2>2 DEF DInv
  <2>. QED BY <2>3 DEF Whole, Seen
<1>4. inbound' \in Seq(Counted')
  BY <1>1 DEF DInv
<1>. QED BY <1>2, <1>3, <1>4 DEF DInv

\* The server sends something that is no message.
LEMMA DInvSend ==
    ASSUME TInv, AllOnce, [Next]_cvars, DInv, UNCHANGED <<answer, msg_chan, taken>>,
           server'.serials = server.serials, Live' => Live,
           NEW m \in Inbound, m.type \notin {"MSG", "HMSG"}, inbound' = Append(inbound, m)
    PROVE  DInv'
<1>1. Counted' = Counted
  BY DEF Counted
<1>2. Untold'
  BY DEF DInv, Untold
<1>3. inbound \in Seq(Inbound)
  BY DEF TInv, StreamsTyped
<1>4. ASSUME NEW r \in Requests, Reading', Served(r)' PROVE Whole(r)'
  <2>1. Reading
    <3>1. inbound # <<>> => inbound' # <<>> /\ Head(inbound') = Head(inbound)
      BY <1>3
    <3>. QED BY <1>4, <3>1 DEF Reading
  <2>2. Served(r) /\ UNCHANGED <<answer[r], msg_chan[r], taken[r], Seen(r)>>
    BY <1>4, CallersStep DEF Served, Seen
  <2>3. Whole(r) /\ m \notin Deliveries(answer[r])
    BY <2>1, <2>2, DeliveriesAre DEF DInv
  <2>4. Delivered(answer[r], msg_chan[r], Append(inbound, m), taken[r], Seen(r))
    BY <1>3, <2>3, WholeTyped, DeliveredSend DEF Whole
  <2>. QED BY <2>2, <2>4 DEF Whole
<1>5. inbound' \in Seq(Counted')
  <2> DEFINE C == Counted
  <2>1. m \in C /\ inbound \in Seq(C)
    BY DEF Counted, DInv
  <2> HIDE DEF C
  <2>2. Append(inbound, m) \in Seq(C)
    BY <2>1
  <2>. QED BY <1>1, <2>2 DEF C
<1>. QED BY <1>2, <1>4, <1>5 DEF DInv

\* The server delivers.
LEMMA DInvDeliver ==
    ASSUME TInv, AllOnce, [Next]_cvars, DInv, NEW sid \in DOMAIN server.subs, ServerDelivers(sid)
    PROVE  DInv'
<1> DEFINE serial == server.serials[sid] + 1
<1>1. /\ UNCHANGED <<answer, msg_chan, taken, task, conn_state>> /\ task = "running"
      /\ server.mode = "up" /\ serial <= MaxSerial
  BY DEF ServerDelivers, ServerSends, binding, loop, user
<1>2. /\ server'.serials = [server.serials EXCEPT ![sid] = serial]
      /\ DOMAIN server'.serials = DOMAIN server.serials
      /\ sid \in DOMAIN server.serials /\ server.serials[sid] \in Nat
  BY CountsOne
<1>3. sid \in Nat /\ serial \in Payloads
  <2>1. sid \in Nat
    BY <1>2, BySidIs DEF TInv, ServerTyped, ServerState
  <2>2. serial \in 1..MaxSerial
    BY <1>1, <1>2, ConnectionAssumption
  <2>. QED BY <2>1, <2>2, ConnectionAssumption
<1>4. PICK m \in Message \cup HMessage : m.sid = sid /\ m.payload = serial /\ inbound' = Append(inbound, m)
  <2>1. /\ [type |-> "MSG", sid |-> sid, payload |-> serial] \in Message
        /\ [type |-> "HMSG", sid |-> sid, payload |-> serial] \in HMessage
    BY <1>3 DEF Message, HMessage
  <2>. QED BY <2>1 DEF ServerDelivers, ServerSends
<1>5. m \in Inbound /\ inbound \in Seq(Inbound) /\ m.type \in {"MSG", "HMSG"}
  BY DEF Inbound, TInv, StreamsTyped, Message, HMessage
<1>6. Untold'
  BY <1>1 DEF DInv, Untold
<1>7. inbound' \in Seq(Counted')
  <2> DEFINE C == Counted
  <2>1. Counted' = C
    BY <1>2 DEF Counted
  <2>2. m \in C /\ inbound \in Seq(C)
    BY <1>2, <1>4, <1>5 DEF Counted, DInv
  <2> HIDE DEF C
  <2>3. Append(inbound, m) \in Seq(C)
    BY <2>2
  <2>. QED BY <1>4, <2>1, <2>3
<1> HIDE DEF serial
<1>8. ASSUME NEW r \in Requests, Reading', Served(r)' PROVE Whole(r)'
  <2>1. Reading
    <3>1. inbound # <<>> => inbound' # <<>> /\ Head(inbound') = Head(inbound)
      BY <1>4, <1>5
    <3>. QED BY <1>1, <1>8, <3>1 DEF Reading, Live
  <2>2. Served(r) /\ UNCHANGED <<answer[r], msg_chan[r], taken[r]>>
    BY <1>1, <1>8, CallersStep DEF Served
  <2>3. Whole(r) /\ Seen(r) \in Nat
    BY <2>1, <2>2, WholeTyped DEF DInv
  <2>4. /\ answer[r] # sid => m \notin Deliveries(answer[r]) /\ Seen(r)' = Seen(r)
        /\ answer[r] = sid => /\ m \in Deliveries(answer[r]) /\ m.payload = Seen(r) + 1
                              /\ Seen(r)' = Seen(r) + 1
    BY <1>1, <1>2, <1>4, <1>5, DeliveriesAre DEF Seen, serial
  <2>5. Delivered(answer[r], msg_chan[r], Append(inbound, m), taken[r], Seen(r)')
    BY <1>5, <2>3, <2>4, DeliveredSend DEF Whole
  <2>. QED BY <1>4, <2>2, <2>5 DEF Whole
<1>. QED BY <1>6, <1>7, <1>8 DEF DInv

\* The server reads: it answers a PING, and begins to count with a SUB.
LEMMA DInvServe ==
    ASSUME TInv, AllOnce, Sids, [Next]_cvars, DInv, ServerReads
    PROVE  DInv'
<1> DEFINE cmd == Head(outbound).command
<1>1. /\ outbound # <<>> /\ server' = Serve(cmd) /\ server.mode # "closed"
      /\ inbound' \in {inbound, Append(inbound, SPong)}
      /\ UNCHANGED <<answer, msg_chan, taken, task, conn_state, caller, sid_generator>>
      /\ cmd.type # "PING" => inbound' = inbound
  BY DEF ServerReads, binding, inner, loop, user
<1>2. Ahead # <<>> /\ Head(Ahead) = cmd /\ Ahead \in Seq(ClientCommand)
  BY <1>1, AheadMoves, AheadTyped DEF ServerReads, binding, inner
<1>3. cmd \in ClientCommand /\ 1 \in DOMAIN Ahead /\ Ahead[1] = cmd
  BY <1>2
<1>4. Live' => Live
  BY <1>1 DEF Live
<1> HIDE DEF cmd
<1>5. CASE cmd.type # "SUB"
  <2>1. server'.serials = server.serials
    BY <1>1, <1>3, <1>5, ServeCounts
  <2>2. SPong \in Inbound /\ SPong.type \notin {"MSG", "HMSG"}
    BY DEF SPong, Inbound
  <2>. QED BY <1>1, <1>4, <2>1, <2>2, DInvQuiet, DInvSend
<1>6. CASE cmd.type = "SUB"
  <2>1. server'.serials = Extend(server.serials, cmd.sid, 0) /\ inbound' = inbound
    BY <1>1, <1>3, <1>6, ServeCounts
  <2>2. Untold'
    BY <1>1 DEF DInv, Untold
  <2>3. inbound' \in Seq(Counted')
    <3> DEFINE C == Counted
               D == Counted'
    <3>1. C \subseteq D
      BY <2>1 DEF Counted, Extend
    <3>2. inbound \in Seq(C)
      BY DEF DInv
    <3> HIDE DEF C, D
    <3>3. inbound \in Seq(D)
      BY <3>1, <3>2
    <3>. QED BY <2>1, <3>3 DEF D
  <2>4. ASSUME NEW r \in Requests, Reading', Served(r)' PROVE Whole(r)'
    <3>1. Reading /\ Served(r) /\ Live
      BY <1>1, <1>4, <2>1, <2>4 DEF Reading, Served
    <3>2. Whole(r)
      BY <3>1 DEF DInv
    <3>3. cmd.sid \notin DOMAIN server.serials
      BY <1>1, <1>3, <1>6, <3>1 DEF Sids, Announces
    <3>4. Seen(r)' = Seen(r)
      BY <1>1, <2>1, <3>3 DEF Seen, Extend
    <3>. QED BY <1>1, <2>1, <3>2, <3>4 DEF Whole
  <2>. QED BY <2>2, <2>3, <2>4 DEF DInv
<1>. QED BY <1>5, <1>6

\* What is left of the input is counted as well.
LEMMA CountedTail ==
    ASSUME DInv, inbound # <<>>, DOMAIN server'.serials = DOMAIN server.serials,
           inbound' \in {Tail(inbound), <<>>}
    PROVE  inbound' \in Seq(Counted') /\ Head(inbound) \in Counted
<1> DEFINE C == Counted
<1>1. Counted' = C
  BY DEF Counted
<1>2. inbound \in Seq(C)
  BY DEF DInv
<1> HIDE DEF C
<1>3. Tail(inbound) \in Seq(C) /\ <<>> \in Seq(C) /\ Head(inbound) \in C
  BY <1>2
<1>. QED BY <1>1, <1>3 DEF C

\* The connection is left, or its task ends.
LEMMA DInvLeft ==
    ASSUME DInv, ~Live', UNCHANGED <<answer, msg_chan, taken, server>>,
           inbound' \in {inbound, <<>>, <<Eof>>} \/ (inbound # <<>> /\ inbound' = Tail(inbound))
    PROVE  DInv'
<1>1. Untold' /\ ~Reading'
  BY DEF DInv, Untold, Reading
<1>2. inbound' \in Seq(Counted')
  <2> DEFINE C == Counted
  <2>1. Counted' = C
    BY DEF Counted
  <2>2. inbound \in Seq(C) /\ Eof \in C
    BY DEF DInv, Counted, Inbound, Eof
  <2> HIDE DEF C
  <2>3. <<>> \in Seq(C) /\ <<Eof>> \in Seq(C) /\ (inbound # <<>> => Tail(inbound) \in Seq(C))
    BY <2>2
  <2>. QED BY <2>1, <2>2, <2>3
<1>. QED BY <1>1, <1>2 DEF DInv

\* INFO: whoever is answered begins with nothing.
LEMMA DInvInfo ==
    ASSUME TInv, AllOnce, Unanswered, [Next]_cvars, DInv, ReadCommand, ReceiveInfo
    PROVE  DInv'
<1>1. /\ UNCHANGED <<msg_chan, taken, server>> /\ inbound # <<>>
      /\ inbound' \in {Tail(inbound), <<>>}
      /\ \A r \in Requests : answer[r] = None
      /\ DOMAIN server.serials = {}
  BY DEF ReadCommand, ReceiveInfo, Loop, Unanswered, user
<1>2. \A r \in Requests : msg_chan[r] = <<>> /\ taken[r] = 0
  BY <1>1 DEF DInv, Untold
<1>3. inbound' \in Seq(Counted')
  BY <1>1, CountedTail
<1>4. Untold'
  BY <1>1, <1>2 DEF Untold
<1>5. ASSUME NEW r \in Requests PROVE Whole(r)'
  <2>1. \A i \in DOMAIN inbound' : inbound'[i] \notin Deliveries(answer'[r])
    <3> DEFINE D == Counted'
    <3>1. \A m \in D : m \notin Deliveries(answer'[r])
      BY <1>1, DeliveriesAre DEF Counted
    <3> HIDE DEF D
    <3>. QED BY <1>3, <3>1 DEF D
  <2>2. Seen(r)' = 0
    BY <1>1 DEF Seen
  <2>3. Delivered(answer'[r], <<>>, inbound', 0, 0)
    BY <2>1, DeliveredNone
  <2>. QED BY <1>1, <1>2, <2>2, <2>3 DEF Whole
<1>. QED BY <1>3, <1>4, <1>5 DEF DInv

\* The loop reads a command that is not INFO.
LEMMA DInvRead ==
    ASSUME TInv, AllOnce, Sids, [Next]_cvars, DInv, ReadCommand, ~ReceiveInfo
    PROVE  DInv'
<1> DEFINE m == Head(inbound)
<1>1. /\ HandleServerInput(m, now) /\ inbound # <<>> /\ inbound \in Seq(Inbound) /\ m \in Inbound
      /\ UNCHANGED <<taken, server, caller>> /\ task = "running" /\ m # Eof
      /\ inbound' \in {Tail(inbound), <<>>}
      /\ conn_state' # "Panicked" => inbound' = Tail(inbound) /\ UNCHANGED task
  BY HeadsTyped DEF ReadCommand, Selecting, Loop, user, Eof
<1>2. ASSUME ~Live', UNCHANGED <<answer, msg_chan>> PROVE DInv'
  BY <1>1, <1>2, DInvLeft
<1>3. ASSUME NEW state \in Terminal, Leave(state), UNCHANGED <<answer, msg_chan>> PROVE DInv'
  BY <1>2, <1>3 DEF Leave, Live, Terminal
<1>4. inbound' \in Seq(Counted')
  BY <1>1, CountedTail
<1>5. UNCHANGED answer
  BY <1>1
     DEF HandleServerInput, ReceiveNotInfo, ReceiveMsg, DeliverWithin, ReceiveHMsg,
         ReceiveKeepAlive, Disregard, binding
<1>6. ASSUME conn_state = "InfoReceived", UNCHANGED <<conn_state, answer>>
      PROVE  /\ Reading /\ inbound' = Tail(inbound)
             /\ Told(sid_generator, sid2subscriber, answer)
             /\ \A r \in Requests : Seen(r)' = Seen(r)
             /\ \A r \in Requests : Served(r)' => Served(r)
  BY <1>1, <1>6, CallersStep DEF Reading, Live, Sids, Seen, Served
<1>7. ASSUME conn_state = "InfoReceived", UNCHANGED <<conn_state, answer, msg_chan>>,
             \A r \in Requests : Served(r) => m \notin Deliveries(answer[r])
      PROVE  DInv'
  <2>1. Untold'
    BY <1>1, <1>7 DEF DInv, Untold
  <2> HIDE DEF m
  <2>2. ASSUME NEW r \in Requests, Served(r)' PROVE Whole(r)'
    <3>1. Served(r) /\ Whole(r) /\ m \notin Deliveries(answer[r])
      BY <1>6, <1>7, <2>2 DEF DInv
    <3>2. Delivered(answer[r], msg_chan[r], Tail(inbound), taken[r], Seen(r))
      BY <1>1, <3>1, WholeTyped, DeliveredRead DEF Whole, Served, m
    <3>. QED BY <1>1, <1>6, <1>7, <3>2 DEF Whole
  <2>. QED BY <1>4, <2>1, <2>2 DEF DInv
<1>8. ASSUME ReceiveMsg(m), m.type = "MSG", ~Leave("Panicked") PROVE DInv'
  <2> DEFINE q == sid2subscriber[m.sid]
  <2>1. /\ conn_state = "InfoReceived" /\ UNCHANGED <<conn_state, answer>>
        /\ m.sid \in DOMAIN sid2subscriber
        /\ msg_chan' = [msg_chan EXCEPT ![q] = Append(msg_chan[q], m)]
    BY <1>5, <1>8 DEF ReceiveMsg, DeliverWithin
  <2>2. /\ q \in Requests /\ answer[q] = m.sid /\ m \in Message /\ m.sid # None
        /\ \A r \in Requests : r # q => answer[r] # m.sid
    <3>1. q \in Requests /\ m \in Message
      BY <1>1, <1>8, <2>1, TableIs, InboundMessages DEF TInv, FieldsTyped
    <3>2. answer[q] = m.sid /\ m.sid # None
      BY <1>6, <2>1, <3>1, NoneAssumption DEF Told, Message
    <3>. QED BY <1>6, <2>1, <3>1, <3>2 DEF Told
  <2> HIDE DEF q, m
  <2>3. /\ msg_chan \in [Requests -> Seq(Message)]
        /\ msg_chan'[q] = Append(msg_chan[q], m)
        /\ \A r \in Requests : r # q => msg_chan'[r] = msg_chan[r]
    BY <2>1, <2>2 DEF TInv, FieldsTyped
  <2>4. Untold'
    BY <1>1, <2>1, <2>2, <2>3 DEF DInv, Untold
  <2>5. ASSUME NEW r \in Requests, Served(r)' PROVE Whole(r)'
    <3>1. Served(r) /\ Whole(r)
      BY <1>6, <2>1, <2>5 DEF DInv
    <3>2. m \in Deliveries(answer[r]) <=> r = q
      BY <1>1, <1>8, <2>2, DeliveriesAre
    <3>3. Delivered(answer[r], msg_chan'[r], Tail(inbound), taken[r], Seen(r))
      <4>1. msg_chan[r] \in Seq(Message) /\ taken[r] \in Nat /\ Seen(r) \in Nat
        BY <1>1, WholeTyped
      <4>2. Delivered(answer[r], msg_chan[r], inbound, taken[r], Seen(r))
        BY <3>1, Zenon DEF Whole
      <4>3. inbound \in Seq(Inbound) /\ inbound # <<>> /\ Head(inbound) = m
        BY <1>1 DEF m
      <4>4. CASE r = q
        <5>1. m \in Deliveries(answer[r]) /\ m \in Message /\ msg_chan'[r] = Append(msg_chan[r], m)
          BY <2>2, <2>3, <3>2, <4>4, Zenon
        <5>. QED BY <4>1, <4>2, <4>3, <5>1, DeliveredRead
      <4>5. CASE r # q
        <5>1. m \notin Deliveries(answer[r]) /\ msg_chan'[r] = msg_chan[r]
          BY <2>3, <3>2, <4>5, Zenon
        <5>. QED BY <4>1, <4>2, <4>3, <5>1, DeliveredRead
      <4>. QED BY <4>4, <4>5, Zenon
    <3>. QED BY <1>1, <1>6, <2>1, <3>3 DEF Whole
  <2>. QED BY <1>4, <2>4, <2>5 DEF DInv
<1>9. ASSUME m.type \notin {"MSG", "HMSG"}
      PROVE  \A r \in Requests : Served(r) => m \notin Deliveries(answer[r])
  BY <1>1, <1>9, DeliveriesAre
<1>10. CASE Disregard(m)
  <2>1. CASE conn_state \in Terminal
    BY <1>2, <1>10, <2>1 DEF Disregard, Live, Terminal, binding
  <2>2. CASE conn_state = "InfoReceived"
    <3>1. UNCHANGED <<conn_state, answer, msg_chan>>
      BY <1>10 DEF Disregard, binding
    <3>2. \A r \in Requests : Served(r) => answer[r] \in DOMAIN sid2subscriber
      BY <1>6, <2>2, <3>1 DEF Told, Served
    <3>3. m.type \in {"MSG", "HMSG"} => m.sid \notin DOMAIN sid2subscriber
      BY <1>10, <2>2 DEF Disregard, Terminal
    <3>4. \A r \in Requests : Served(r) => m \notin Deliveries(answer[r])
      BY <1>1, <1>9, <3>2, <3>3, DeliveriesAre
    <3>. QED BY <1>7, <2>2, <3>1, <3>4
  <2>. QED BY <1>10, <2>1, <2>2 DEF Disregard
<1>11. CASE /\ m.type \in {"PING", "PONG"}
            /\ \/ ReceiveKeepAlive("last_ping_received_at", now)
               \/ ReceiveKeepAlive("last_pong_received_at", now)
  BY <1>7, <1>9, <1>11 DEF ReceiveKeepAlive
<1>12. CASE ReceiveMsg(m) /\ m.type = "MSG"
  <2>1. \/ conn_state = "InfoReceived" /\ UNCHANGED conn_state
        \/ Leave("Panicked") /\ UNCHANGED msg_chan
    BY <1>12 DEF ReceiveMsg, DeliverWithin
  <2>2. conn_state = "InfoReceived" /\ UNCHANGED conn_state => ~Leave("Panicked")
    BY DEF Leave
  <2>3. "Panicked" \in Terminal
    BY DEF Terminal
  <2> HIDE DEF m
  <2>. QED BY <1>3, <1>5, <1>8, <1>12, <2>1, <2>2, <2>3
<1>13. CASE ReceiveNotInfo \/ ReceiveHMsg(m)
  <2>1. \E state \in Terminal : Leave(state) /\ UNCHANGED <<answer, msg_chan>>
    BY <1>13 DEF ReceiveNotInfo, ReceiveHMsg, Terminal
  <2> HIDE DEF m
  <2>. QED BY <1>3, <2>1
<1> HIDE DEF m
<1>. QED BY <1>1, <1>10, <1>11, <1>12, <1>13 DEF HandleServerInput

\* The loop takes a command from the queue: whoever is answered begins with nothing.
LEMMA DInvRecv ==
    ASSUME TInv, AllOnce, Sids, [Next]_cvars, DInv, RecvCommand
    PROVE  DInv'
<1> DEFINE cmd == Head(chan)
           s   == InfoReceived(buffered_transmits, sid_generator, sid2subscriber)
           t   == StepCommand(s, cmd)
<1>1. /\ HandleClientInput(cmd) /\ cmd \in ConnectionCommand
      /\ UNCHANGED <<taken, server, caller, msg_chan>> /\ task = "running"
      /\ inbound' \in {inbound, <<>>} /\ (conn_state' # "Panicked" => inbound' = inbound)
  BY HeadsTyped DEF RecvCommand, Selecting, Loop, user, HandleClientInput
<1>2. CASE conn_state # "InfoReceived"
  <2>1. UNCHANGED <<answer, conn_state>>
    BY <1>1, <1>2 DEF HandleClientInput
  <2>. QED BY <1>1, <1>2, <2>1, DInvLeft DEF Live
<1>3. CASE conn_state = "InfoReceived"
  <2>1. /\ s \in StepState /\ s.answer = answer /\ s.sid_generator = sid_generator /\ ~s.panicked
    BY DEF InfoReceived, StepState, TInv, FieldsTyped
  <2>2. Become(t)
    BY <1>1, <1>3 DEF HandleClientInput, Terminal
  <2>3. Live' => ~t.panicked /\ inbound' = inbound
    BY <1>1, <2>2 DEF Become, Leave, Live
  <2>4. answer' = t.answer
    BY <2>2 DEF Become
  <2> HIDE DEF s, cmd
  <2>5. Untold'
    BY <1>1, AnswersKept DEF DInv, Untold
  <2>6. inbound' \in Seq(Counted')
    <3> DEFINE C == Counted
    <3>1. Counted' = C /\ inbound \in Seq(C)
      BY <1>1 DEF Counted, DInv
    <3> HIDE DEF C
    <3>2. << >> \in Seq(C)
      OBVIOUS
    <3>3. inbound' \in Seq(C)
      BY <1>1, <3>1, <3>2
    <3>. QED BY <3>1, <3>3
  <2>7. ASSUME NEW r \in Requests, Reading', Served(r)' PROVE Whole(r)'
    <3>1. Reading /\ ~t.panicked /\ inbound' = inbound /\ caller[r] = "live" /\ answer'[r] # None
      BY <1>1, <1>3, <2>3, <2>7 DEF Reading, Live, Served
    <3>2. CASE answer[r] # None
      <4>1. Whole(r) /\ answer'[r] = answer[r]
        BY <3>1, <3>2, AnswersKept DEF DInv, Served
      <4>. QED BY <1>1, <3>1, <4>1 DEF Whole, Seen
    <3>3. CASE answer[r] = None
      <4>1. cmd.type = "Subscribe" /\ cmd.request = r
        BY <1>1, <2>1, <2>4, <3>1, <3>3, StepAnswers
      <4>2. \A q \in Seq(ClientCommand) : t.answer = [s.answer EXCEPT ![r] = s.sid_generator]
        BY <1>1, <2>1, <3>1, <4>1, StepWire
      <4>3. <<>> \in Seq(ClientCommand)
        OBVIOUS
      <4>4. answer'[r] = sid_generator
        BY <2>1, <2>4, <4>2, <4>3 DEF StepState
      <4>5. \A sid \in DOMAIN server.serials : sid < sid_generator
        BY <3>1 DEF Sids, Reading
      <4>6. sid_generator \notin DOMAIN server.serials
        BY <4>5 DEF TInv, FieldsTyped
      <4>7. \A i \in DOMAIN inbound : inbound[i] \notin Deliveries(sid_generator)
        <5> DEFINE C == Counted
        <5>1. inbound \in Seq(C)
          BY DEF DInv
        <5>2. \A m \in C : m \notin Deliveries(sid_generator)
          BY <4>6, DeliveriesAre DEF Counted
        <5> HIDE DEF C
        <5>. QED BY <5>1, <5>2
      <4>8. msg_chan[r] = <<>> /\ taken[r] = 0
        BY <3>3 DEF DInv, Untold
      <4>9. Seen(r)' = 0
        BY <1>1, <4>4, <4>6 DEF Seen
      <4>10. Delivered(sid_generator, <<>>, inbound, 0, 0)
        BY <4>7, DeliveredNone
      <4>. QED BY <1>1, <3>1, <4>4, <4>8, <4>9, <4>10 DEF Whole
    <3>. QED BY <3>2, <3>3
  <2>. QED BY <2>5, <2>6, <2>7 DEF DInv
<1>. QED BY <1>2, <1>3

\* A channel is emptied with its receiver, or loses the message its stream yields.
LEMMA DInvChannel ==
    ASSUME TInv, AllOnce, [Next]_cvars, DInv, NEW r \in Requests,
           UNCHANGED <<answer, inbound, server, task, conn_state>>,
           \/ caller' = [caller EXCEPT ![r] = "gone"]
              /\ msg_chan' = [msg_chan EXCEPT ![r] = <<>>] /\ UNCHANGED taken
           \/ NextMessage(r)
    PROVE  DInv'
<1>1. /\ msg_chan \in [Requests -> Seq(Message)] /\ taken \in [Requests -> Nat]
      /\ caller \in [Requests -> {"idle", "live", "gone"}]
  BY DEF TInv, FieldsTyped, CallerTyped, UsersTyped
<1>2. /\ \A q \in Requests : q # r => msg_chan'[q] = msg_chan[q] /\ taken'[q] = taken[q]
      /\ \/ caller'[r] = "gone" /\ msg_chan'[r] = <<>> /\ UNCHANGED taken
         \/ /\ r \in holds /\ msg_chan[r] # <<>> /\ msg_chan'[r] = Tail(msg_chan[r])
            /\ taken'[r] = Head(msg_chan[r]).payload
  BY <1>1 DEF NextMessage, TakeMsg
<1>3. Untold'
  BY <1>2 DEF DInv, Untold, TInv, HoldersAnswered
<1>4. inbound' \in Seq(Counted')
  <2>1. Counted' = Counted
    BY DEF Counted
  <2>. QED BY <2>1 DEF DInv
<1>5. ASSUME NEW q \in Requests, Reading', Served(q)' PROVE Whole(q)'
  <2>1. Reading /\ Served(q) /\ Seen(q)' = Seen(q)
    BY <1>5, CallersStep DEF Reading, Live, Served, Seen
  <2>2. Whole(q)
    BY <2>1 DEF DInv
  <2>3. CASE q # r
    BY <1>2, <2>1, <2>2, <2>3 DEF Whole
  <2>4. CASE q = r
    <3>1. /\ msg_chan[r] # <<>> /\ msg_chan'[r] = Tail(msg_chan[r])
          /\ taken'[r] = Head(msg_chan[r]).payload
      BY <1>2, <1>5, <2>4 DEF Served
    <3>2. Delivered(answer[r], Tail(msg_chan[r]), inbound, Head(msg_chan[r]).payload, Seen(r))
      BY <1>1, <2>2, <2>4, <3>1, DeliveredTake DEF Whole
    <3>. QED BY <2>1, <2>4, <3>1, <3>2 DEF Whole
  <2>. QED BY <2>3, <2>4
<1>. QED BY <1>3, <1>4, <1>5 DEF DInv

\* Every step keeps the messages of every subscription whole.
LEMMA DInvStep == TInv /\ RInv /\ SInv /\ DInv /\ [Next]_cvars => DInv'
<1> SUFFICES ASSUME TInv, RInv, SInv, DInv, [Next]_cvars PROVE DInv'
  OBVIOUS
<1>1. AllOnce /\ Unanswered /\ Sids
  BY DEF RInv, SInv
<1>2. ASSUME UNCHANGED <<answer, msg_chan, taken, inbound, server, task, conn_state>> PROVE DInv'
  BY <1>1, <1>2, DInvQuiet DEF Live
<1>3. CASE ReadCommand
  BY <1>1, <1>3, DInvInfo, DInvRead
<1>4. ASSUME NEW t,
             HandleSendPingTimeout(t) \/ HandleSendPongTimeout(t) \/ HandleKeepAliveTimeout(t),
             UNCHANGED <<taken, server>>, inbound' \in {inbound, <<>>},
             conn_state' # "Panicked" => UNCHANGED <<inbound, task>>
      PROVE  DInv'
  <2>1. UNCHANGED <<answer, msg_chan>> /\ (UNCHANGED conn_state \/ conn_state' = "ConnectionLost")
    BY <1>4
       DEF HandleSendPingTimeout, HandleSendPongTimeout, HandleKeepAliveTimeout, Enqueue, Leave,
           binding
  <2>2. CASE conn_state' # "InfoReceived"
    BY <1>4, <2>1, <2>2, DInvLeft DEF Live
  <2>3. CASE conn_state' = "InfoReceived"
    <3>1. UNCHANGED <<conn_state, inbound, task>>
      BY <1>4, <2>1, <2>3
    <3>. QED BY <1>2, <1>4, <2>1, <3>1
  <2>. QED BY <2>2, <2>3
<1>5. CASE TickPing \/ TickPong \/ TickKeepAlive
  BY <1>4, <1>5 DEF TickPing, TickPong, TickKeepAlive, Loop, user
<1>6. CASE ReadError
  <2>1. /\ UNCHANGED <<answer, msg_chan, taken, server, conn_state>>
        /\ inbound' = <<>> \/ inbound' = <<Eof>>
        /\ conn_state' # "Panicked" => inbound' = <<Eof>>
    BY <1>6 DEF ReadError, Loop, binding, user
  <2>2. Untold'
    BY <2>1 DEF DInv, Untold
  <2>3. ~Reading'
    BY <2>1 DEF Reading, Live
  <2>4. inbound' \in Seq(Counted')
    <3> DEFINE D == Counted'
    <3>1. Eof \in D
      BY DEF Counted, Inbound, Eof
    <3> HIDE DEF D
    <3>2. <<>> \in Seq(D) /\ <<Eof>> \in Seq(D)
      BY <3>1
    <3>. QED BY <2>1, <3>2 DEF D
  <2>. QED BY <2>2, <2>3, <2>4 DEF DInv
<1>7. CASE ReadEof
  BY <1>7, DInvLeft DEF ReadEof, Live, user
<1>8. CASE Transmit \/ Tick \/ UNCHANGED cvars
  BY <1>2, <1>8 DEF Transmit, PollTransmit, Tick, cvars, binding, loop, net, user
<1>9. ASSUME NEW m \in Inbound, m.type \notin {"MSG", "HMSG"}, ServerSends(m),
             server'.serials = server.serials
      PROVE  DInv'
  BY <1>1, <1>9, DInvSend DEF ServerSends, Live, binding, loop, user
<1>10. server \in ServerState
  BY DEF TInv, ServerTyped
<1>11. CASE Greet \/ ServerPings \/ ServerGarbles \/ ServerCloses
  <2>1. server'.serials = server.serials
    BY <1>10, <1>11 DEF Greet, ServerPings, ServerGarbles, ServerCloses, ServerState
  <2>2. \A m \in {Info, OkOrErr, SPing, Garbled, Eof} : m \in Inbound /\ m.type \notin {"MSG", "HMSG"}
    BY DEF Inbound, Info, OkOrErr, SPing, Garbled, Eof
  <2>3. \E m \in {Info, OkOrErr, SPing, Garbled, Eof} : ServerSends(m)
    BY <1>11 DEF Greet, ServerPings, ServerGarbles, ServerCloses
  <2>. QED BY <1>9, <2>1, <2>2, <2>3
<1>12. CASE ServerHangs
  <2>1. server'.serials = server.serials
    BY <1>10, <1>12 DEF ServerHangs, ServerState
  <2>. QED BY <1>1, <1>12, <2>1, DInvQuiet DEF ServerHangs, Live, binding, loop, user
<1>13. ASSUME NEW r \in Requests, CallSubscribe(r) PROVE DInv'
  BY <1>2, <1>13 DEF CallSubscribe, binding, net, user
<1>14. ASSUME NEW r \in Requests, SubscribeReturns(r) \/ CancelSubscribe(r) \/ DropSubscriber(r)
       PROVE  DInv'
  <2>1. \/ UNCHANGED <<answer, msg_chan, taken, inbound, server, task, conn_state>>
        \/ /\ UNCHANGED <<answer, taken, inbound, server, task, conn_state>>
           /\ caller' = [caller EXCEPT ![r] = "gone"]
           /\ msg_chan' = [msg_chan EXCEPT ![r] = <<>>]
    BY <1>14
       DEF SubscribeReturns, CancelSubscribe, DropSubscriber, DropReceiver, binding, loop, net, user
  <2>. QED BY <1>1, <1>2, <2>1, DInvChannel
<1>15. ASSUME NEW r \in Requests, NextMessage(r) PROVE DInv'
  BY <1>1, <1>15, DInvChannel DEF NextMessage, TakeMsg, loop, net
<1>16. CASE CallPublish
  BY <1>2, <1>16 DEF CallPublish, binding, net, user
<1>. QED BY <1>1, <1>3, <1>5, <1>6, <1>7, <1>8, <1>11, <1>12, <1>13, <1>14, <1>15, <1>16,
            DInvRecv, DInvServe, DInvDeliver, ConnectionAssumption
         DEF Next, Run, Users, Server

\* No message is lost, repeated, reordered or misrouted on its way to a Subscriber that is
\* wanted, until the stream is at its end: for every number of subscriptions and messages,
\* with commands and messages crossing, sids of the past still on the way, and Subscribers
\* dropped at any time.
THEOREM MessagesDelivered == Spec => []NoMessageLost
<1>1. TInv /\ DInv => NoMessageLost
  <2> SUFFICES ASSUME TInv, DInv, Reading, NEW r \in Requests, caller[r] = "live",
                      answer[r] \in DOMAIN server.serials
               PROVE  /\ \A i \in DOMAIN msg_chan[r] : msg_chan[r][i].sid = answer[r]
                      /\ InOrder(msg_chan[r] \o inbound, Deliveries(answer[r]), taken[r],
                                 server.serials[answer[r]])
    BY DEF NoMessageLost, Reading
  <2>1. answer[r] # None
    BY BySidIs, NoneAssumption DEF TInv, ServerTyped, ServerState
  <2>2. Whole(r) /\ Seen(r) = server.serials[answer[r]]
    BY <2>1 DEF DInv, Served, Seen
  <2>3. PICK mid \in Nat : /\ InOrder(msg_chan[r], Deliveries(answer[r]), taken[r], mid)
                           /\ InOrder(inbound, Deliveries(answer[r]), mid, Seen(r))
    BY <2>2 DEF Whole, Delivered
  <2>4. inbound \in Seq(Inbound)
    BY DEF TInv, StreamsTyped
  <2>5. InOrder(msg_chan[r] \o inbound, Deliveries(answer[r]), taken[r], Seen(r))
    BY <2>3, <2>4, WholeTyped, DeliveriesAre, OrderConcat
  <2>. QED BY <2>2, <2>5 DEF Whole, Delivered
<1>2. Init => RInv /\ SInv /\ DInv
  BY HeededInit, OnceInit, AbreastInit, SidsInit, DInvInit DEF RInv, SInv
<1>3. TInv /\ Heeded /\ RInv /\ SInv /\ DInv /\ [Next]_cvars => RInv' /\ SInv' /\ DInv'
  BY HeededStep, OnceStep, AbreastStep, SidsStep, DInvStep DEF RInv
<1>. QED BY <1>1, <1>2, <1>3, TInvInit, TInvStep, HeededInit, HeededStep, PTL DEF Spec, RInv

=============================================================================
