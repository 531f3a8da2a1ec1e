---------------------------- MODULE FramingProofs ---------------------------
(***************************************************************************)
(* Theorems about FramedReader, for any scripts, chunks and limits.  Fate  *)
(* says what may become of a buffer that holds the beginning of an item;   *)
(* one lemma per kind of item proves it, from how the item is written and  *)
(* read.  The inductive invariant adds where in the script the buffer      *)
(* stands.  RoundTrip and DecodeStable are about one call of decode.       *)
(***************************************************************************)
EXTENDS FramedReader, CodecProofs

-----------------------------------------------------------------------------
(* Items.                                                                  *)

LEMMA VerbIs ==
    ASSUME NEW c, NEW verb \in Verbs(c)
    PROVE  verb \in Token /\ verb # "CR"
<1>1. Verbs(c) = Verbs("ServerCodec") \/ Verbs(c) = Verbs("ClientCodec")
  BY DEF Verbs
<1>2. verb \in Token
  BY <1>1 DEF Token
<1>3. verb # "CR"
  BY DEF Verbs
<1>. QED BY <1>2, <1>3

LEMMA StringsAreTokens ==
    ASSUME NEW tokens \in Seq(STRING)
    PROVE  tokens \in Buffer
<1>1. tokens \in [1..Len(tokens) -> STRING] /\ Len(tokens) \in Nat
  OBVIOUS
<1>2. tokens \in [1..Len(tokens) -> Token]
  BY <1>1 DEF Token
<1>3. \A S : \A n \in Nat : \A f \in [1..n -> S] : f \in Seq(S)
  OBVIOUS
<1>. QED BY <1>1, <1>2, <1>3, Zenon DEF Buffer

LEMMA PlainIs ==
    ASSUME NEW tokens, Plain(tokens)
    PROVE  tokens \in Buffer /\ Range(tokens) \cap {"CR", "LF", "bin"} = {} /\ Utf8(tokens)
<1>1. tokens \in Buffer
  BY StringsAreTokens DEF Plain
<1>. QED BY <1>1 DEF Plain, Utf8

LEMMA NoHeadersRead ==
    ASSUME NEW verb, NEW fields, NEW payload
    PROVE  AsRead(Frame(verb, fields, NoHeaders, payload)) = Frame(verb, fields, NoHeaders, payload)
BY DEF AsRead, Frame, NoHeaders

\* What may become of a buffer that holds what has arrived of an item, with what follows.
Fate(c, item, src) ==
    LET result == Decode(c, src)
    IN  \/ /\ item.frame # <<>> /\ Len(src) >= Len(item.bytes)
           /\ result = Advance(AsRead(item.frame), Len(item.bytes))
        \/ /\ result = FrameTooShort
           /\ \/ Len(src) < Len(item.bytes)
              \/ /\ item.frame = <<>>
                 /\ \/ item.bytes[1] \in Bare \cup Headed \cup {"MSG"}
                    \/ item.bytes[1] \notin Verbs(c) /\ Bytes(src) < LongestPrefix(c)
        \/ /\ result.outcome = "error"
           /\ \/ item.frame = <<>>
              \/ item.frame.verb \in Loaded /\ Crlfs(item.frame.payload) # {}
              \/ item.frame.verb \in Headed /\ ColonInHeaders(item.frame.headers)
        \/ /\ result = Panic
           /\ \/ item.bytes[1] \in Headed /\ Len(src) < Len(item.bytes)
              \/ item.bytes[1] = "HPUB" /\ ~Utf8(item.bytes)

-----------------------------------------------------------------------------
(* Short commands.                                                         *)

\* Their line, and what their decoders make of it.
LineOf(f) == IF f.verb = "-ERR" THEN <<"'">> \o f.fields \o <<"'">> ELSE f.fields

LEMMA Quoted ==
    ASSUME NEW text \in Buffer, NEW line, line = <<"'">> \o text \o <<"'">>
    PROVE  /\ line \in Buffer /\ SubSeq(line, 2, Len(line) - 1) = text
           /\ Range(line) \subseteq Range(text) \cup {"'"}
<1> DEFINE q == <<"'">>
           s == q \o text
<1>1. q \in Buffer /\ Len(q) = 1 /\ q[1] = "'" /\ Range(q) = {"'"}
  <2>1. "'" \in Token
    BY Zenon DEF Token
  <2>. QED BY <2>1, OneToken, Zenon
<1>2. Len(text) \in Nat
  BY DEF Buffer
<1> HIDE DEF q
<1>3. /\ s \in Buffer /\ Len(s) = Len(q) + Len(text) /\ Range(s) = Range(q) \cup Range(text)
      /\ \A i \in 1..Len(text) : s[Len(q) + i] = text[i]
  BY <1>1, Joined, Zenon
<1>4. line = s \o q
  BY Zenon DEF q
<1> HIDE DEF s
<1>5. /\ line \in Buffer /\ Len(line) = Len(s) + Len(q) /\ Range(line) = Range(s) \cup Range(q)
      /\ \A i \in 1..Len(s) : line[i] = s[i]
  <2>1. /\ s \o q \in Buffer /\ Len(s \o q) = Len(s) + Len(q)
        /\ Range(s \o q) = Range(s) \cup Range(q)
        /\ \A i \in 1..Len(s) : (s \o q)[i] = s[i]
    BY <1>1, <1>3, Joined, Zenon
  <2>. QED BY <1>4, <2>1, Zenon
<1>7. Len(line) = Len(text) + 2 /\ \A i \in 1..Len(text) : line[i + 1] = text[i]
  BY <1>1, <1>2, <1>3, <1>5
<1>8. SubSeq(line, 2, Len(line) - 1) = text
  <2> DEFINE sub == SubSeq(line, 2, Len(text) + 1)
  <2>1. sub \in Buffer /\ Len(sub) = Len(text) /\ \A i \in 1..Len(text) : sub[i] = line[i + 1]
    BY <1>2, <1>5, <1>7 DEF Buffer
  <2> HIDE DEF sub
  <2>2. sub = text
    <3>1. \A i \in 1..Len(text) : sub[i] = text[i]
      BY <1>7, <2>1, Zenon
    <3>2. Len(sub) = Len(text) /\ \A i \in 1..Len(sub) : sub[i] = text[i]
      BY <2>1, <3>1, Zenon
    <3>. QED BY <1>2, <2>1, <3>2, SameBytes, Zenon
  <2>3. Len(line) - 1 = Len(text) + 1
    BY <1>2, <1>7 DEF Buffer
  <2>. QED BY <2>2, <2>3, Zenon DEF sub
<1>. QED BY <1>1, <1>3, <1>5, <1>8

LEMMA ShortVerbs ==
    ASSUME NEW c, NEW verb \in Verbs(c), verb \notin Loaded \cup Headed
    PROVE  verb \in Bare \cup Json \cup {"-ERR", "SUB", "UNSUB"}
BY Zenon DEF Verbs, Loaded, Headed, Bare, Json

\* What is written between a verb and CRLF is the line.
Between(v, q, text, end) ==
    (((v \o q) \o text) \o q) \o end = v \o (((q \o text) \o q) \o end)

LEMMA QuotedLine ==
    ASSUME NEW v \in Buffer, NEW q \in Buffer, NEW text \in Buffer, NEW end \in Buffer
    PROVE  Between(v, q, text, end)
<1> DEFINE quoted == q \o text
           line == quoted \o q
<1>1. Associated(v, q, text) /\ quoted \in Buffer
  BY Associate, JoinedIn, Zenon
<1> HIDE DEF quoted
<1>2. Associated(v, quoted, q) /\ line \in Buffer
  BY <1>1, Associate, JoinedIn, Zenon
<1> HIDE DEF line
<1>3. Associated(v, line, end)
  BY <1>2, Associate, Zenon
<1>. QED BY <1>1, <1>2, <1>3, Zenon DEF line, quoted, Between, Associated

LEMMA ShortLayout ==
    ASSUME NEW c, NEW item, WellFormed(c, item), item.frame.verb \notin Loaded \cup Headed
    PROVE  Lined(item.bytes, item.frame.verb, LineOf(item.frame), <<>>)
<1> DEFINE f == item.frame
           line == LineOf(f)
<1> SUFFICES Lined(item.bytes, f.verb, line, <<>>)
  OBVIOUS
<1>0. f.verb \notin Loaded \cup Headed
  OBVIOUS
<1>1. /\ f.verb \in Verbs(c) /\ f = Short(f.verb, f.fields) /\ Plain(f.fields)
      /\ item.bytes = Layout(f, item.headers)
  BY DEF WellFormed
<1>2. <<>> \in Buffer
  BY DEF Buffer
<1>3. f.fields \in Buffer /\ "CR" \notin Range(f.fields) /\ f.verb \in Token
      /\ f.verb # "CR"
  BY <1>1, PlainIs, VerbIs
<1>4. CASE f.verb = "-ERR"
  <2> DEFINE v == <<f.verb>>
             q == <<"'">>
             text == f.fields
             end == CRLF
  <2>1. line = (q \o text) \o q /\ item.bytes = ((<<"-ERR", "'">> \o text) \o q) \o end
    <3>1. Layout(f, item.headers) = <<"-ERR", "'">> \o f.fields \o <<"'">> \o CRLF
      BY <1>0, <1>4, Zenon DEF Layout, Loaded, Headed
    <3>2. line = <<"'">> \o f.fields \o <<"'">>
      BY <1>4, Zenon DEF LineOf
    <3>. QED BY <1>1, <3>1, <3>2, Zenon
  <2>2. <<"-ERR", "'">> = v \o q
    BY <1>4
  <2>3. "'" \in Token
    BY Zenon DEF Token
  <2>4. v \in Buffer /\ q \in Buffer /\ text \in Buffer /\ end \in Buffer
    BY <1>3, <2>3, OneToken, CrlfIs, Zenon
  <2>5. line \in Buffer /\ Range(line) \subseteq Range(f.fields) \cup {"'"}
    BY <1>3, <2>1, Quoted, Zenon
  <2> HIDE DEF v, q, text, end, line, f
  <2>6. item.bytes = (((v \o q) \o text) \o q) \o end
    BY <2>1, <2>2, Zenon
  <2>9. line \o end \in Buffer
    BY <2>4, <2>5, JoinedIn, Zenon
  <2>10. item.bytes = v \o (line \o end)
    <3>1. Between(v, q, text, end)
      BY <2>4, QuotedLine, Zenon
    <3>. QED BY <2>1, <2>6, <3>1, Zenon DEF Between
  <2>11. (line \o end) \o <<>> = line \o end
    BY <2>9, ConcatEmptySeq, Zenon DEF Buffer
  <2>12. item.bytes = v \o ((line \o end) \o <<>>)
    BY <2>10, <2>11, Zenon
  <2>13. "CR" \notin Range(line)
    BY <1>3, <2>5
  <2>. QED BY <1>1, <1>2, <1>3, <2>5, <2>12, <2>13, Zenon DEF v, end, Lined
<1>5. CASE f.verb # "-ERR"
  <2> DEFINE v == <<f.verb>>
             end == CRLF
  <2>1. line = f.fields /\ item.bytes = (v \o line) \o end
    <3>1. Layout(f, item.headers) = <<f.verb>> \o f.fields \o CRLF
      BY <1>0, <1>5, Zenon DEF Layout, Loaded, Headed
    <3>2. line = f.fields
      BY <1>5, Zenon DEF LineOf
    <3>. QED BY <1>1, <3>1, <3>2, Zenon
  <2>2. v \in Buffer /\ line \in Buffer /\ end \in Buffer
    BY <1>3, <2>1, OneToken, CrlfIs, Zenon
  <2> HIDE DEF v, end, line, f
  <2>3. Associated(v, line, end) /\ line \o end \in Buffer
    BY <2>2, Associate, JoinedIn, Zenon
  <2>4. (line \o end) \o <<>> = line \o end
    BY <2>3, ConcatEmptySeq, Zenon DEF Buffer
  <2>5. item.bytes = v \o ((line \o end) \o <<>>)
    BY <2>1, <2>3, <2>4, Zenon DEF Associated
  <2>. QED BY <1>1, <1>2, <1>3, <2>1, <2>2, <2>5, Zenon DEF v, end, Lined
<1>. QED BY <1>4, <1>5

LEMMA ShortDecoded ==
    ASSUME NEW c, NEW f, f.verb \in Verbs(c), f.verb \notin Loaded \cup Headed,
           f = Short(f.verb, f.fields), Plain(f.fields), Fits(f.verb, LineOf(f)),
           NEW body, Metadata(body) = LineOf(f)
    PROVE  DecodeBody(f.verb, body) = Advance(f, MetadataLen(body))
<1>1. f.verb \in Bare \cup Json \cup {"-ERR", "SUB", "UNSUB"}
  BY ShortVerbs
<1>2. CASE f.verb \in Bare
  <2>1. LineOf(f) = f.fields /\ f.fields = <<>>
    BY <1>2, Zenon DEF Fits, LineOf, Bare
  <2>2. DecodeBare(f.verb, body) = Advance(Short(f.verb, <<>>), MetadataLen(body))
    BY Zenon DEF DecodeBare
  <2>. QED BY <1>2, <2>1, <2>2, DecodeBodyIs, Zenon
<1>3. CASE f.verb \in Json
  <2>1. LineOf(f) = f.fields /\ f.fields = <<"json">>
    BY <1>3, Zenon DEF Fits, LineOf, Json
  <2>2. DecodeJson(f.verb, body) = Advance(Short(f.verb, <<"json">>), MetadataLen(body))
    BY Zenon DEF DecodeJson
  <2>. QED BY <1>3, <2>1, <2>2, DecodeBodyIs, Zenon
<1>4. CASE f.verb = "-ERR"
  <2> DEFINE line == LineOf(f)
  <2>1. line = <<"'">> \o f.fields \o <<"'">>
    BY <1>4, Zenon DEF LineOf
  <2>2. f.fields \in Buffer
    BY PlainIs
  <2> HIDE DEF line
  <2>3. SubSeq(line, 2, Len(line) - 1) = f.fields
    BY <2>1, <2>2, Quoted, Zenon
  <2>4. DecodeErr(body) = Advance(Short("-ERR", SubSeq(line, 2, Len(line) - 1)), MetadataLen(body))
    BY <1>4, Zenon DEF DecodeErr, line
  <2>. QED BY <1>4, <2>3, <2>4, DecodeBodyIs, Zenon
<1>5. CASE f.verb \in {"SUB", "UNSUB"}
  <2>1. LineOf(f) = f.fields
    BY <1>5, Zenon DEF LineOf
  <2>2. DecodeFields(f.verb, body) = Advance(Short(f.verb, f.fields), MetadataLen(body))
    BY <2>1, Zenon DEF DecodeFields
  <2>. QED BY <1>5, <2>2, DecodeBodyIs, Zenon
<1>. QED BY <1>1, <1>2, <1>3, <1>4, <1>5, Zenon

\* A frame of the decoder counts from the start of its body, one of the codec from the verb.
LEMMA Counted ==
    ASSUME NEW c, NEW src, LineEnds(src) # {}, src[1] \in Verbs(c),
           NEW frame, NEW n \in Nat, DecodeBody(src[1], Tail(src)) = Advance(frame, n)
    PROVE  Decode(c, src) = Advance(frame, n + 1)
<1> DEFINE result == DecodeBody(src[1], Tail(src))
<1>1. result = [outcome |-> "frame", frame |-> frame, consume |-> n]
  BY DEF Advance
<1>2. Decode(c, src) = IF result.outcome = "frame" THEN [result EXCEPT !.consume = @ + 1]
                       ELSE result
  BY DecodeIs, Zenon
<1> HIDE DEF result
<1>3. Decode(c, src) = [result EXCEPT !.consume = @ + 1]
  BY <1>1, <1>2
<1>4. [result EXCEPT !.consume = @ + 1] = [outcome |-> "frame", frame |-> frame, consume |-> n + 1]
  BY <1>1
<1>. QED BY <1>3, <1>4, Zenon DEF Advance

LEMMA NotCounted ==
    ASSUME NEW c, NEW src, LineEnds(src) # {}, src[1] \in Verbs(c),
           DecodeBody(src[1], Tail(src)).outcome # "frame"
    PROVE  Decode(c, src) = DecodeBody(src[1], Tail(src))
BY DecodeIs, Zenon

LEMMA ShortFate ==
    ASSUME NEW c, NEW item, WellFormed(c, item), item.frame.verb \notin Loaded \cup Headed,
           item.frame # <<>>,
           NEW src, NEW full, Begins(item.bytes, full), Begins(src, full)
    PROVE  Fate(c, item, src)
<1> DEFINE f == item.frame
           line == LineOf(f)
           bytes == item.bytes
<1>0. LineEnds(bytes) # {}
  BY DEF WellFormed
<1>1. f.verb \in Verbs(c) /\ f = Short(f.verb, f.fields) /\ Plain(f.fields)
  BY DEF WellFormed
<1>2. Fits(f.verb, line)
  BY Zenon DEF WellFormed, LineOf
<1>3. Lined(bytes, f.verb, line, <<>>)
  BY ShortLayout, Zenon
<1>4. Len(bytes) = Len(line) + 3 /\ Len(line) \in Nat
  <2>1. Len(bytes) = Len(line) + 3 + Len(<<>>)
    <3>1. LinedFacts(bytes, f.verb, line, <<>>)
      BY <1>3, LineOfItem, Zenon
    <3>. QED BY <3>1, Zenon DEF LinedFacts
  <2>2. line \in Buffer
    BY <1>3, Zenon DEF Lined
  <2>. QED BY <2>1, <2>2 DEF Buffer
<1>5. CASE LineEnds(src) = {}
  BY <1>0, <1>5, LineArrives, Zenon DEF Fate
<1>6. CASE LineEnds(src) # {}
  <2>1. /\ src[1] = f.verb /\ Metadata(Tail(src)) = line /\ MetadataLen(Tail(src)) = Len(line) + 2
        /\ Len(line) + 3 <= Len(src) /\ Len(src) \in Nat
    <3>1. ArrivedFacts(src, full, bytes, f.verb, line)
      BY <1>0, <1>3, <1>6, LineOfItemArrived, Zenon
    <3>. QED BY <3>1, Zenon DEF ArrivedFacts
  <2>2. DecodeBody(f.verb, Tail(src)) = Advance(f, Len(line) + 2)
    BY <1>1, <1>2, <2>1, ShortDecoded, Zenon
  <2>3. Len(line) + 2 \in Nat /\ (Len(line) + 2) + 1 = Len(bytes) /\ Len(src) >= Len(bytes)
    BY <1>4, <2>1
  <2>4. Decode(c, src) = Advance(f, (Len(line) + 2) + 1)
    BY <1>1, <1>6, <2>1, <2>2, <2>3, Counted
  <2>5. AsRead(f) = f
    BY <1>1, NoHeadersRead, Zenon DEF Short
  <2>. QED BY <2>3, <2>4, <2>5, Zenon DEF Fate
<1>. QED BY <1>5, <1>6

-----------------------------------------------------------------------------
(* MSG and PUB.                                                            *)

\* What is written behind a verb is a line and the rest.
Behind(v, fields, n, c, p) ==
    ((((v \o fields) \o n) \o c) \o p) \o c = v \o (((fields \o n) \o c) \o (p \o c))

LEMMA BehindIs ==
    ASSUME NEW v \in Buffer, NEW fields \in Buffer, NEW n \in Buffer, NEW c \in Buffer,
           NEW p \in Buffer
    PROVE  Behind(v, fields, n, c, p)
<1> DEFINE line == fields \o n
           head == line \o c
           tail == p \o c
           front == v \o head
<1>1. Associated(v, fields, n) /\ line \in Buffer
  BY Associate, JoinedIn, Zenon
<1> HIDE DEF line
<1>2. Associated(v, line, c) /\ head \in Buffer
  BY <1>1, Associate, JoinedIn, Zenon
<1> HIDE DEF head
<1>3. front \in Buffer /\ tail \in Buffer
  BY <1>2, JoinedIn, Zenon
<1> HIDE DEF front, tail
<1>4. Associated(front, p, c) /\ Associated(v, head, tail)
  BY <1>2, <1>3, Associate, Zenon
<1>5. (v \o fields) \o n = v \o line /\ (v \o line) \o c = front
  BY <1>1, <1>2, Zenon DEF Associated, line, head, front
<1>6. (front \o p) \o c = v \o (head \o tail)
  BY <1>4, Zenon DEF Associated, front, tail
<1>. QED BY <1>5, <1>6, Zenon DEF Behind, line, head, tail

LEMMA LoadedLayout ==
    ASSUME NEW c, NEW item, WellFormed(c, item), item.frame.verb \in Loaded
    PROVE  /\ Lined(item.bytes, item.frame.verb,
                    item.frame.fields \o <<Numeral[Len(item.frame.payload)]>>,
                    item.frame.payload \o CRLF)
           /\ Ends(item.frame.fields \o <<Numeral[Len(item.frame.payload)]>>,
                   item.frame.fields, Numeral[Len(item.frame.payload)])
           /\ item.frame.payload \in Buffer /\ Len(item.frame.payload) \in 0..MaxNumber
<1> DEFINE f == item.frame
           v == <<f.verb>>
           number == Numeral[Len(f.payload)]
           n == <<number>>
           end == CRLF
           fields == f.fields
           payload == f.payload
<1>1. /\ f.verb \in Verbs(c) /\ Plain(fields) /\ payload \in Seq(STRING)
      /\ item.bytes = Layout(f, item.headers) /\ Len(payload) <= MaxNumber
  BY DEF WellFormed
<1>2. fields \in Buffer /\ "CR" \notin Range(fields) /\ payload \in Buffer
  BY <1>1, PlainIs, StringsAreTokens
<1>3. Len(payload) \in 0..MaxNumber
  BY <1>1, <1>2, LimitAssumption DEF Buffer
<1>4. number \in Token /\ number # "CR"
  BY <1>3, NumeralIs
<1>5. f.verb \in Token /\ f.verb # "CR"
  BY <1>1, VerbIs
<1>6. item.bytes = (((((v \o fields) \o n) \o end) \o payload) \o end)
  BY <1>1, Zenon DEF Layout, Loaded, Headed
<1>7. v \in Buffer /\ n \in Buffer /\ end \in Buffer
  BY <1>4, <1>5, OneToken, CrlfIs, Zenon
<1> HIDE DEF number
<1>8. Ends(fields \o <<number>>, fields, number)
  BY <1>2, <1>4, EndsIs, Zenon
<1>9. fields \o n \in Buffer /\ "CR" \notin Range(fields \o n)
  <2> DEFINE line == fields \o n
  <2>1. Ends(line, fields, number)
    BY <1>8, Zenon
  <2> HIDE DEF line
  <2>2. line \in Buffer /\ Range(line) = Range(fields) \cup {number}
    BY <2>1, Zenon DEF Ends
  <2>3. "CR" \notin Range(line)
    BY <1>2, <1>4, <2>2
  <2>. QED BY <2>2, <2>3, Zenon DEF line
<1>10. payload \o end \in Buffer
  BY <1>2, <1>7, JoinedIn, Zenon
<1> HIDE DEF v, n, end, fields, payload
<1>11. Behind(v, fields, n, end, payload)
  BY <1>2, <1>7, BehindIs, Zenon
<1>12. item.bytes = v \o (((fields \o n) \o end) \o (payload \o end))
  BY <1>6, <1>11, Zenon DEF Behind
<1>13. Lined(item.bytes, f.verb, fields \o n, payload \o end)
  BY <1>5, <1>9, <1>10, <1>12, Zenon DEF Lined, v, end
<1>. QED BY <1>2, <1>3, <1>8, <1>13, Zenon DEF n, number, fields, payload, end

\* A body of a line, a payload and CRLF.
Holds(bytes, m, payload) ==
    /\ Crlfs(bytes) # {} /\ MetadataLen(bytes) = m
    /\ PayloadEnds(bytes) = {i + m : i \in Crlfs(payload) \cup {Len(payload) + 1}}
    /\ Len(bytes) = m + Len(payload) + 2
    /\ \A i \in 1..Len(payload) : bytes[m + i] = payload[i]

LEMMA HoldsPayload ==
    ASSUME NEW bytes, NEW verb, NEW line, NEW payload \in Buffer,
           Lined(bytes, verb, line, payload \o CRLF)
    PROVE  Holds(Tail(bytes), Len(line) + 2, payload)
<1> DEFINE rest == payload \o CRLF
           body == Tail(bytes)
           L == Len(payload)
           N == Len(line)
<1>1. LinedFacts(bytes, verb, line, rest) /\ line \in Buffer
  BY LineOfItem, Zenon DEF Lined
<1>2. /\ rest \in Buffer /\ Len(rest) = L + 2
      /\ \A i \in 1..L : rest[i] = payload[i]
      /\ Crlfs(rest) = Crlfs(payload) \cup {L + 1}
  BY CrlfsOfPayload, Zenon
<1> HIDE DEF rest
<1>3. /\ Len(body) = N + 2 + Len(rest) /\ MetadataLen(body) = N + 2 /\ Crlfs(body) # {}
      /\ PayloadEnds(body) = {i + N + 2 : i \in Crlfs(rest)}
      /\ \A i \in 1..Len(rest) : body[N + 2 + i] = rest[i]
  BY <1>1, Zenon DEF LinedFacts
<1>4. L \in Nat /\ N \in Nat /\ Crlfs(rest) \in SUBSET Nat
  BY <1>1, <1>2, CrlfsIs DEF Buffer
<1> HIDE DEF body, N, L
<1>5. PayloadEnds(body) = {i + (N + 2) : i \in Crlfs(payload) \cup {L + 1}}
  <2>1. \A i \in Crlfs(rest) : i + N + 2 = i + (N + 2)
    BY <1>4
  <2>. QED BY <1>2, <1>3, <2>1
<1>6. Len(body) = (N + 2) + L + 2
  BY <1>2, <1>3, <1>4
<1>7. \A i \in 1..L : body[(N + 2) + i] = payload[i]
  BY <1>2, <1>3, <1>4
<1>. QED BY <1>3, <1>5, <1>6, <1>7, Zenon DEF Holds, body, N, L

\* What has arrived of it.
LEMMA PayloadArrives ==
    ASSUME NEW payload \in Buffer, NEW m \in Nat,
           NEW body, NEW bytes, NEW full, Begins(bytes, full), Begins(body, full),
           Crlfs(body) # {}, MetadataLen(body) = m, Holds(bytes, m, payload)
    PROVE  /\ PayloadEnds(body) = {} => Len(body) < Len(bytes)
           /\ PayloadEnds(body) # {} /\ Crlfs(payload) = {} =>
                  /\ First(PayloadEnds(body)) = m + Len(payload) + 1
                  /\ Payload(body) = payload /\ Len(body) >= Len(bytes)
           /\ PayloadEnds(body) # {} /\ Crlfs(payload) # {} => Len(Payload(body)) # Len(payload)
<1> DEFINE L == Len(payload)
           places == Crlfs(payload) \cup {L + 1}
<1>1. L \in Nat /\ body \in Buffer /\ bytes \in Buffer /\ full \in Buffer
      /\ Len(body) \in Nat /\ Len(bytes) \in Nat
  BY DEF Begins, Buffer
<1>2. \A i \in places : i \in Nat \ {0}
  BY <1>1, CrlfsIs
<1>3. PayloadEnds(bytes) = {i + m : i \in places} /\ Len(bytes) = m + L + 2
      /\ \A i \in 1..L : bytes[m + i] = payload[i]
      /\ Crlfs(bytes) # {} /\ MetadataLen(bytes) = m
  BY Zenon DEF Holds
<1>30. L + 1 \in places /\ (Crlfs(payload) = {} => places = {L + 1})
       /\ Crlfs(payload) \subseteq places
  OBVIOUS
<1> HIDE DEF L, places
<1>4. /\ PayloadEnds(body) = {i \in PayloadEnds(full) : i + 1 <= Len(body)}
      /\ PayloadEnds(bytes) = {i \in PayloadEnds(full) : i + 1 <= Len(bytes)}
      /\ PayloadEnds(full) \in SUBSET Nat
  <2>1. Crlfs(full) # {}
    BY MetadataBegin
  <2>2. PayloadEnds(body) = {i \in PayloadEnds(full) : i + 1 <= Len(body)}
    BY MetadataBegin
  <2>3. PayloadEnds(bytes) = {i \in PayloadEnds(full) : i + 1 <= Len(bytes)}
    <3>1. Crlfs(bytes) # {}
      BY Zenon DEF Holds
    <3>. QED BY <3>1, MetadataBegin
  <2>4. PayloadEnds(full) \in SUBSET Nat
    BY <1>1, <2>1, MetadataIs
  <2>. QED BY <2>2, <2>3, <2>4
<1>5. L + 1 + m \in PayloadEnds(bytes)
  BY <1>3, <1>30
<1>6. ASSUME PayloadEnds(body) = {} PROVE Len(body) < Len(bytes)
  <2>1. ~ (L + 1 + m + 1 <= Len(body))
    BY <1>4, <1>5, <1>6
  <2>. QED BY <1>1, <1>3, <2>1
<1>7. ASSUME PayloadEnds(body) # {}
      PROVE  /\ First(PayloadEnds(body)) \in PayloadEnds(bytes)
             /\ \A i \in PayloadEnds(bytes) : First(PayloadEnds(body)) <= i
             /\ First(PayloadEnds(body)) + 1 <= Len(body)
  <2>1. /\ First(PayloadEnds(body)) = First(PayloadEnds(full))
        /\ First(PayloadEnds(full)) \in PayloadEnds(full) /\ First(PayloadEnds(full)) + 1 <= Len(body)
    BY <1>1, <1>4, <1>7, FirstBegin
  <2>2. \A i \in PayloadEnds(full) : First(PayloadEnds(full)) <= i
    BY <1>4, <2>1, FirstIs
  <2>3. First(PayloadEnds(full)) <= L + 1 + m
    BY <1>4, <1>5, <2>2
  <2>4. First(PayloadEnds(full)) + 1 <= Len(bytes)
    BY <1>1, <1>3, <1>4, <2>1, <2>3
  <2>. QED BY <1>4, <2>1, <2>2, <2>4
<1> DEFINE p == First(PayloadEnds(body))
<1>8. Payload(body) = SubSeq(body, m + 1, p - 1)
  BY Zenon DEF Payload
<1>9. ASSUME PayloadEnds(body) # {}, Crlfs(payload) = {}
      PROVE  p = m + L + 1 /\ Payload(body) = payload /\ Len(body) >= Len(bytes)
  <2>1. p = L + 1 + m
    BY <1>3, <1>7, <1>9, <1>30
  <2>2. m + L + 1 + 1 <= Len(body)
    BY <1>1, <1>7, <1>9, <2>1
  <2>3. \A i \in 1..L : body[m + i] = payload[i]
    <3>1. ASSUME NEW i \in 1..L PROVE body[m + i] = payload[i]
      <4>1. m + i \in 1..Len(body) /\ m + i \in 1..Len(bytes)
        BY <1>1, <1>3, <2>2
      <4>2. body[m + i] = full[m + i] /\ bytes[m + i] = full[m + i]
        BY <4>1, Zenon DEF Begins
      <4>3. bytes[m + i] = payload[i]
        BY <1>3
      <4>. QED BY <4>2, <4>3, Zenon
    <3>. QED BY <3>1
  <2>4. SubSeq(body, m + 1, m + L) = payload
    <3> DEFINE sub == SubSeq(body, m + 1, m + L)
    <3>1. sub \in Buffer /\ Len(sub) = L
      BY <1>1, <2>2 DEF Buffer
    <3>2. \A i \in 1..L : sub[i] = body[m + i]
      BY <1>1, <2>2 DEF Buffer
    <3> HIDE DEF sub
    <3>3. \A i \in 1..L : sub[i] = payload[i]
      BY <2>3, <3>2
    <3>4. sub = payload
      <4>1. Len(sub) = Len(payload) /\ \A i \in 1..Len(sub) : sub[i] = payload[i]
        BY <3>1, <3>3, Zenon DEF L
      <4>. QED BY <3>1, <4>1, SameBytes, Zenon
    <3>. QED BY <3>4, Zenon DEF sub
  <2>5. p - 1 = m + L /\ Len(body) >= Len(bytes)
    BY <1>1, <1>3, <2>1, <2>2
  <2>. QED BY <1>1, <1>8, <2>1, <2>4, <2>5
<1>10. ASSUME PayloadEnds(body) # {}, Crlfs(payload) # {} PROVE Len(Payload(body)) # L
  <2>1. PICK i \in Crlfs(payload) : TRUE
    BY <1>10
  <2>2. i \in Nat \ {0} /\ i + 1 <= L
    BY CrlfsIs DEF L
  <2>3. i + m \in PayloadEnds(bytes)
    BY <1>3, <1>30
  <2>4. p \in Nat /\ p <= i + m /\ p + 1 <= Len(body)
    BY <1>4, <1>7, <1>10, <2>3
  <2>5. p > m
    <3>1. PICK j \in places : p = j + m
      BY <1>3, <1>7, <1>10
    <3>. QED BY <1>2, <3>1
  <2> HIDE DEF p
  <2>6. Len(SubSeq(body, m + 1, p - 1)) = p - 1 - m
    BY <1>1, <2>4, <2>5 DEF Buffer
  <2>7. p - 1 - m # L
    BY <1>1, <2>2, <2>4
  <2>. QED BY <1>8, <2>6, <2>7, Zenon
<1>. QED BY <1>6, <1>9, <1>10 DEF L

LEMMA LoadedFate ==
    ASSUME NEW c, NEW item, WellFormed(c, item), item.frame.verb \in Loaded, item.frame # <<>>,
           NEW src, NEW full, Begins(item.bytes, full), Begins(src, full)
    PROVE  Fate(c, item, src)
<1> DEFINE f == item.frame
           bytes == item.bytes
           payload == f.payload
           fields == f.fields
           n == Len(payload)
           line == fields \o <<Numeral[n]>>
           body == Tail(src)
           m == Len(line) + 2
<1>1. LineEnds(bytes) # {} /\ f.verb \in Verbs(c) /\ Plain(fields) /\ Len(fields) \in Arity(f.verb)
  BY DEF WellFormed
<1>2. f = Frame(f.verb, fields, NoHeaders, payload)
  BY DEF WellFormed
<1>3. Lined(bytes, f.verb, line, payload \o CRLF) /\ Ends(line, fields, Numeral[n])
      /\ payload \in Buffer /\ n \in 0..MaxNumber
  BY LoadedLayout, Zenon
<1>4. fields \in Buffer /\ Utf8(fields)
  BY <1>1, PlainIs, Zenon
<1>5. Holds(Tail(bytes), m, payload)
  BY <1>3, HoldsPayload, Zenon
<1>6. line \in Buffer
  BY <1>3, Zenon DEF Lined
<1>7. n \in Nat /\ m \in Nat /\ bytes \in Buffer /\ Len(bytes) = m + n + 3 /\ Len(bytes) \in Nat
      /\ Len(Tail(bytes)) = m + n + 2
  <2>1. LinedFacts(bytes, f.verb, line, payload \o CRLF)
    BY <1>3, LineOfItem, Zenon
  <2>2. bytes \in Buffer /\ Len(bytes) = Len(line) + 3 + Len(payload \o CRLF)
    BY <2>1, Zenon DEF LinedFacts
  <2>3. Len(payload \o CRLF) = n + 2
    BY <1>3, CrlfsOfPayload, Zenon
  <2>4. n \in Nat /\ Len(line) \in Nat /\ Len(bytes) \in Nat
    <3>1. n \in 0..MaxNumber /\ bytes \in Buffer
      BY <1>3, <2>2, Zenon
    <3> HIDE DEF n, line, bytes
    <3>. QED BY <1>6, <3>1 DEF Buffer
  <2>5. Len(Tail(bytes)) = m + n + 2
    BY <1>5, Zenon DEF Holds
  <2> HIDE DEF n, line, bytes
  <2>. QED BY <2>2, <2>3, <2>4, <2>5
<1>8. CASE LineEnds(src) = {}
  BY <1>1, <1>8, LineArrives, Zenon DEF Fate
<1>9. CASE LineEnds(src) # {}
  <2>1. ArrivedFacts(src, full, bytes, f.verb, line)
    BY <1>1, <1>3, <1>9, LineOfItemArrived, Zenon
  <2>2. /\ src[1] = f.verb /\ Metadata(body) = line /\ MetadataLen(body) = m
        /\ Len(src) \in Nat /\ Len(body) = Len(src) - 1 /\ Crlfs(body) # {}
        /\ Begins(body, Tail(full)) /\ Begins(Tail(bytes), Tail(full))
    BY <2>1, Zenon DEF ArrivedFacts
  <2>3. SizedAs(f.verb, body, fields, n)
    BY <1>1, <1>3, <1>4, <2>2, SizedIs, Zenon
  <2>4. /\ PayloadEnds(body) = {} => Len(body) < Len(Tail(bytes))
        /\ PayloadEnds(body) # {} /\ Crlfs(payload) = {} =>
               /\ First(PayloadEnds(body)) = m + n + 1
               /\ Payload(body) = payload /\ Len(body) >= Len(Tail(bytes))
        /\ PayloadEnds(body) # {} /\ Crlfs(payload) # {} => Len(Payload(body)) # n
    BY <1>3, <1>5, <1>7, <2>2, PayloadArrives, Zenon
  <2>5. /\ PayloadEnds(body) = {} => DecodeBody(f.verb, body) = FrameTooShort
        /\ PayloadEnds(body) # {} =>
               DecodeBody(f.verb, body) =
                   IF n = Len(Payload(body)) /\ Utf8(fields)
                   THEN Advance(Frame(f.verb, fields, NoHeaders, Payload(body)),
                                First(PayloadEnds(body)) - 1 + 2)
                   ELSE FatalError
    BY <2>3, LoadedIs, Zenon
  <2>6. CASE PayloadEnds(body) = {}
    <3>1. DecodeBody(f.verb, body).outcome # "frame"
      BY <2>5, <2>6 DEF FrameTooShort, Failed
    <3>2. Decode(c, src) = FrameTooShort
      BY <1>1, <1>9, <2>2, <2>5, <2>6, <3>1, NotCounted, Zenon
    <3>3. Len(src) < Len(bytes)
      <4>1. Len(body) < Len(Tail(bytes))
        BY <2>4, <2>6
      <4> HIDE DEF body, n, m, bytes
      <4>. QED BY <1>7, <2>2, <4>1
    <3>. QED BY <3>2, <3>3, Zenon DEF Fate
  <2>7. CASE PayloadEnds(body) # {} /\ Crlfs(payload) = {}
    <3>1. /\ First(PayloadEnds(body)) = m + n + 1
          /\ Payload(body) = payload /\ Len(body) >= Len(Tail(bytes))
      BY <2>4, <2>7, Zenon
    <3>2. DecodeBody(f.verb, body) = Advance(f, First(PayloadEnds(body)) - 1 + 2)
      BY <1>2, <1>4, <2>5, <2>7, <3>1, Zenon
    <3>3. First(PayloadEnds(body)) - 1 + 2 = m + n + 2 /\ m + n + 2 \in Nat
          /\ m + n + 2 + 1 = Len(bytes) /\ Len(src) >= Len(bytes)
      <4> HIDE DEF body, n, m, bytes
      <4>. QED BY <1>7, <2>2, <3>1
    <3>4. Decode(c, src) = Advance(f, m + n + 2 + 1)
      <4>1. DecodeBody(src[1], Tail(src)) = Advance(f, m + n + 2) /\ src[1] \in Verbs(c)
        BY <1>1, <2>2, <3>2, <3>3, Zenon
      <4> DEFINE k == m + n + 2
      <4>2. k \in Nat
        BY <3>3, Zenon
      <4>3. DecodeBody(src[1], Tail(src)) = Advance(f, k)
        BY <4>1, Zenon
      <4> HIDE DEF k
      <4>4. Decode(c, src) = Advance(f, k + 1)
        BY <1>9, <4>1, <4>2, <4>3, Counted, Zenon
      <4>. QED BY <4>4, Zenon DEF k
    <3>5. AsRead(f) = f
      BY <1>2, NoHeadersRead, Zenon
    <3>. QED BY <3>3, <3>4, <3>5, Zenon DEF Fate
  <2>8. CASE PayloadEnds(body) # {} /\ Crlfs(payload) # {}
    <3>1. DecodeBody(f.verb, body) = FatalError
      BY <2>4, <2>5, <2>8, Zenon
    <3>2. FatalError.outcome = "error"
      BY DEF FatalError, Failed
    <3>3. Decode(c, src) = FatalError
      BY <1>1, <1>9, <2>2, <3>1, <3>2, NotCounted, Zenon
    <3>. QED BY <2>8, <3>2, <3>3, Zenon DEF Fate
  <2>. QED BY <2>6, <2>7, <2>8
<1>. QED BY <1>8, <1>9

-----------------------------------------------------------------------------
(* Header lines.                                                           *)

TextOf(text, name, gap, value) ==
    /\ text \in Buffer /\ Len(text) = Len(name) + 1 + Len(gap) + Len(value)
    /\ \A i \in 1..Len(name) : text[i] = name[i]
    /\ text[Len(name) + 1] = ":"
    /\ \A i \in 1..Len(gap) : text[Len(name) + 1 + i] = gap[i]
    /\ \A i \in 1..Len(value) : text[Len(name) + 1 + Len(gap) + i] = value[i]
    /\ Range(text) = Range(name) \cup {":"} \cup Range(gap) \cup Range(value)

LEMMA TextIs ==
    ASSUME NEW name \in Buffer, NEW gap \in Buffer, NEW value \in Buffer,
           NEW text, text = name \o <<":">> \o gap \o value
    PROVE  TextOf(text, name, gap, value)
<1> DEFINE c == <<":">>
           one == name \o c
           two == one \o gap
<1>1. c \in Buffer /\ Len(c) = 1 /\ c[1] = ":" /\ Range(c) = {":"}
  <2>1. ":" \in Token
    BY Zenon DEF Token
  <2>. QED BY <2>1, OneToken, Zenon
<1> HIDE DEF c
<1>2. /\ one \in Buffer /\ Len(one) = Len(name) + Len(c)
      /\ \A i \in 1..Len(name) : one[i] = name[i]
      /\ \A i \in 1..Len(c) : one[Len(name) + i] = c[i]
      /\ Range(one) = Range(name) \cup Range(c)
  BY <1>1, Joined, Zenon
<1> HIDE DEF one
<1>3. /\ two \in Buffer /\ Len(two) = Len(one) + Len(gap)
      /\ \A i \in 1..Len(one) : two[i] = one[i]
      /\ \A i \in 1..Len(gap) : two[Len(one) + i] = gap[i]
      /\ Range(two) = Range(one) \cup Range(gap)
  BY <1>2, Joined, Zenon
<1>4. text = two \o value
  BY Zenon DEF one, c
<1> HIDE DEF two
<1>5. /\ two \o value \in Buffer /\ Len(two \o value) = Len(two) + Len(value)
      /\ \A i \in 1..Len(two) : (two \o value)[i] = two[i]
      /\ \A i \in 1..Len(value) : (two \o value)[Len(two) + i] = value[i]
      /\ Range(two \o value) = Range(two) \cup Range(value)
  BY <1>3, Joined, Zenon
<1>6. /\ text \in Buffer /\ Len(text) = Len(two) + Len(value)
      /\ \A i \in 1..Len(two) : text[i] = two[i]
      /\ \A i \in 1..Len(value) : text[Len(two) + i] = value[i]
      /\ Range(text) = Range(two) \cup Range(value)
  BY <1>4, <1>5, Zenon
<1>7. Len(name) \in Nat /\ Len(gap) \in Nat /\ Len(value) \in Nat
  BY DEF Buffer
<1>8. Len(one) = Len(name) + 1 /\ Len(two) = Len(name) + 1 + Len(gap)
  BY <1>1, <1>2, <1>3
<1>9. \A i \in 1..Len(name) : text[i] = name[i]
  BY <1>2, <1>3, <1>6, <1>7, <1>8
<1>10. text[Len(name) + 1] = ":"
  BY <1>1, <1>2, <1>3, <1>6, <1>7, <1>8
<1>11. \A i \in 1..Len(gap) : text[Len(name) + 1 + i] = gap[i]
  BY <1>3, <1>6, <1>7, <1>8
<1>12. Range(text) = Range(name) \cup {":"} \cup Range(gap) \cup Range(value)
  BY <1>1, <1>2, <1>3, <1>6
<1>13. /\ Len(text) = Len(name) + 1 + Len(gap) + Len(value)
       /\ \A i \in 1..Len(value) : text[Len(name) + 1 + Len(gap) + i] = value[i]
  BY <1>6, <1>8
<1>. QED BY <1>6, <1>9, <1>10, <1>11, <1>12, <1>13, Zenon DEF TextOf

Gapped(gap, value) ==
    \/ gap = <<" ">>
    \/ gap = <<>> /\ (value # <<>> => value[1] # " ")

\* What is parsed of a line with one colon.
ParsedAs(text, name, value) ==
    Cardinality(Colons(text)) = 1 /\ Name(text) = name /\ Value(text) = Trimmed(value)

LEMMA PlainText ==
    ASSUME NEW name \in Buffer, NEW gap \in Buffer, NEW value \in Buffer, NEW text,
           TextOf(text, name, gap, value), Gapped(gap, value),
           ":" \notin Range(name), ":" \notin Range(value)
    PROVE  ParsedAs(text, name, value)
<1> DEFINE n == Len(name)
           g == Len(gap)
           v == Len(value)
           space == " "
<1>1. /\ text \in Buffer /\ Len(text) = n + 1 + g + v
      /\ \A i \in 1..n : text[i] = name[i]
      /\ text[n + 1] = ":"
      /\ \A i \in 1..g : text[n + 1 + i] = gap[i]
      /\ \A i \in 1..v : text[n + 1 + g + i] = value[i]
  BY Zenon DEF TextOf
<1>2. n \in Nat /\ g \in Nat /\ v \in Nat
  BY DEF Buffer
<1>3. (\A i \in 1..n : name[i] # ":") /\ (\A i \in 1..v : value[i] # ":")
  BY RangeEquality DEF Buffer, Range
<1>4. g \in {0, 1} /\ (\A i \in 1..g : gap[i] = space)
      /\ (g = 0 /\ value # <<>> => value[1] # space)
  <2>1. space \in Token
    BY Zenon DEF Token
  <2>2. Len(<<space>>) = 1 /\ <<space>>[1] = space
    BY <2>1, OneToken, Zenon
  <2>3. gap = <<space>> \/ (gap = <<>> /\ (value # <<>> => value[1] # space))
    BY Zenon DEF Gapped
  <2> HIDE DEF space
  <2>4. CASE gap = <<space>>
    BY <2>2, <2>4
  <2>5. CASE gap = <<>> /\ (value # <<>> => value[1] # space)
    BY <2>5
  <2>. QED BY <2>3, <2>4, <2>5
<1>5. value = <<>> <=> v = 0
  BY DEF Buffer
<1>14. ":" # space
  OBVIOUS
<1> HIDE DEF n, g, v, space
<1>6. Colons(text) = {n + 1}
  <2>0. DOMAIN text = 1..(n + 1 + g + v)
    BY <1>1 DEF Buffer
  <2>1. ASSUME NEW i \in 1..(n + 1 + g + v), text[i] = ":" PROVE i = n + 1
    <3>1. CASE i \in 1..n
      BY <1>1, <1>3, <2>1, <3>1
    <3>2. CASE i \in (n + 2)..(n + 1 + g)
      <4>1. i - n - 1 \in 1..g /\ i = n + 1 + (i - n - 1)
        BY <1>2, <3>2
      <4>2. text[i] = space
        BY <1>1, <1>4, <4>1
      <4>. QED BY <1>14, <2>1, <4>2
    <3>3. CASE i \in (n + 1 + g + 1)..(n + 1 + g + v)
      <4>1. i - n - 1 - g \in 1..v /\ i = n + 1 + g + (i - n - 1 - g)
        BY <1>2, <3>3
      <4>. QED BY <1>1, <1>3, <2>1, <4>1
    <3>. QED BY <1>2, <2>1, <3>1, <3>2, <3>3
  <2>2. n + 1 \in 1..(n + 1 + g + v)
    BY <1>2
  <2>. QED BY <1>1, <2>0, <2>1, <2>2 DEF Colons
<1>7. Cardinality(Colons(text)) = 1
  BY <1>6, FS_Singleton, Zenon
<1>8. First(Colons(text)) = n + 1
  <2>1. {n + 1} \in SUBSET Nat
    BY <1>2
  <2>2. First({n + 1}) \in {n + 1}
    BY <2>1, FirstIs
  <2>. QED BY <1>6, <2>2
<1>9. Name(text) = name
  <2> DEFINE sub == SubSeq(text, 1, n)
  <2>1. sub \in Buffer /\ Len(sub) = n /\ \A i \in 1..n : sub[i] = text[i]
    BY <1>1, <1>2 DEF Buffer
  <2> HIDE DEF sub
  <2>2. sub = name
    <3>1. Len(sub) = Len(name) /\ \A i \in 1..Len(sub) : sub[i] = name[i]
      BY <1>1, <2>1, Zenon DEF n
    <3>. QED BY <2>1, <3>1, SameBytes, Zenon
  <2>3. First(Colons(text)) - 1 = n
    BY <1>2, <1>8
  <2>. QED BY <2>2, <2>3, Zenon DEF Name, sub
<1> DEFINE after == SubSeq(text, n + 2, Len(text))
           start == IF after # <<>> /\ after[1] = space THEN Tail(after) ELSE after
<1>10. after \in Buffer /\ Len(after) = g + v
       /\ (\A i \in 1..g : after[i] = space) /\ (\A i \in 1..v : after[g + i] = value[i])
  <2>1. after \in Buffer /\ Len(after) = g + v /\ \A i \in 1..(g + v) : after[i] = text[n + 1 + i]
    BY <1>1, <1>2 DEF Buffer
  <2> HIDE DEF after
  <2>2. \A i \in 1..g : after[i] = space
    <3>1. ASSUME NEW i \in 1..g PROVE after[i] = space
      <4>1. after[i] = text[n + 1 + i]
        BY <1>2, <2>1
      <4>. QED BY <1>1, <1>4, <4>1
    <3>. QED BY <3>1
  <2>3. \A i \in 1..v : after[g + i] = value[i]
    <3>1. ASSUME NEW i \in 1..v PROVE after[g + i] = value[i]
      <4>1. g + i \in 1..(g + v) /\ n + 1 + (g + i) = n + 1 + g + i
        BY <1>2
      <4>. QED BY <1>1, <2>1, <4>1
    <3>. QED BY <3>1
  <2>. QED BY <2>1, <2>2, <2>3
<1> HIDE DEF after
<1>11. start = value
  <2>1. CASE g = 1
    <3>1. after # <<>> /\ after[1] = space
      BY <1>2, <1>10, <2>1
    <3> DEFINE t == Tail(after)
    <3>3. start = t
      BY <3>1
    <3> HIDE DEF start
    <3>2. t \in Buffer /\ Len(t) = v /\ \A i \in 1..v : t[i] = after[i + 1]
      BY <1>2, <1>10, <2>1, <3>1 DEF Buffer
    <3> HIDE DEF t
    <3>4. \A i \in 1..v : t[i] = value[i]
      BY <1>2, <1>10, <2>1, <3>2
    <3>5. t = value
      <4>1. Len(t) = Len(value) /\ \A i \in 1..Len(t) : t[i] = value[i]
        BY <3>2, <3>4, Zenon DEF v
      <4>. QED BY <3>2, <4>1, SameBytes, Zenon
    <3>. QED BY <3>3, <3>5
  <2>2. CASE g = 0
    <3>1. \A i \in 1..v : after[i] = value[i]
      BY <1>10, <2>2
    <3>4. Len(after) = v
      BY <1>2, <1>10, <2>2
    <3>2. after = value
      <4>1. Len(after) = Len(value) /\ \A i \in 1..Len(after) : after[i] = value[i]
        BY <3>1, <3>4, Zenon DEF v
      <4>. QED BY <1>10, <4>1, SameBytes, Zenon
    <3>3. ~(value # <<>> /\ value[1] = space)
      BY <1>4, <2>2
    <3>. QED BY <3>2, <3>3
  <2>. QED BY <1>4, <2>1, <2>2
<1>12. Value(text) = IF start # <<>> /\ Last(start) = " " THEN Front(start) ELSE start
  <2>1. First(Colons(text)) + 1 = n + 2
    BY <1>2, <1>8
  <2>. QED BY <2>1, Zenon DEF Value, after, space
<1>13. Value(text) = Trimmed(value)
  BY <1>11, <1>12, Zenon DEF Trimmed
<1>. QED BY <1>7, <1>9, <1>13, Zenon DEF ParsedAs

\* A colon in a name or a value is one too many.
LEMMA ColonInText ==
    ASSUME NEW name \in Buffer, NEW gap \in Buffer, NEW value \in Buffer, NEW text,
           TextOf(text, name, gap, value), ":" \in Range(name) \cup Range(value)
    PROVE  ~ValidHeader(text)
<1> DEFINE n == Len(name)
           g == Len(gap)
           v == Len(value)
<1>1. /\ text \in Buffer /\ Len(text) = n + 1 + g + v
      /\ \A i \in 1..n : text[i] = name[i]
      /\ text[n + 1] = ":"
      /\ \A i \in 1..v : text[n + 1 + g + i] = value[i]
  BY Zenon DEF TextOf
<1>2. n \in Nat /\ g \in Nat /\ v \in Nat
  BY DEF Buffer
<1>3. (\E i \in 1..n : name[i] = ":") \/ (\E i \in 1..v : value[i] = ":")
  BY RangeEquality DEF Buffer, Range
<1> HIDE DEF n, g, v
<1>4. DOMAIN text = 1..(n + 1 + g + v)
  BY <1>1 DEF Buffer
<1>5. PICK i \in 1..(n + 1 + g + v) : text[i] = ":" /\ i # n + 1
  <2>1. CASE \E i \in 1..n : name[i] = ":"
    <3>1. PICK i \in 1..n : name[i] = ":"
      BY <2>1
    <3>2. i \in 1..(n + 1 + g + v) /\ i # n + 1 /\ text[i] = ":"
      BY <1>1, <1>2, <3>1
    <3>. QED BY <3>2
  <2>2. CASE \E i \in 1..v : value[i] = ":"
    <3>1. PICK i \in 1..v : value[i] = ":"
      BY <2>2
    <3> DEFINE k == n + 1 + g + i
    <3>2. k \in 1..(n + 1 + g + v) /\ k # n + 1 /\ text[k] = ":"
      BY <1>1, <1>2, <3>1
    <3> HIDE DEF k
    <3>. QED BY <3>2
  <2>. QED BY <1>3, <2>1, <2>2
<1>6. i \in Colons(text) /\ n + 1 \in Colons(text) /\ Colons(text) \in SUBSET (1..(n + 1 + g + v))
  BY <1>1, <1>2, <1>4, <1>5 DEF Colons
<1>7. IsFiniteSet(1..(n + 1 + g + v))
  <2>1. 1 \in Int /\ n + 1 + g + v \in Int
    BY <1>2
  <2>. QED BY <2>1, FS_Interval, Zenon
<1>8. IsFiniteSet(Colons(text))
  BY <1>6, <1>7, FS_Subset, Zenon
<1>9. Cardinality(Colons(text)) = 1 => \E x : Colons(text) = {x}
  BY <1>8, FS_Singleton, Zenon
<1>10. ~ \E x : Colons(text) = {x}
  BY <1>5, <1>6
<1>. QED BY <1>9, <1>10, Zenon DEF ValidHeader

-----------------------------------------------------------------------------
(* The values of a name.                                                   *)

LEMMA TrimmedIs ==
    ASSUME NEW value \in Buffer
    PROVE  Trimmed(value) \in Buffer /\ Range(Trimmed(value)) \subseteq Range(value)
<1>1. CASE Trimmed(value) = value
  BY <1>1
<1>2. CASE value # <<>> /\ Trimmed(value) = Front(value)
  <2> DEFINE short == SubSeq(value, 1, Len(value) - 1)
  <2>0. value # <<>>
    BY <1>2, Zenon
  <2>1. short \in Buffer /\ Len(short) = Len(value) - 1 /\ Len(value) \in Nat \ {0}
        /\ \A i \in 1..Len(value) - 1 : short[i] = value[i]
    <3>1. Len(value) \in Nat \ {0}
      BY <2>0 DEF Buffer
    <3> DEFINE n == Len(value) - 1
    <3>2. n \in Nat /\ n <= Len(value)
      BY <3>1
    <3> HIDE DEF n
    <3>3. /\ SubSeq(value, 1, n) \in Buffer /\ Len(SubSeq(value, 1, n)) = n
          /\ \A i \in 1..n : SubSeq(value, 1, n)[i] = value[i]
      BY <3>1, <3>2 DEF Buffer
    <3>. QED BY <3>1, <3>3, Zenon DEF n
  <2>2. Front(value) = short
    BY Zenon DEF Front
  <2> HIDE DEF short
  <2>3. DOMAIN short = 1..Len(value) - 1 /\ DOMAIN value = 1..Len(value)
    BY <2>1 DEF Buffer
  <2>4. Range(short) \subseteq Range(value)
    BY <2>1, <2>3 DEF Range
  <2>. QED BY <1>2, <2>1, <2>2, <2>4, Zenon
<1>. QED BY <1>1, <1>2, Zenon DEF Trimmed

\* Headers, N of them.
Listed(headers, N) ==
    /\ N \in Nat /\ Len(headers) = N /\ DOMAIN headers = 1..N
    /\ \A i \in 1..N : headers[i].value \in Buffer

IsGathered(f, headers, name) ==
    f = [n \in 0..Len(headers) |->
            IF n = 0 THEN <<>>
            ELSE IF headers[n].name = name THEN Append(f[n - 1], headers[n].value)
            ELSE f[n - 1]]
Gathered(f, headers, name, N) ==
    /\ f \in [0..N -> Seq(Buffer)] /\ f[0] = <<>>
    /\ \A n \in 1..N : f[n] = IF headers[n].name = name THEN Append(f[n - 1], headers[n].value)
                              ELSE f[n - 1]

LEMMA ValuesIs ==
    ASSUME NEW headers, NEW N, Listed(headers, N), NEW name
    PROVE  \E f : Gathered(f, headers, name, N) /\ ValuesOf(headers, name) = f[N]
<1> DEFINE S == Seq(Buffer)
           after(n, x) == IF headers[n].name = name THEN Append(x, headers[n].value) ELSE x
           step == [n \in Nat |-> [x \in S |-> IF n \in 1..N THEN after(n, x) ELSE x]]
<1>1. N \in Nat /\ Len(headers) = N /\ <<>> \in S /\ \A i \in 1..N : headers[i].value \in Buffer
  BY DEF Listed
<1>3. ASSUME NEW n \in 1..N, NEW x \in S PROVE after(n, x) \in S
  <2> DEFINE y == headers[n].value
  <2>1. y \in Buffer
    BY <1>1
  <2> HIDE DEF y
  <2>2. Append(x, y) \in S
    BY <2>1
  <2>. QED BY <2>2, Zenon DEF y
<1>4. step \in [Nat -> [S -> S]]
  <2> HIDE DEF after, S
  <2>. QED BY <1>3
<1>5. PICK f : IsFold(f, S, <<>>, step, N)
  <2> HIDE DEF step, S
  <2>. QED BY <1>1, <1>4, FoldExists
<1> HIDE DEF after, S
<1>6. f \in [0..N -> S] /\ f[0] = <<>>
  BY <1>5 DEF IsFold
<1>7. ASSUME NEW n \in 1..N PROVE f[n] = after(n, f[n - 1])
  <2>1. f[n] = step[n][f[n - 1]]
    <3> HIDE DEF step
    <3>. QED BY <1>5 DEF IsFold
  <2>2. n \in Nat /\ n - 1 \in 0..N
    BY <1>1
  <2>3. f[n - 1] \in S
    BY <1>6, <2>2
  <2>. QED BY <2>1, <2>2, <2>3
<1>8. ASSUME NEW g, IsGathered(g, headers, name) PROVE g = f
  <2>1. g = [n \in 0..N |-> IF n = 0 THEN <<>> ELSE after(n, g[n - 1])]
    BY <1>1, <1>8, Zenon DEF IsGathered, after
  <2>2. f = [n \in 0..N |-> f[n]] /\ g = [n \in 0..N |-> g[n]] /\ f[0] = g[0]
    BY <1>1, <1>6, <2>1
  <2>3. ASSUME NEW n \in 0..(N - 1), f[n] = g[n] PROVE f[n + 1] = g[n + 1]
    <3> DEFINE k == n + 1
    <3>1. k \in 1..N /\ k \in 0..N /\ k # 0 /\ k - 1 = n
      BY <1>1
    <3> HIDE DEF k
    <3>2. f[k] = after(k, f[k - 1])
      BY <1>7, <3>1
    <3>3. g[k] = after(k, g[k - 1])
      BY <2>1, <3>1
    <3>4. f[k] = g[k]
      BY <2>3, <3>1, <3>2, <3>3
    <3>. QED BY <3>4 DEF k
  <2>4. N \in Nat
    BY <1>1
  <2>5. Alike(f, g, N)
    BY <2>2, <2>3, Zenon DEF Alike
  <2>. QED BY <2>4, <2>5, FoldsAgree, Zenon
<1>9. IsGathered(f, headers, name)
  <2> DEFINE g == [n \in 0..N |-> IF n = 0 THEN <<>> ELSE after(n, f[n - 1])]
  <2>1. f = g
    <3>1. \A n \in 0..N : f[n] = g[n]
      BY <1>1, <1>6, <1>7
    <3>. QED BY <1>6, <3>1
  <2>. QED BY <1>1, <2>1, Zenon DEF IsGathered, after
<1>10. (CHOOSE g : IsGathered(g, headers, name)) = f
  BY <1>8, <1>9, Zenon
<1>11. ValuesOf(headers, name) = (CHOOSE g : IsGathered(g, headers, name))[Len(headers)]
  BY Zenon DEF ValuesOf, IsGathered
<1>12. ValuesOf(headers, name) = f[N]
  BY <1>1, <1>10, <1>11, Zenon
<1>13. Gathered(f, headers, name, N)
  BY <1>6, <1>7, Zenon DEF Gathered, after, S
<1>. QED BY <1>12, <1>13

\* Each is there.
LEMMA ValueKept ==
    ASSUME NEW headers, NEW N, Listed(headers, N), NEW i \in 1..N
    PROVE  \E k \in DOMAIN ValuesOf(headers, headers[i].name) :
               ValuesOf(headers, headers[i].name)[k] = headers[i].value
<1> DEFINE name == headers[i].name
           x == headers[i].value
<1>1. N \in Nat /\ (\A n \in 1..N : headers[n].value \in Buffer) /\ x \in Buffer
  BY DEF Listed
<1>2. PICK f : Gathered(f, headers, name, N) /\ ValuesOf(headers, name) = f[N]
  BY ValuesIs, Zenon
<1> DEFINE Has(s) == \E k \in DOMAIN s : s[k] = x
           T == {n \in Nat : n \in i..N => Has(f[n])}
<1>3. /\ f \in [0..N -> Seq(Buffer)] /\ f[0] = <<>>
      /\ \A n \in 1..N : f[n] = IF headers[n].name = name THEN Append(f[n - 1], headers[n].value)
                                ELSE f[n - 1]
  BY <1>2, Zenon DEF Gathered
<1> HIDE DEF name, x
<1>4. ASSUME NEW s \in Seq(Buffer), NEW y \in Buffer
      PROVE  (Has(s) => Has(Append(s, y))) /\ (y = x => Has(Append(s, y)))
  BY <1>4
<1> HIDE DEF Has
<1>5. ASSUME NEW n \in 1..N, n = i \/ (n > i /\ Has(f[n - 1])) PROVE Has(f[n])
  <2>0. n - 1 \in 0..N
    BY <1>1
  <2>1. f[n - 1] \in Seq(Buffer) /\ headers[n].value \in Buffer
    BY <1>1, <1>3, <2>0
  <2>2. CASE n = i
    <3>1. headers[n].name = name /\ headers[n].value = x
      BY <2>2, Zenon DEF name, x
    <3>. QED BY <1>3, <1>4, <2>1, <3>1
  <2>3. CASE n > i /\ Has(f[n - 1])
    BY <1>3, <1>4, <2>1, <2>3
  <2>. QED BY <1>5, <2>2, <2>3
<1>6. 0 \in T
  BY <1>1
<1>7. ASSUME NEW n \in Nat, n \in T PROVE n + 1 \in T
  <2> DEFINE k == n + 1
  <2>1. k \in Nat /\ k - 1 = n
    OBVIOUS
  <2>2. ASSUME k \in i..N PROVE Has(f[k])
    <3>1. k \in 1..N /\ (k = i \/ (n \in i..N /\ k > i))
      BY <1>1, <2>2
    <3>2. k = i \/ (k > i /\ Has(f[k - 1]))
      BY <1>7, <2>1, <3>1
    <3> HIDE DEF k
    <3>. QED BY <1>5, <3>1, <3>2
  <2>. QED BY <2>1, <2>2
<1>8. Nat \subseteq T
  <2> HIDE DEF T
  <2>. QED BY <1>6, <1>7, NatSetInduction
<1>9. Has(f[N])
  BY <1>1, <1>8
<1>. QED BY <1>2, <1>9, Zenon DEF Has, name, x

\* Values that are read without the space at their ends are gathered so.
ReadOf(read, headers, N) ==
    \A i \in 1..N : /\ read[i].name = headers[i].name
                    /\ read[i].value = Trimmed(headers[i].value)

TrimmedAs(values, read) == read = [i \in DOMAIN values |-> Trimmed(values[i])]

LEMMA TrimmedValues ==
    ASSUME NEW headers, NEW N, Listed(headers, N), NEW read, Listed(read, N), NEW name,
           ReadOf(read, headers, N)
    PROVE  TrimmedAs(ValuesOf(headers, name), ValuesOf(read, name))
<1>1. N \in Nat /\ (\A n \in 1..N : headers[n].value \in Buffer)
      /\ (\A n \in 1..N : read[n].value \in Buffer)
  BY DEF Listed
<1>2. PICK f : Gathered(f, headers, name, N) /\ ValuesOf(headers, name) = f[N]
  BY ValuesIs, Zenon
<1>3. PICK g : Gathered(g, read, name, N) /\ ValuesOf(read, name) = g[N]
  BY ValuesIs, Zenon
<1> DEFINE All(s, t) == t = [i \in DOMAIN s |-> Trimmed(s[i])]
           T == {n \in Nat : n \in 0..N => All(f[n], g[n])}
<1>4. /\ f \in [0..N -> Seq(Buffer)] /\ f[0] = <<>>
      /\ \A n \in 1..N : f[n] = IF headers[n].name = name THEN Append(f[n - 1], headers[n].value)
                                ELSE f[n - 1]
  BY <1>2, Zenon DEF Gathered
<1>5. /\ g \in [0..N -> Seq(Buffer)] /\ g[0] = <<>>
      /\ \A n \in 1..N : g[n] = IF read[n].name = name THEN Append(g[n - 1], read[n].value)
                                ELSE g[n - 1]
  BY <1>3, Zenon DEF Gathered
<1>6. ASSUME NEW s \in Seq(Buffer), NEW t \in Seq(Buffer), All(s, t),
             NEW y \in Buffer, Trimmed(y) \in Buffer
      PROVE  All(Append(s, y), Append(t, Trimmed(y)))
  <2> DEFINE z == Trimmed(y)
             u == Append(s, y)
             w == Append(t, z)
  <2>1. z \in Buffer
    BY <1>6
  <2> HIDE DEF z
  <2>2. Len(t) = Len(s) /\ Len(s) \in Nat /\ \A i \in 1..Len(s) : t[i] = Trimmed(s[i])
    BY <1>6
  <2>3. /\ u \in Seq(Buffer) /\ Len(u) = Len(s) + 1 /\ u[Len(s) + 1] = y
        /\ \A i \in 1..Len(s) : u[i] = s[i]
    OBVIOUS
  <2>4. /\ w \in Seq(Buffer) /\ Len(w) = Len(s) + 1 /\ w[Len(s) + 1] = z
        /\ \A i \in 1..Len(s) : w[i] = t[i]
    BY <2>1, <2>2
  <2> HIDE DEF u, w
  <2>5. ASSUME NEW i \in 1..Len(u) PROVE w[i] = Trimmed(u[i])
    <3>1. CASE i = Len(s) + 1
      BY <2>3, <2>4, <3>1, Zenon DEF z
    <3>2. CASE i \in 1..Len(s)
      BY <2>2, <2>3, <2>4, <3>2, Zenon
    <3>. QED BY <2>2, <2>3, <3>1, <3>2
  <2>6. DOMAIN w = 1..Len(u) /\ DOMAIN u = 1..Len(u) /\ w = [i \in DOMAIN w |-> w[i]]
    BY <2>3, <2>4
  <2>7. All(u, w)
    BY <2>5, <2>6
  <2>. QED BY <2>7, Zenon DEF u, w, z
<1>7. All(<<>>, <<>>)
  OBVIOUS
<1> HIDE DEF All
<1>8. 0 \in T
  BY <1>4, <1>5, <1>7
<1>9. ASSUME NEW n \in Nat, n \in T PROVE n + 1 \in T
  <2> DEFINE k == n + 1
  <2>1. k \in Nat /\ k - 1 = n
    OBVIOUS
  <2>2. ASSUME k \in 0..N PROVE All(f[k], g[k])
    <3>1. k \in 1..N /\ n \in 0..N
      <4>1. k # 0
        OBVIOUS
      <4>. QED BY <1>1, <2>2, <4>1
    <3>2. All(f[n], g[n]) /\ f[n] \in Seq(Buffer) /\ g[n] \in Seq(Buffer)
      BY <1>4, <1>5, <1>9, <3>1
    <3> HIDE DEF k
    <3>3. headers[k].value \in Buffer /\ read[k].value = Trimmed(headers[k].value)
          /\ read[k].name = headers[k].name /\ read[k].value \in Buffer
      BY <1>1, <3>1 DEF ReadOf
    <3>4. All(Append(f[n], headers[k].value), Append(g[n], read[k].value))
      BY <1>6, <3>2, <3>3, Zenon
    <3>. QED BY <1>4, <1>5, <2>1, <3>1, <3>2, <3>3, <3>4
  <2>. QED BY <2>1, <2>2
<1>10. Nat \subseteq T
  <2> HIDE DEF T
  <2>. QED BY <1>8, <1>9, NatSetInduction
<1>11. All(f[N], g[N])
  BY <1>1, <1>10
<1>. QED BY <1>2, <1>3, <1>11, Zenon DEF All, TrimmedAs

-----------------------------------------------------------------------------
(* Header blocks.                                                          *)

HeadersAsRead(headers) ==
    [name \in DOMAIN headers |-> [i \in DOMAIN headers[name] |-> Trimmed(headers[name][i])]]

\* No name and no value holds a colon.
NoColon(headers) ==
    \A i \in 1..Len(headers) : ":" \notin Range(headers[i].name) \cup Range(headers[i].value)

\* A header and its line.
LineFacts(header, line) ==
    /\ header.name \in Buffer /\ header.gap \in Buffer /\ header.value \in Buffer
    /\ Gapped(header.gap, header.value)
    /\ TextOf(line, header.name, header.gap, header.value)
    /\ Range(line) \cap {"CR", "bin"} = {} /\ Utf8(header.name) /\ Utf8(header.value)

LEMMA HeaderLine ==
    ASSUME NEW header, Plain(header.name), Plain(header.value),
           Gapped(header.gap, header.value)
    PROVE  LineFacts(header, Text(header))
<1> DEFINE name == header.name
           gap == header.gap
           value == header.value
           line == Text(header)
<1>1. /\ name \in Buffer /\ Range(name) \cap {"CR", "LF", "bin"} = {} /\ Utf8(name)
      /\ value \in Buffer /\ Range(value) \cap {"CR", "LF", "bin"} = {} /\ Utf8(value)
  BY PlainIs, Zenon
<1>2. gap \in Buffer /\ Range(gap) \subseteq {" "}
  <2>1. " " \in Token
    BY Zenon DEF Token
  <2>2. <<" ">> \in Buffer /\ Range(<<" ">>) = {" "}
    BY <2>1, OneToken, Zenon
  <2>3. <<>> \in Buffer /\ Range(<<>>) = {}
    BY DEF Buffer, Range
  <2>4. gap = <<" ">> \/ gap = <<>>
    BY Zenon DEF Gapped
  <2> HIDE DEF gap
  <2>5. CASE gap = <<" ">>
    BY <2>2, <2>5
  <2>6. CASE gap = <<>>
    BY <2>3, <2>6
  <2>. QED BY <2>4, <2>5, <2>6
<1>3. TextOf(line, name, gap, value)
  <2>1. line = name \o <<":">> \o gap \o value
    BY Zenon DEF Text
  <2>. QED BY <1>1, <1>2, <2>1, TextIs, Zenon
<1>4. Range(line) \cap {"CR", "bin"} = {}
  <2>1. Range(line) = Range(name) \cup {":"} \cup Range(gap) \cup Range(value)
    BY <1>3, Zenon DEF TextOf
  <2> HIDE DEF name, gap, value, line
  <2>. QED BY <1>1, <1>2, <2>1
<1>. QED BY <1>1, <1>2, <1>3, <1>4, Zenon DEF LineFacts

\* The line is one of a header unless there is a colon in it.
LEMMA HeaderLineValid ==
    ASSUME NEW header, NEW line, LineFacts(header, line)
    PROVE  /\ line # <<>>
           /\ ":" \notin Range(header.name) \cup Range(header.value) =>
                  /\ ValidHeader(line)
                  /\ Name(line) = header.name /\ Value(line) = Trimmed(header.value)
           /\ ":" \in Range(header.name) \cup Range(header.value) => ~ValidHeader(line)
<1> DEFINE name == header.name
           gap == header.gap
           value == header.value
<1>1. /\ name \in Buffer /\ gap \in Buffer /\ value \in Buffer /\ Gapped(gap, value)
      /\ TextOf(line, name, gap, value) /\ Utf8(name) /\ Utf8(value)
  BY Zenon DEF LineFacts
<1>2. line # <<>>
  <2>1. Len(line) = Len(name) + 1 + Len(gap) + Len(value)
    BY <1>1, Zenon DEF TextOf
  <2>2. Len(name) \in Nat /\ Len(gap) \in Nat /\ Len(value) \in Nat
    BY <1>1 DEF Buffer
  <2> HIDE DEF name, gap, value
  <2>. QED BY <2>1, <2>2
<1>3. ASSUME ":" \notin Range(name) \cup Range(value)
      PROVE  ValidHeader(line) /\ Name(line) = name /\ Value(line) = Trimmed(value)
  <2>1. ":" \notin Range(name) /\ ":" \notin Range(value)
    BY <1>3, Zenon
  <2>2. Cardinality(Colons(line)) = 1 /\ Name(line) = name /\ Value(line) = Trimmed(value)
    <3> HIDE DEF name, gap, value
    <3>1. ParsedAs(line, name, value)
      BY <1>1, <2>1, PlainText, Zenon
    <3>. QED BY <3>1, Zenon DEF ParsedAs
  <2>3. Range(Trimmed(value)) \subseteq Range(value)
    BY <1>1, TrimmedIs, Zenon
  <2>4. Utf8(Trimmed(value))
    <3> HIDE DEF value
    <3>. QED BY <1>1, <2>3 DEF Utf8
  <2>. QED BY <1>1, <2>2, <2>4, Zenon DEF ValidHeader
<1>4. ASSUME ":" \in Range(name) \cup Range(value) PROVE ~ValidHeader(line)
  BY <1>1, <1>4, ColonInText, Zenon
<1>. QED BY <1>2, <1>3, <1>4, Zenon

\* Headers in the order in which they are written, and their lines.
Lines(headers) == [i \in DOMAIN headers |-> Text(headers[i])]
LinesFacts(headers, N, block) ==
    /\ N \in Nat /\ Len(headers) = N /\ DOMAIN headers = 1..N
    /\ \A i \in 1..N : LineFacts(headers[i], Lines(headers)[i])
    /\ Len(Lines(headers)) = N /\ BlockFacts(Lines(headers), block)

LEMMA WrittenLines ==
    ASSUME NEW headers, headers \in Seq(Range(headers)), Written(headers)
    PROVE  LinesFacts(headers, Len(headers), HeaderBlock(headers))
<1> DEFINE N == Len(headers)
           lines == Lines(headers)
<1>1. N \in Nat /\ DOMAIN headers = 1..N
  OBVIOUS
<1>2. ASSUME NEW i \in 1..N PROVE LineFacts(headers[i], lines[i])
  <2>1. Plain(headers[i].name) /\ Plain(headers[i].value) /\ Gapped(headers[i].gap, headers[i].value)
    BY <1>1, <1>2, Zenon DEF Written, Gapped
  <2>2. lines[i] = Text(headers[i])
    <3> HIDE DEF N
    <3>. QED BY <1>1, <1>2 DEF Lines
  <2>. QED BY <2>1, <2>2, HeaderLine, Zenon
<1>3. DOMAIN lines = 1..N /\ lines = [i \in 1..N |-> lines[i]]
  <2> HIDE DEF N
  <2>. QED BY <1>1 DEF Lines
<1>4. \A i \in 1..N : lines[i] \in Buffer /\ Range(lines[i]) \cap {"CR", "bin"} = {}
  BY <1>2, Zenon DEF LineFacts, TextOf
<1> HIDE DEF lines, N
<1>5. lines \in Seq(Buffer) /\ Len(lines) = N
  <2>1. lines \in [1..N -> Buffer]
    BY <1>3, <1>4
  <2>. QED BY <1>1, <2>1
<1>6. BlockFacts(lines, Block(lines))
  <2>1. \A i \in 1..Len(lines) : Range(lines[i]) \cap {"CR", "bin"} = {}
    BY <1>4, <1>5, Zenon
  <2>. QED BY <1>5, <2>1, BlockSlices, Zenon
<1>7. HeaderBlock(headers) = Block(lines)
  BY Zenon DEF HeaderBlock, lines, Lines
<1>. QED BY <1>1, <1>2, <1>5, <1>6, <1>7, Zenon DEF LinesFacts, N, lines

LEMMA WrittenValid ==
    ASSUME NEW headers, NEW N, NEW block, LinesFacts(headers, N, block)
    PROVE  ValidHeaders(block) <=> NoColon(headers)
<1> DEFINE lines == Lines(headers)
           all == Slices(block)
<1>1. /\ N \in Nat /\ Len(headers) = N /\ Len(lines) = N
      /\ \A i \in 1..N : LineFacts(headers[i], lines[i])
      /\ BlockFacts(lines, block)
  BY Zenon DEF LinesFacts
<1>2. /\ Len(all) = N + 2 /\ all[1] = <<"NATS/1.0">> /\ all[N + 2] = <<>>
      /\ \A i \in 1..N : all[i + 1] = lines[i]
      /\ Len(block) - 1 \in Crlfs(block)
  BY <1>1, Zenon DEF BlockFacts
<1>3. Last(all) = <<>>
  BY <1>2, Zenon DEF Last
<1> HIDE DEF lines, all
<1>4. \A i \in 1..N :
          /\ lines[i] # <<>>
          /\ ValidHeader(lines[i]) <=> ":" \notin Range(headers[i].name) \cup Range(headers[i].value)
  BY <1>1, HeaderLineValid, Zenon
<1>5. Len(all) >= 2 /\ \A n \in 2..Len(all) - 1 : n - 1 \in 1..N /\ all[n] = lines[n - 1]
  <2>1. \A n \in 2..Len(all) - 1 : n - 1 \in 1..N /\ n - 1 + 1 = n
    BY <1>1, <1>2
  <2>2. Len(all) >= 2
    BY <1>1, <1>2
  <2>. QED BY <1>2, <2>1, <2>2
<1>6. \A i \in 1..N : i + 1 \in 2..Len(all) - 1
  BY <1>1, <1>2
<1>7. ValidHeaders(block) <=>
          \A n \in 2..Len(all) - 1 : all[n] # <<>> /\ ValidHeader(all[n])
  BY <1>2, <1>3, <1>5, Zenon DEF ValidHeaders, all
<1>8. (\A n \in 2..Len(all) - 1 : all[n] # <<>> /\ ValidHeader(all[n]))
      <=> \A i \in 1..N : ValidHeader(lines[i])
  BY <1>2, <1>4, <1>5, <1>6, Zenon
<1>9. (\A i \in 1..N : ValidHeader(lines[i])) <=> NoColon(headers)
  BY <1>1, <1>4, Zenon DEF NoColon
<1>. QED BY <1>7, <1>8, <1>9, Zenon

LEMMA WrittenParsed ==
    ASSUME NEW headers, NEW N, NEW block, LinesFacts(headers, N, block), NoColon(headers)
    PROVE  ParseHeaders(block) = HeadersAsRead(Grouped(headers))
<1> DEFINE lines == Lines(headers)
           all == Slices(block)
           read == HeadersOf(block)
<1>1. /\ N \in Nat /\ Len(headers) = N /\ DOMAIN headers = 1..N
      /\ \A i \in 1..N : LineFacts(headers[i], lines[i])
      /\ Len(lines) = N /\ BlockFacts(lines, block)
  BY Zenon DEF LinesFacts
<1>2. Len(all) = N + 2 /\ \A i \in 1..N : all[i + 1] = lines[i]
  BY <1>1, Zenon DEF BlockFacts
<1>3. \A i \in 1..N : Name(lines[i]) = headers[i].name /\ Value(lines[i]) = Trimmed(headers[i].value)
  BY <1>1, HeaderLineValid, Zenon DEF NoColon
<1>4. \A i \in 1..N : headers[i].value \in Buffer
  BY <1>1, Zenon DEF LineFacts
<1>5. read = [i \in 1..Len(all) - 2 |-> Header(all[i + 1])]
  BY Zenon DEF HeadersOf
<1> HIDE DEF lines, all, read
<1>6. DOMAIN read = 1..N /\ \A i \in 1..N : read[i] = Header(lines[i])
  BY <1>1, <1>2, <1>5
<1>7. \A line : Header(line).name = Name(line) /\ Header(line).value = Value(line)
  BY DEF Header
<1>8. \A i \in 1..N : read[i].name = headers[i].name /\ read[i].value = Trimmed(headers[i].value)
  BY <1>3, <1>6, <1>7, Zenon
<1>9. Len(read) = N
  <2>1. read = [i \in 1..N |-> read[i]]
    BY <1>1, <1>2, <1>5, <1>6
  <2>. QED BY <1>1, <2>1
<1>10. Listed(headers, N)
  BY <1>1, <1>4, Zenon DEF Listed
<1>11. Listed(read, N)
  BY <1>1, <1>4, <1>6, <1>8, <1>9, TrimmedIs, Zenon DEF Listed
<1>12. ReadOf(read, headers, N)
  BY <1>8, Zenon DEF ReadOf
<1>13. \A name : ValuesOf(read, name) = [i \in DOMAIN ValuesOf(headers, name) |->
                                            Trimmed(ValuesOf(headers, name)[i])]
  <2>1. \A name : TrimmedAs(ValuesOf(headers, name), ValuesOf(read, name))
    BY <1>10, <1>11, <1>12, TrimmedValues, Zenon
  <2>. QED BY <2>1 DEF TrimmedAs
<1>14. {read[i].name : i \in DOMAIN read} = {headers[i].name : i \in DOMAIN headers}
  BY <1>1, <1>6, <1>8
<1> DEFINE names == {headers[i].name : i \in DOMAIN headers}
           grouped == Grouped(headers)
<1>15. Grouped(read) = [name \in names |-> ValuesOf(read, name)]
       /\ grouped = [name \in names |-> ValuesOf(headers, name)]
  BY <1>14, Zenon DEF Grouped
<1> HIDE DEF names, grouped
<1>16. HeadersAsRead(grouped) = [name \in names |-> [i \in DOMAIN ValuesOf(headers, name) |->
                                            Trimmed(ValuesOf(headers, name)[i])]]
  BY <1>15 DEF HeadersAsRead
<1>17. Grouped(read) = HeadersAsRead(grouped)
  BY <1>13, <1>15, <1>16
<1>. QED BY <1>17, Zenon DEF ParseHeaders, read, grouped

LEMMA WrittenColon ==
    ASSUME NEW headers, NEW N, NEW block, LinesFacts(headers, N, block), ~NoColon(headers)
    PROVE  ColonInHeaders(Grouped(headers))
<1>1. /\ N \in Nat /\ Len(headers) = N /\ DOMAIN headers = 1..N
      /\ \A i \in 1..N : headers[i].value \in Buffer
  BY Zenon DEF LinesFacts, LineFacts
<1>2. Listed(headers, N)
  BY <1>1, Zenon DEF Listed
<1>3. PICK i \in 1..N : ":" \in Range(headers[i].name) \cup Range(headers[i].value)
  BY <1>1, Zenon DEF NoColon
<1> DEFINE name == headers[i].name
           grouped == Grouped(headers)
<1>4. PICK k \in DOMAIN ValuesOf(headers, name) : ValuesOf(headers, name)[k] = headers[i].value
  BY <1>2, ValueKept, Zenon
<1>5. name \in DOMAIN grouped /\ grouped[name] = ValuesOf(headers, name)
  <2> HIDE DEF name
  <2>1. name \in {headers[j].name : j \in DOMAIN headers}
    BY <1>1 DEF name
  <2>. QED BY <2>1 DEF Grouped
<1>. QED BY <1>3, <1>4, <1>5, Zenon DEF ColonInHeaders

-----------------------------------------------------------------------------
(* HMSG and HPUB.                                                          *)

\* The lengths that an item declares.
BlockLen(item) == Len(HeaderBlock(item.headers))
TotalLen(item) == BlockLen(item) + Len(item.frame.payload)

HeadedFacts(item, line, block, rest) ==
    /\ Lined(item.bytes, item.frame.verb, line, rest \o CRLF)
    /\ EndTwo(line, item.frame.fields, Numeral[BlockLen(item)], Numeral[TotalLen(item)])
    /\ rest = block \o item.frame.payload /\ block = HeaderBlock(item.headers)
    /\ LinesFacts(item.headers, Len(item.headers), block)
    /\ BlockLen(item) \in 0..MaxNumber /\ TotalLen(item) \in 0..MaxNumber
    /\ block \in Buffer /\ item.frame.payload \in Buffer /\ rest \in Buffer

LEMMA HeadedLayout ==
    ASSUME NEW c, NEW item, WellFormed(c, item), item.frame.verb \in Headed
    PROVE  \E line, block, rest : HeadedFacts(item, line, block, rest)
<1> DEFINE f == item.frame
           v == <<f.verb>>
           one == Numeral[BlockLen(item)]
           two == Numeral[TotalLen(item)]
           n == <<one, two>>
           end == CRLF
           fields == f.fields
           payload == f.payload
           block == HeaderBlock(item.headers)
           rest == block \o payload
           line == fields \o n
<1>1. /\ f.verb \in Verbs(c) /\ Plain(fields) /\ payload \in Seq(STRING)
      /\ item.bytes = Layout(f, item.headers)
      /\ item.headers \in Seq(Range(item.headers)) /\ Written(item.headers)
      /\ Len(block) + Len(payload) <= MaxNumber
  BY DEF WellFormed
<1>2. fields \in Buffer /\ "CR" \notin Range(fields) /\ payload \in Buffer
  BY <1>1, PlainIs, StringsAreTokens
<1>3. LinesFacts(item.headers, Len(item.headers), block)
  BY <1>1, WrittenLines, Zenon
<1>4. block \in Buffer
  BY <1>3, Zenon DEF LinesFacts, BlockFacts
<1>5. BlockLen(item) \in 0..MaxNumber /\ TotalLen(item) \in 0..MaxNumber
  <2>0. Len(block) + Len(payload) <= MaxNumber
    BY <1>1, Zenon
  <2> HIDE DEF block, payload
  <2>1. Len(block) \in Nat /\ Len(payload) \in Nat /\ Len(block) + Len(payload) <= MaxNumber
    BY <1>2, <1>4, <2>0 DEF Buffer
  <2>2. Len(block) \in 0..MaxNumber /\ Len(block) + Len(payload) \in 0..MaxNumber
    BY <2>1, LimitAssumption
  <2>. QED BY <2>2, Zenon DEF BlockLen, TotalLen, block, payload
<1>6. one \in Token /\ one # "CR" /\ two \in Token /\ two # "CR"
  BY <1>5, NumeralIs
<1>7. f.verb \in Token /\ f.verb # "CR"
  BY <1>1, VerbIs
<1>8. item.bytes = ((((((v \o fields) \o n) \o end) \o block) \o payload) \o end)
  <2>1. f.verb \notin Loaded
    BY Zenon DEF Headed, Loaded
  <2>2. Layout(f, item.headers) = ((((((v \o fields) \o n) \o end) \o block) \o payload) \o end)
    BY <2>1, Zenon DEF Layout, Headed, Loaded, BlockLen, TotalLen
  <2>. QED BY <1>1, <2>2, Zenon
<1> HIDE DEF one, two
<1>9. EndTwo(line, fields, one, two)
  BY <1>2, <1>6, EndTwoIs, Zenon
<1>10. line \in Buffer /\ "CR" \notin Range(line)
  <2> HIDE DEF line
  <2>1. line \in Buffer /\ Range(line) = Range(fields) \cup {one, two}
    BY <1>9, Zenon DEF EndTwo
  <2>2. "CR" \notin Range(line)
    BY <1>2, <1>6, <2>1
  <2>. QED BY <2>1, <2>2, Zenon
<1>11. v \in Buffer /\ n \in Buffer /\ end \in Buffer
  <2>1. v \in Buffer /\ end \in Buffer
    BY <1>7, OneToken, CrlfIs, Zenon
  <2>2. n \in Buffer
    BY <1>6 DEF Buffer
  <2>. QED BY <2>1, <2>2, Zenon
<1>12. rest \in Buffer /\ rest \o end \in Buffer
  BY <1>2, <1>4, <1>11, JoinedIn, Zenon
<1> DEFINE front == ((v \o fields) \o n) \o end
<1>13. front \in Buffer
  BY <1>2, <1>11, JoinedIn, Zenon
<1>14. item.bytes = ((((v \o fields) \o n) \o end) \o rest) \o end
  <2> HIDE DEF block, payload
  <2>1. item.bytes = ((front \o block) \o payload) \o end
    BY <1>8, Zenon
  <2> HIDE DEF front
  <2>2. Associated(front, block, payload)
    BY <1>2, <1>4, <1>13, Associate, Zenon
  <2>3. item.bytes = (front \o rest) \o end
    BY <2>1, <2>2, Zenon DEF Associated
  <2>. QED BY <2>3, Zenon DEF front
<1> HIDE DEF v, n, end, fields, payload, block, rest
<1>15. Behind(v, fields, n, end, rest)
  BY <1>2, <1>11, <1>12, BehindIs, Zenon
<1>16. item.bytes = v \o (((fields \o n) \o end) \o (rest \o end))
  BY <1>14, <1>15, Zenon DEF Behind
<1>17. Lined(item.bytes, f.verb, line, rest \o end)
  BY <1>7, <1>10, <1>12, <1>16, Zenon DEF Lined, v, end
<1> HIDE DEF line
<1>18. HeadedFacts(item, line, block, rest)
  BY <1>2, <1>3, <1>4, <1>5, <1>9, <1>12, <1>17, Zenon
     DEF HeadedFacts, one, two, end, fields, payload, block, rest
<1>. QED BY <1>18

\* Where block and payload stand.
Split(bytes, m, block, payload) ==
    /\ Len(bytes) = m + Len(block) + Len(payload) + 2
    /\ SubSeq(bytes, m + 1, m + Len(block)) = block
    /\ SubSeq(bytes, m + Len(block) + 1, m + (Len(block) + Len(payload))) = payload

LEMMA HeadedSplit ==
    ASSUME NEW bytes, NEW verb, NEW line, NEW block \in Buffer, NEW payload \in Buffer, NEW rest,
           rest = block \o payload, Lined(bytes, verb, line, rest \o CRLF)
    PROVE  Split(Tail(bytes), Len(line) + 2, block, payload)
<1> DEFINE body == Tail(bytes)
           more == rest \o CRLF
           B == Len(block)
           P == Len(payload)
           M == Len(line) + 2
<1>1. LinedFacts(bytes, verb, line, more) /\ line \in Buffer
  BY LineOfItem, Zenon DEF Lined
<1>2. /\ body \in Buffer /\ Len(body) = Len(line) + 2 + Len(more)
      /\ \A i \in 1..Len(more) : body[Len(line) + 2 + i] = more[i]
  BY <1>1, Zenon DEF LinedFacts
<1>3. /\ rest \in Buffer /\ Len(rest) = B + P
      /\ (\A i \in 1..B : rest[i] = block[i]) /\ \A i \in 1..P : rest[B + i] = payload[i]
  <2>1. /\ block \o payload \in Buffer /\ Len(block \o payload) = B + P
        /\ (\A i \in 1..B : (block \o payload)[i] = block[i])
        /\ \A i \in 1..P : (block \o payload)[B + i] = payload[i]
    BY Joined, Zenon
  <2>. QED BY <2>1, Zenon
<1>4. Len(more) = Len(rest) + 2 /\ \A i \in 1..Len(rest) : more[i] = rest[i]
  BY <1>3, CrlfsOfPayload, Zenon
<1>5. M \in Nat /\ B \in Nat /\ P \in Nat
  BY <1>1 DEF Buffer
<1> HIDE DEF more, body, B, P
<1>6. Len(body) = M + Len(more) /\ \A i \in 1..Len(more) : body[M + i] = more[i]
  BY <1>2, Zenon
<1> HIDE DEF M
<1>7. Len(body) = M + B + P + 2
  BY <1>3, <1>4, <1>5, <1>6
<1>8. \A i \in 1..B : body[M + i] = block[i]
  <2>1. ASSUME NEW i \in 1..B PROVE body[M + i] = block[i]
    <3>1. i \in 1..Len(rest) /\ i \in 1..Len(more)
      BY <1>3, <1>4, <1>5
    <3>. QED BY <1>3, <1>4, <1>6, <3>1
  <2>. QED BY <2>1
<1>9. \A i \in 1..P : body[M + B + i] = payload[i]
  <2>1. ASSUME NEW i \in 1..P PROVE body[M + B + i] = payload[i]
    <3>1. B + i \in 1..Len(rest) /\ B + i \in 1..Len(more) /\ M + B + i = M + (B + i)
      BY <1>3, <1>4, <1>5
    <3>. QED BY <1>3, <1>4, <1>6, <3>1
  <2>. QED BY <2>1
<1>10. SubSeq(body, M + 1, M + B) = block
  <2> DEFINE sub == SubSeq(body, M + 1, M + B)
  <2>1. sub \in Buffer /\ Len(sub) = B /\ \A i \in 1..B : sub[i] = body[M + i]
    BY <1>2, <1>5, <1>7 DEF Buffer
  <2> HIDE DEF sub
  <2>2. sub = block
    <3>1. Len(sub) = Len(block) /\ \A i \in 1..Len(sub) : sub[i] = block[i]
      BY <1>8, <2>1, Zenon DEF B
    <3>. QED BY <2>1, <3>1, SameBytes, Zenon
  <2>. QED BY <2>2, Zenon DEF sub
<1>11. SubSeq(body, M + B + 1, M + (B + P)) = payload
  <2> DEFINE a == M + B
             sub == SubSeq(body, a + 1, a + P)
  <2>0. a \in Nat /\ Len(body) = a + P + 2 /\ M + (B + P) = a + P
    BY <1>5, <1>7
  <2>9. \A i \in 1..P : body[a + i] = payload[i]
    BY <1>9, Zenon
  <2> HIDE DEF a
  <2>1. sub \in Buffer /\ Len(sub) = P /\ \A i \in 1..P : sub[i] = body[a + i]
    BY <1>2, <1>5, <2>0 DEF Buffer
  <2> HIDE DEF sub
  <2>2. sub = payload
    <3>1. Len(sub) = Len(payload) /\ \A i \in 1..Len(sub) : sub[i] = payload[i]
      BY <2>9, <2>1, Zenon DEF P
    <3>. QED BY <2>1, <3>1, SameBytes, Zenon
  <2>. QED BY <2>0, <2>2, Zenon DEF sub, a
<1>. QED BY <1>7, <1>10, <1>11, Zenon DEF Split, body, M, B, P

\* What has arrived of them, when both have.
Arrived(body, m, block, payload) == ~(m + (Len(block) + Len(payload)) > Len(body))
SplitAs(body, block, payload) ==
    /\ BlockOf(body, Len(block)) = block
    /\ RestOf(body, Len(block), Len(block) + Len(payload)) = payload

LEMMA SplitArrives ==
    ASSUME NEW block \in Buffer, NEW payload \in Buffer, NEW m \in Nat,
           NEW body, NEW bytes, NEW full, Begins(bytes, full), Begins(body, full),
           MetadataLen(body) = m, Split(bytes, m, block, payload),
           Arrived(body, m, block, payload)
    PROVE  SplitAs(body, block, payload)
<1> DEFINE B == Len(block)
           P == Len(payload)
<1>1. /\ Len(bytes) = m + B + P + 2
      /\ SubSeq(bytes, m + 1, m + B) = block /\ SubSeq(bytes, m + B + 1, m + (B + P)) = payload
  BY Zenon DEF Split
<1>2. B \in Nat /\ P \in Nat /\ Len(body) \in Nat
  BY DEF Buffer, Begins
<1>0. ~(m + (B + P) > Len(body))
  BY Zenon DEF Arrived
<1> HIDE DEF B, P
<1>3. /\ m + 1 \in Nat \ {0} /\ m + B + 1 \in Nat \ {0} /\ m + B \in Nat /\ m + (B + P) \in Nat
      /\ m + B <= Len(bytes) /\ m + (B + P) <= Len(bytes)
      /\ m + B <= Len(body) /\ m + (B + P) <= Len(body)
  BY <1>0, <1>1, <1>2
<1>4. \A a \in Nat \ {0} : \A b \in Nat :
          b <= Len(body) /\ b <= Len(bytes) => SubSeq(body, a, b) = SubSeq(bytes, a, b)
  BY SlicesShared, Zenon
<1>5. SubSeq(body, m + 1, m + B) = SubSeq(bytes, m + 1, m + B)
      /\ SubSeq(body, m + B + 1, m + (B + P)) = SubSeq(bytes, m + B + 1, m + (B + P))
  BY <1>3, <1>4
<1>. QED BY <1>1, <1>5, Zenon DEF SplitAs, BlockOf, RestOf, B, P

\* What becomes of a HMSG or HPUB whose lengths are two numbers.
HeadedOutcome(c, src, verb, fields, h, t) ==
    LET body   == Tail(src)
        m      == MetadataLen(body)
        block  == BlockOf(body, h)
        rest   == RestOf(body, h, t)
        result == Decode(c, src)
    IN  \/ result = FrameTooShort /\ t > Len(body)
        \/ result = Panic /\ m + t + 2 > Len(body)
        \/ result = Panic /\ ~(m + t > Len(body)) /\ verb = "HPUB" /\ ~(Utf8(block) /\ Utf8(rest))
        \/ result = FatalError /\ ~(m + t > Len(body)) /\ ~(Utf8(fields) /\ ValidHeaders(block))
        \/ /\ result = Whole(verb, fields, ParseHeaders(block), rest, m + t + 2 + 1)
           /\ m + t + 2 <= Len(body) /\ Utf8(fields) /\ ValidHeaders(block)

LEMMA Outcomes ==
    /\ FrameTooShort.outcome = "wait" /\ FatalError.outcome = "error" /\ Panic.outcome = "panic"
    /\ \A verb, fields, headers, payload, n :
           Whole(verb, fields, headers, payload, n).outcome = "frame"
BY DEF FrameTooShort, FatalError, Panic, Failed, Whole, Advance

LEMMA HeadedDecoded ==
    ASSUME NEW c, NEW src, NEW verb \in Headed, LineEnds(src) # {}, src[1] = verb,
           verb \in Verbs(c), NEW fields, NEW h \in Nat, NEW t \in Nat,
           SizedTwice(verb, Tail(src), fields, h, t), t >= h,
           Len(Tail(src)) \in Nat, MetadataLen(Tail(src)) \in Nat
    PROVE  HeadedOutcome(c, src, verb, fields, h, t)
<1> DEFINE body == Tail(src)
           m == MetadataLen(body)
           L == Len(body)
           block == BlockOf(body, h)
           rest == RestOf(body, h, t)
           sliced == Slice(verb, body)
           read == Utf8(sliced.frame.headers) /\ Utf8(sliced.frame.payload)
<1>1. SliceFacts(verb, body, fields, h, t)
  BY SizedSlice, Zenon
<1>2. /\ t > L => sliced = FrameTooShort
      /\ ~(t > L) /\ m + t > L => sliced = Panic
      /\ ~(t > L) /\ ~(m + t > L) => sliced = Whole(verb, fields, block, rest, m + t + 2)
  BY <1>1, Zenon DEF SliceFacts
<1>3. /\ sliced.outcome # "frame" => DecodeBody(verb, body) = sliced
      /\ sliced.outcome = "frame" /\ verb = "HPUB" /\ ~read => DecodeBody(verb, body) = Panic
      /\ sliced.outcome = "frame" /\ (verb = "HMSG" \/ read) =>
             DecodeBody(verb, body) = Parse(sliced, body)
  BY DecodeHeadedIs, Zenon
<1>4. \A result : DecodeBody(verb, body) = result /\ result.outcome # "frame" => Decode(c, src) = result
  BY NotCounted, Zenon
<1>5. L \in Nat /\ m \in Nat /\ src[1] \in Verbs(c)
  BY Zenon
<1> HIDE DEF sliced, body, m, L, block, rest, read
<1>6. CASE t > L
  <2>1. sliced = FrameTooShort
    BY <1>2, <1>6, Zenon
  <2>2. FrameTooShort.outcome # "frame"
    BY Outcomes
  <2>3. Decode(c, src) = FrameTooShort
    BY <1>3, <1>4, <2>1, <2>2, Zenon
  <2>. QED BY <1>6, <2>3, Zenon DEF HeadedOutcome, body, L
<1>7. CASE ~(t > L) /\ m + t > L
  <2>1. sliced = Panic
    BY <1>2, <1>7, Zenon
  <2>2. Panic.outcome # "frame"
    BY Outcomes
  <2>3. Decode(c, src) = Panic
    BY <1>3, <1>4, <2>1, <2>2, Zenon
  <2>4. m + t + 2 > L
    BY <1>5, <1>7
  <2>. QED BY <2>3, <2>4, Zenon DEF HeadedOutcome, body, L, m
<1>8. CASE ~(t > L) /\ ~(m + t > L)
  <2> DEFINE n == m + t + 2
  <2>1. sliced = Whole(verb, fields, block, rest, n)
    BY <1>2, <1>8, Zenon
  <2>2. /\ sliced.outcome = "frame" /\ sliced.frame.headers = block /\ sliced.frame.payload = rest
        /\ ~(Utf8(fields) /\ ValidHeaders(block)) => Parse(sliced, body) = FatalError
        /\ Utf8(fields) /\ ValidHeaders(block) =>
               Parse(sliced, body) = IF n > L THEN Panic
                                     ELSE Whole(verb, fields, ParseHeaders(block), rest, n)
    <3>1. ParsedSlices(verb, fields, block, rest, n, body, sliced)
      BY <2>1, ParseIs, Zenon
    <3>. QED BY <3>1, Zenon DEF ParsedSlices, L
  <2>3. read <=> Utf8(block) /\ Utf8(rest)
    BY <2>2, Zenon DEF read
  <2>4. Panic.outcome # "frame" /\ FatalError.outcome # "frame"
    BY Outcomes
  <2>5. CASE verb = "HPUB" /\ ~read
    <3>1. Decode(c, src) = Panic
      BY <1>3, <1>4, <2>2, <2>4, <2>5, Zenon
    <3>. QED BY <1>8, <2>3, <2>5, <3>1, Zenon DEF HeadedOutcome, body, L, m, block, rest
  <2>6. CASE verb = "HMSG" \/ read
    <3>1. DecodeBody(verb, body) = Parse(sliced, body)
      BY <1>3, <2>2, <2>6, Zenon
    <3>2. CASE ~(Utf8(fields) /\ ValidHeaders(block))
      <4>1. Decode(c, src) = FatalError
        BY <1>4, <2>2, <2>4, <3>1, <3>2, Zenon
      <4>. QED BY <1>8, <3>2, <4>1, Zenon DEF HeadedOutcome, body, L, m, block
    <3>3. CASE Utf8(fields) /\ ValidHeaders(block) /\ n > L
      <4>1. Decode(c, src) = Panic
        BY <1>4, <2>2, <2>4, <3>1, <3>3, Zenon
      <4>. QED BY <3>3, <4>1, Zenon DEF HeadedOutcome, body, L, m
    <3>4. CASE Utf8(fields) /\ ValidHeaders(block) /\ ~(n > L)
      <4>1. DecodeBody(verb, body) = Whole(verb, fields, ParseHeaders(block), rest, n)
        BY <2>2, <3>1, <3>4, Zenon
      <4>2. n \in Nat /\ n <= L
        BY <1>5, <3>4
      <4> HIDE DEF n
      <4> DEFINE frame == Frame(verb, fields, ParseHeaders(block), rest)
      <4>3. DecodeBody(src[1], Tail(src)) = Advance(frame, n)
        BY <4>1, Zenon DEF Whole, body
      <4> HIDE DEF frame
      <4>4. Decode(c, src) = Advance(frame, n + 1)
        BY <1>5, <4>2, <4>3, Counted
      <4>5. Decode(c, src) = Whole(verb, fields, ParseHeaders(block), rest, n + 1)
        BY <4>4, Zenon DEF Whole, frame
      <4>. QED BY <3>4, <4>2, <4>5, Zenon DEF HeadedOutcome, body, L, m, block, rest, n
    <3>. QED BY <3>2, <3>3, <3>4, Zenon
  <2>7. verb = "HMSG" \/ verb = "HPUB"
    BY Zenon DEF Headed
  <2>. QED BY <2>5, <2>6, <2>7, Zenon
<1>. QED BY <1>6, <1>7, <1>8, Zenon

\* A slice that is not UTF-8 is not of what is.
LEMMA SliceNotUtf8 ==
    ASSUME NEW bytes \in Buffer, bytes # <<>>, NEW a \in Nat \ {0}, NEW b \in Nat,
           b <= Len(bytes) - 1, ~Utf8(SubSeq(Tail(bytes), a, b))
    PROVE  ~Utf8(bytes)
<1> DEFINE body == Tail(bytes)
           sub == SubSeq(body, a, b)
<1>1. body \in Buffer /\ Len(body) = Len(bytes) - 1 /\ Len(bytes) \in Nat
      /\ \A i \in 1..Len(body) : body[i] = bytes[i + 1]
  BY DEF Buffer
<1>2. DOMAIN bytes = 1..Len(bytes)
  BY DEF Buffer
<1> HIDE DEF body
<1>3. /\ sub \in Buffer
      /\ \A i \in DOMAIN sub : i \in Nat /\ i + a - 1 \in 1..Len(body) /\ sub[i] = body[i + a - 1]
  <2>1. sub \in Buffer /\ DOMAIN sub = 1..Len(sub)
    BY <1>1 DEF Buffer
  <2>2. Len(sub) = IF a <= b THEN b - a + 1 ELSE 0
    BY <1>1 DEF Buffer
  <2>3. \A i \in 1..Len(sub) : sub[i] = body[i + a - 1]
    BY <1>1, <2>2 DEF Buffer
  <2> HIDE DEF sub
  <2>4. \A i \in 1..Len(sub) : i \in Nat /\ i + a - 1 \in 1..Len(body)
    BY <1>1, <2>2
  <2>. QED BY <2>1, <2>3, <2>4
<1>4. PICK i \in DOMAIN sub : sub[i] = "bin"
  BY Zenon DEF Utf8, Range, body
<1> HIDE DEF sub
<1> DEFINE k == i + a - 1
<1>5. k \in 1..Len(body) /\ body[k] = "bin"
  BY <1>3, <1>4
<1> HIDE DEF k
<1>6. k + 1 \in DOMAIN bytes /\ bytes[k + 1] = "bin"
  BY <1>1, <1>2, <1>5
<1>. QED BY <1>6, Zenon DEF Utf8, Range

LEMMA HeadersRead ==
    ASSUME NEW f, f = Frame(f.verb, f.fields, f.headers, f.payload)
    PROVE  AsRead(f) = Frame(f.verb, f.fields, HeadersAsRead(f.headers), f.payload)
<1>1. f = [verb |-> f.verb, fields |-> f.fields, headers |-> f.headers, payload |-> f.payload]
  BY Zenon DEF Frame
<1>2. AsRead(f) = [f EXCEPT !.headers = HeadersAsRead(@)]
  BY Zenon DEF AsRead, HeadersAsRead
<1>3. [f EXCEPT !.headers = HeadersAsRead(@)]
      = [verb |-> f.verb, fields |-> f.fields, headers |-> HeadersAsRead(f.headers),
         payload |-> f.payload]
  BY <1>1
<1>. QED BY <1>2, <1>3, Zenon DEF Frame

LEMMA HeadedFate ==
    ASSUME NEW c, NEW item, WellFormed(c, item), item.frame.verb \in Headed, item.frame # <<>>,
           NEW src, NEW full, Begins(item.bytes, full), Begins(src, full)
    PROVE  Fate(c, item, src)
<1> DEFINE f == item.frame
           bytes == item.bytes
           payload == f.payload
           fields == f.fields
           headers == item.headers
           body == Tail(src)
           h == BlockLen(item)
           t == TotalLen(item)
           P == Len(payload)
<1>1. /\ LineEnds(bytes) # {} /\ f.verb \in Verbs(c) /\ Plain(fields)
      /\ Len(fields) \in Arity(f.verb) /\ f = Frame(f.verb, fields, f.headers, payload)
      /\ f.headers = Grouped(headers)
  BY DEF WellFormed
<1>2. PICK line, block, rest : HeadedFacts(item, line, block, rest)
  BY HeadedLayout, Zenon
<1>3. /\ Lined(bytes, f.verb, line, rest \o CRLF) /\ EndTwo(line, fields, Numeral[h], Numeral[t])
      /\ rest = block \o payload /\ block = HeaderBlock(headers)
      /\ LinesFacts(headers, Len(headers), block)
      /\ h \in 0..MaxNumber /\ t \in 0..MaxNumber
      /\ block \in Buffer /\ payload \in Buffer /\ rest \in Buffer
  BY <1>2, Zenon DEF HeadedFacts
<1> DEFINE m == Len(line) + 2
<1>4. fields \in Buffer /\ Utf8(fields) /\ line \in Buffer
  BY <1>1, <1>3, PlainIs, Zenon DEF Lined
<1>5. Split(Tail(bytes), m, block, payload)
  BY <1>3, HeadedSplit, Zenon
<1>6. h = Len(block) /\ t = h + P
  BY <1>3, Zenon DEF BlockLen, TotalLen
<1>7. h \in Nat /\ P \in Nat /\ t \in Nat /\ t >= h /\ m \in Nat
  <2>1. Len(block) \in Nat /\ P \in Nat /\ Len(line) \in Nat
    BY <1>3, <1>4 DEF Buffer
  <2> HIDE DEF h, t, P
  <2>. QED BY <1>6, <2>1
<1>8. bytes \in Buffer /\ Len(bytes) \in Nat /\ Len(bytes) = m + t + 2 + 1
      /\ Len(Tail(bytes)) = Len(bytes) - 1
  <2>1. bytes \in Buffer /\ Len(bytes) \in Nat /\ Len(Tail(bytes)) = Len(line) + 2 + Len(rest \o CRLF)
        /\ Len(bytes) = Len(line) + 3 + Len(rest \o CRLF)
    <3>1. LinedFacts(bytes, f.verb, line, rest \o CRLF)
      BY <1>3, LineOfItem, Zenon
    <3>. QED BY <3>1, Zenon DEF LinedFacts
  <2>2. Len(Tail(bytes)) = m + Len(block) + P + 2
    BY <1>5, Zenon DEF Split
  <2> DEFINE L == Len(rest \o CRLF)
             T == Len(Tail(bytes))
  <2>3. L \in Nat
    <3>1. rest \o CRLF \in Buffer
      BY <1>3, CrlfIs, JoinedIn, Zenon
    <3>. QED BY <3>1 DEF Buffer
  <2>4. Len(bytes) \in Nat /\ T = Len(line) + 2 + L /\ Len(bytes) = Len(line) + 3 + L
        /\ T = m + Len(block) + P + 2 /\ Len(line) + 2 = m
    BY <2>1, <2>2, Zenon
  <2>5. Len(line) \in Nat
    BY <1>4 DEF Buffer
  <2> HIDE DEF h, t, P, m, L, T, bytes
  <2>6. Len(bytes) = m + t + 2 + 1 /\ T = Len(bytes) - 1
    BY <1>6, <1>7, <2>3, <2>4, <2>5
  <2>. QED BY <2>1, <2>6, Zenon DEF T, bytes
<1>9. CASE LineEnds(src) = {}
  BY <1>1, <1>9, LineArrives, Zenon DEF Fate
<1>10. CASE LineEnds(src) # {}
  <2>1. ArrivedFacts(src, full, bytes, f.verb, line)
    BY <1>1, <1>3, <1>10, LineOfItemArrived, Zenon
  <2>2. /\ src[1] = f.verb /\ Metadata(body) = line /\ MetadataLen(body) = m
        /\ Len(src) \in Nat /\ Len(body) = Len(src) - 1 /\ body \in Buffer
        /\ Begins(body, Tail(full)) /\ Begins(Tail(bytes), Tail(full))
    BY <2>1, Zenon DEF ArrivedFacts
  <2>3. SizedTwice(f.verb, body, fields, h, t)
    BY <1>1, <1>3, <1>4, <2>2, SizedTwiceIs, Zenon
  <2>4. Len(body) \in Nat
    BY <2>2 DEF Buffer
  <2>5. HeadedOutcome(c, src, f.verb, fields, h, t)
    BY <1>1, <1>7, <1>10, <2>2, <2>3, <2>4, HeadedDecoded, Zenon
  <2>6. ~(m + t > Len(body)) => BlockOf(body, h) = block /\ RestOf(body, h, t) = payload
    <3>1. Arrived(body, m, block, payload) => SplitAs(body, block, payload)
      BY <1>3, <1>5, <1>7, <2>2, SplitArrives, Zenon
    <3>. QED BY <1>6, <3>1, Zenon DEF Arrived, SplitAs
  <2> DEFINE result == Decode(c, src)
             n == m + t + 2
  <2>7. \/ result = FrameTooShort /\ t > Len(body)
        \/ result = Panic /\ n > Len(body)
        \/ result = Panic /\ ~(m + t > Len(body)) /\ f.verb = "HPUB"
           /\ ~(Utf8(BlockOf(body, h)) /\ Utf8(RestOf(body, h, t)))
        \/ result = FatalError /\ ~(m + t > Len(body))
           /\ ~(Utf8(fields) /\ ValidHeaders(BlockOf(body, h)))
        \/ /\ result = Whole(f.verb, fields, ParseHeaders(BlockOf(body, h)), RestOf(body, h, t), n + 1)
           /\ n <= Len(body) /\ ValidHeaders(BlockOf(body, h))
    BY <2>2, <2>5, Zenon DEF HeadedOutcome
  <2>8. bytes[1] = f.verb
    <3>1. LinedFacts(bytes, f.verb, line, rest \o CRLF)
      BY <1>3, LineOfItem, Zenon
    <3>. QED BY <3>1, Zenon DEF LinedFacts
  <2>9. n > Len(body) => Len(src) < Len(bytes)
    <3> HIDE DEF body, m, t, bytes
    <3>. QED BY <1>7, <1>8, <2>2, <2>4
  <2>10. n <= Len(body) => Len(src) >= Len(bytes) /\ ~(m + t > Len(body))
    <3> HIDE DEF body, m, t, bytes
    <3>. QED BY <1>7, <1>8, <2>2, <2>4
  <2>11. CASE result = FrameTooShort /\ t > Len(body)
    <3>1. n > Len(body)
      <4> HIDE DEF body, m, t
      <4>. QED BY <1>7, <2>4, <2>11
    <3>. QED BY <2>9, <2>11, <3>1, Zenon DEF Fate
  <2>12. CASE result = Panic /\ n > Len(body)
    BY <2>8, <2>9, <2>12, Zenon DEF Fate
  <2>13. CASE result = Panic /\ ~(m + t > Len(body)) /\ f.verb = "HPUB"
              /\ ~(Utf8(BlockOf(body, h)) /\ Utf8(RestOf(body, h, t)))
    <3>1. ~Utf8(payload)
      <4>1. Utf8(block)
        BY <1>3, Zenon DEF LinesFacts, BlockFacts
      <4>. QED BY <2>6, <2>13, <4>1, Zenon
    <3>2. ~Utf8(bytes)
      <4> DEFINE a == m + Len(block) + 1
                 b == m + (Len(block) + P)
      <4>1. payload = SubSeq(Tail(bytes), a, b)
        BY <1>5, Zenon DEF Split
      <4>2. a \in Nat \ {0} /\ b \in Nat /\ b <= Len(bytes) - 1
        <5>1. Len(block) \in Nat /\ t = Len(block) + P
          BY <1>6, <1>7, Zenon
        <5> HIDE DEF m, t, bytes, P
        <5>. QED BY <1>7, <1>8, <5>1
      <4>3. bytes # <<>>
        BY <1>7, <1>8
      <4> HIDE DEF a, b, bytes, payload
      <4>4. ~Utf8(SubSeq(Tail(bytes), a, b))
        BY <3>1, <4>1, Zenon
      <4>. QED BY <1>8, <4>2, <4>3, <4>4, SliceNotUtf8, Zenon
    <3>. QED BY <2>8, <2>13, <3>2, Zenon DEF Fate
  <2>14. CASE result = FatalError /\ ~(m + t > Len(body))
              /\ ~(Utf8(fields) /\ ValidHeaders(BlockOf(body, h)))
    <3>1. ~ValidHeaders(block)
      BY <1>4, <2>6, <2>14, Zenon
    <3>2. ColonInHeaders(f.headers)
      <4>1. ~NoColon(headers)
        BY <1>3, <3>1, WrittenValid, Zenon
      <4>2. ColonInHeaders(Grouped(headers))
        BY <1>3, <4>1, WrittenColon, Zenon
      <4>. QED BY <1>1, <4>2, Zenon
    <3>3. FatalError.outcome = "error"
      BY Outcomes
    <3>. QED BY <2>14, <3>2, <3>3, Zenon DEF Fate
  <2>15. CASE /\ result = Whole(f.verb, fields, ParseHeaders(BlockOf(body, h)), RestOf(body, h, t), n + 1)
              /\ n <= Len(body) /\ ValidHeaders(BlockOf(body, h))
    <3>1. BlockOf(body, h) = block /\ RestOf(body, h, t) = payload /\ Len(src) >= Len(bytes)
      BY <2>6, <2>10, <2>15, Zenon
    <3>2. NoColon(headers)
      <4>1. ValidHeaders(block)
        BY <2>15, <3>1, Zenon
      <4>. QED BY <1>3, <4>1, WrittenValid, Zenon
    <3>3. ParseHeaders(block) = HeadersAsRead(f.headers)
      <4>1. ParseHeaders(block) = HeadersAsRead(Grouped(headers))
        BY <1>3, <3>2, WrittenParsed, Zenon
      <4>. QED BY <1>1, <4>1, Zenon
    <3>4. AsRead(f) = Frame(f.verb, fields, HeadersAsRead(f.headers), payload)
      <4> HIDE DEF f
      <4>1. f = Frame(f.verb, f.fields, f.headers, f.payload)
        BY <1>1, Zenon DEF f
      <4>. QED BY <4>1, HeadersRead, Zenon
    <3>5. result = Advance(AsRead(f), n + 1)
      <4>1. result = Whole(f.verb, fields, HeadersAsRead(f.headers), payload, n + 1)
        BY <2>15, <3>1, <3>3, Zenon
      <4>. QED BY <3>4, <4>1, Zenon DEF Whole
    <3>6. n + 1 = Len(bytes)
      BY <1>8, Zenon
    <3>. QED BY <3>1, <3>5, <3>6, Zenon DEF Fate
  <2>. QED BY <2>7, <2>11, <2>12, <2>13, <2>14, <2>15, Zenon
<1>. QED BY <1>9, <1>10

-----------------------------------------------------------------------------
(* What is no frame.                                                       *)

\* A buffer and an item that have their first line in common.
SameLine(c, src, bytes, full) ==
    LET body  == Tail(src)
        other == Tail(bytes)
    IN  /\ LineEnds(src) # {} /\ src[1] = bytes[1] /\ bytes[1] \in Verbs(c)
        /\ Begins(body, Tail(full)) /\ Begins(other, Tail(full))
        /\ Crlfs(body) # {} /\ Crlfs(other) # {}
        /\ Metadata(body) = Metadata(other) /\ MetadataLen(body) = MetadataLen(other)
        /\ MetadataLen(body) \in Nat /\ body \in Buffer /\ other \in Buffer
        /\ Len(body) \in Nat /\ Len(other) \in Nat /\ Len(src) \in Nat /\ Len(bytes) \in Nat
        /\ Len(body) = Len(src) - 1 /\ Len(other) = Len(bytes) - 1
        /\ src \in Buffer /\ bytes \in Buffer /\ bytes # <<>>

LEMMA LineShared ==
    ASSUME NEW c, NEW bytes, NEW src, NEW full, Begins(bytes, full), Begins(src, full),
           LineEnds(bytes) # {}, LineEnds(src) # {}, bytes[1] \in Verbs(c)
    PROVE  SameLine(c, src, bytes, full)
<1> DEFINE body == Tail(src)
           other == Tail(bytes)
<1>1. bytes[1] # "CR"
  BY VerbIs
<1>2. src \in Buffer /\ bytes \in Buffer
  BY DEF Begins
<1>3. /\ src[1] = bytes[1]
      /\ Begins(other, Tail(full)) /\ Begins(body, Tail(full))
      /\ Crlfs(body) # {} /\ Crlfs(other) # {}
      /\ Metadata(body) = Metadata(other) /\ MetadataLen(body) = MetadataLen(other)
  BY <1>1, LineArrived, Zenon
<1>4. /\ src # <<>> /\ body \in Buffer /\ Len(body) = Len(src) - 1
      /\ bytes # <<>> /\ other \in Buffer /\ Len(other) = Len(bytes) - 1
  BY <1>2, HasLine, Zenon
<1>5. MetadataLen(body) \in Nat
  <2>1. MetadataLen(body) \in 2..Len(body)
    BY <1>3, <1>4, MetadataIs, Zenon
  <2>2. \A n \in 2..Len(body) : n \in Nat
    OBVIOUS
  <2>. QED BY <2>1, <2>2, Zenon
<1>6. Len(body) \in Nat /\ Len(other) \in Nat /\ Len(src) \in Nat /\ Len(bytes) \in Nat
  <2> HIDE DEF body, other
  <2>. QED BY <1>2, <1>4 DEF Buffer
<1>. QED BY <1>2, <1>3, <1>4, <1>5, <1>6, Zenon DEF SameLine

\* Fields and lengths are read from the metadata.
LEMMA SameFields ==
    ASSUME NEW body, NEW other, Metadata(body) = Metadata(other), NEW verb
    PROVE  /\ \A n : Before(body, n) = Before(other, n) /\ Declared(body, n) = Declared(other, n)
           /\ \A n : Enough(verb, body, n) <=> Enough(verb, other, n)
           /\ Sized(verb, body) <=> Sized(verb, other)
<1>1. \A n : Before(body, n) = Before(other, n) /\ Declared(body, n) = Declared(other, n)
  BY Zenon DEF Before, Declared
<1>2. \A n : Enough(verb, body, n) <=> Enough(verb, other, n)
  BY <1>1, Zenon DEF Enough
<1>. QED BY <1>1, <1>2, Zenon DEF Sized

\* A line that is too long.
LEMMA LongFate ==
    ASSUME NEW c, NEW item, item.frame = <<>>,
           NEW src, NEW full, Begins(item.bytes, full), Begins(src, full),
           LineEnds(item.bytes) = {}, Len(item.bytes) >= BufLimit
    PROVE  Fate(c, item, src)
<1> DEFINE bytes == item.bytes
<1>1. src \in Buffer /\ bytes \in Buffer /\ full \in Buffer
  BY DEF Begins
<1>2. Len(src) \in Nat /\ Len(bytes) \in Nat /\ BufLimit \in Nat
  BY <1>1, LimitAssumption DEF Buffer
<1>3. LineEnds(src) = {i \in LineEnds(full) : i + 1 <= Len(src)}
      /\ LineEnds(bytes) = {i \in LineEnds(full) : i + 1 <= Len(bytes)}
  BY CrlfsBegin
<1>4. LineEnds(full) \in SUBSET Nat /\ \A i \in LineEnds(full) : i + 1 <= BufLimit
  <2>1. \A i \in LineEnds(full) : i + 1 <= BufLimit
    BY Zenon DEF LineEnds
  <2>. QED BY <1>1, <2>1, CrlfsIs
<1>5. LineEnds(src) = {}
  BY <1>2, <1>3, <1>4
<1>6. Decode(c, src) = IF Len(src) < BufLimit THEN FrameTooShort ELSE FatalError
  BY <1>5, DecodeIs, Zenon
<1>7. FatalError.outcome = "error"
  BY Outcomes
<1>8. CASE Len(src) < BufLimit
  <2>1. Len(src) < Len(bytes)
    BY <1>2, <1>8
  <2>. QED BY <1>6, <1>8, <2>1, Zenon DEF Fate
<1>9. CASE ~(Len(src) < BufLimit)
  BY <1>6, <1>7, <1>9, Zenon DEF Fate
<1>. QED BY <1>8, <1>9

\* A line that begins with no command.
LEMMA UnknownFate ==
    ASSUME NEW c, NEW item, item.frame = <<>>,
           NEW src, NEW full, Begins(item.bytes, full), Begins(src, full),
           LineEnds(item.bytes) # {}, LineEnds(src) # {}, item.bytes[1] \notin Verbs(c)
    PROVE  Fate(c, item, src)
<1>1. src[1] = item.bytes[1]
  BY LineArrived, Zenon
<1>2. Decode(c, src) = IF Bytes(src) < LongestPrefix(c) THEN FrameTooShort
                       ELSE [FatalError EXCEPT !.consume = First(LineEnds(src))]
  BY <1>1, DecodeIs, Zenon
<1>3. \A n : [FatalError EXCEPT !.consume = n].outcome = "error"
  BY DEF FatalError, Failed
<1>4. CASE Bytes(src) < LongestPrefix(c)
  BY <1>2, <1>4, Zenon DEF Fate
<1>5. CASE ~(Bytes(src) < LongestPrefix(c))
  BY <1>2, <1>3, <1>5, Zenon DEF Fate
<1>. QED BY <1>4, <1>5

\* A decoder that fails.
LEMMA FailedFate ==
    ASSUME NEW c, NEW item, item.frame = <<>>, NEW src, LineEnds(src) # {}, src[1] \in Verbs(c),
           DecodeBody(src[1], Tail(src)) = FatalError
    PROVE  Fate(c, item, src)
<1>1. FatalError.outcome = "error" /\ FatalError.outcome # "frame"
  BY Outcomes
<1>2. Decode(c, src) = FatalError
  BY <1>1, NotCounted, Zenon
<1>. QED BY <1>1, <1>2, Zenon DEF Fate

\* A decoder that waits, and is right, or is known to wait.
LEMMA WaitingFate ==
    ASSUME NEW c, NEW item, item.frame = <<>>, NEW src, LineEnds(src) # {}, src[1] \in Verbs(c),
           DecodeBody(src[1], Tail(src)) = FrameTooShort,
           Len(src) < Len(item.bytes) \/ item.bytes[1] \in Bare \cup Headed \cup {"MSG"}
    PROVE  Fate(c, item, src)
<1>1. FrameTooShort.outcome # "frame"
  BY Outcomes
<1>2. Decode(c, src) = FrameTooShort
  BY <1>1, NotCounted, Zenon
<1>. QED BY <1>2, Zenon DEF Fate

LEMMA MisfitFate ==
    ASSUME NEW c, NEW item, item.frame = <<>>, NEW src, NEW full,
           SameLine(c, src, item.bytes, full), item.bytes[1] \notin Loaded \cup Headed,
           ~Fits(item.bytes[1], Metadata(Tail(item.bytes)))
    PROVE  Fate(c, item, src)
<1> DEFINE verb == item.bytes[1]
           body == Tail(src)
<1>1. /\ verb \in Verbs(c) /\ src[1] = verb /\ LineEnds(src) # {} /\ ~Fits(verb, Metadata(body))
  BY Zenon DEF SameLine
<1>2. verb \in Bare \cup Json \cup {"-ERR", "SUB", "UNSUB"}
  BY <1>1, ShortVerbs, Zenon
<1>3. CASE verb \in Bare
  <2>1. DecodeBody(verb, body) = FrameTooShort
    BY <1>1, <1>3, DecodeBodyIs, Zenon DEF DecodeBare
  <2>. QED BY <1>1, <1>3, <2>1, WaitingFate, Zenon
<1>4. CASE verb \in Json
  <2>1. DecodeBody(verb, body) = FatalError
    BY <1>1, <1>4, DecodeBodyIs, Zenon DEF DecodeJson
  <2>. QED BY <1>1, <2>1, FailedFate, Zenon
<1>5. CASE verb = "-ERR"
  <2>1. DecodeBody(verb, body) = FatalError
    BY <1>1, <1>5, DecodeBodyIs, Zenon DEF DecodeErr
  <2>. QED BY <1>1, <2>1, FailedFate, Zenon
<1>6. CASE verb \in {"SUB", "UNSUB"}
  <2>1. DecodeBody(verb, body) = FatalError
    BY <1>1, <1>6, DecodeBodyIs, Zenon DEF DecodeFields
  <2>. QED BY <1>1, <2>1, FailedFate, Zenon
<1>. QED BY <1>2, <1>3, <1>4, <1>5, <1>6, Zenon

LEMMA MisloadedFate ==
    ASSUME NEW c, NEW item, item.frame = <<>>, NEW src, NEW full,
           SameLine(c, src, item.bytes, full), item.bytes[1] \in Loaded,
           MalformedLoaded(item.bytes[1], Tail(item.bytes))
    PROVE  Fate(c, item, src)
<1> DEFINE verb == item.bytes[1]
           body == Tail(src)
           other == Tail(item.bytes)
           whole == Tail(full)
<1>1. /\ verb \in Verbs(c) /\ src[1] = verb /\ LineEnds(src) # {}
      /\ Begins(body, whole) /\ Begins(other, whole) /\ Crlfs(body) # {} /\ Crlfs(other) # {}
      /\ Metadata(body) = Metadata(other) /\ MetadataLen(body) = MetadataLen(other)
      /\ MetadataLen(body) \in Nat /\ body \in Buffer
      /\ Len(body) \in Nat /\ Len(other) \in Nat /\ Len(src) \in Nat /\ Len(item.bytes) \in Nat
      /\ Len(body) = Len(src) - 1 /\ Len(other) = Len(item.bytes) - 1
  BY Zenon DEF SameLine
<1>2. /\ \A n : Before(body, n) = Before(other, n) /\ Declared(body, n) = Declared(other, n)
      /\ Sized(verb, body) <=> Sized(verb, other)
  BY <1>1, SameFields, Zenon
<1>3. ~Sized(verb, body) \/ PayloadEnds(other) # {}
  BY <1>2, Zenon DEF MalformedLoaded
<1>4. ASSUME PayloadEnds(body) # {} PROVE DecodeLoaded(verb, body) = FatalError
  <2>1. CASE ~Sized(verb, body) \/ ~Utf8(Before(body, 1))
    BY <2>1, Zenon DEF DecodeLoaded
  <2>2. CASE Sized(verb, body) /\ Utf8(Before(body, 1))
    <3>1. PayloadEnds(other) # {}
      BY <1>3, <2>2, Zenon
    <3>2. First(PayloadEnds(body)) = First(PayloadEnds(other))
          /\ First(PayloadEnds(body)) \in Crlfs(body) /\ First(PayloadEnds(body)) > MetadataLen(body)
      <4>1. First(PayloadEnds(body)) = First(PayloadEnds(whole))
            /\ First(PayloadEnds(body)) \in Crlfs(body) /\ First(PayloadEnds(body)) > MetadataLen(body)
        BY <1>1, <1>4, PayloadEndBegin, Zenon
      <4>2. First(PayloadEnds(other)) = First(PayloadEnds(whole))
        BY <1>1, <3>1, PayloadEndBegin, Zenon
      <4>. QED BY <4>1, <4>2, Zenon
    <3> DEFINE p == First(PayloadEnds(body))
               m == MetadataLen(body)
    <3>3. Number(Declared(body, 0)) # p - 1 - m
      <4>1. Number(Declared(other, 0)) # First(PayloadEnds(other)) - 1 - MetadataLen(other)
        BY <1>2, <2>2, Zenon DEF MalformedLoaded
      <4>. QED BY <1>1, <1>2, <3>2, <4>1, Zenon
    <3>4. Len(SubSeq(body, m + 1, p - 1)) = p - 1 - m
      <4>1. p \in Nat /\ p + 1 <= Len(body) /\ p > m
        BY <1>1, <3>2, CrlfsIs
      <4> HIDE DEF p, m
      <4>2. m \in Nat
        BY <1>1, Zenon DEF m
      <4> HIDE DEF body
      <4>. QED BY <1>1, <4>1, <4>2 DEF Buffer
    <3>. QED BY <3>3, <3>4, Zenon DEF DecodeLoaded
  <2>. QED BY <2>1, <2>2, Zenon
<1>5. CASE verb = "MSG"
  <2>1. DecodeBody(verb, body) = IF PayloadEnds(body) = {} THEN FrameTooShort
                                 ELSE DecodeLoaded(verb, body)
    BY <1>5, DecodeBodyIs, Zenon DEF DecodeMsg
  <2>2. CASE PayloadEnds(body) = {}
    BY <1>1, <1>5, <2>1, <2>2, WaitingFate, Zenon
  <2>3. CASE PayloadEnds(body) # {}
    BY <1>1, <1>4, <2>1, <2>3, FailedFate, Zenon
  <2>. QED BY <2>2, <2>3
<1>6. CASE verb = "PUB"
  <2>1. DecodeBody(verb, body) = DecodePub(body)
    BY <1>6, DecodeBodyIs, Zenon
  <2>2. CASE ~Sized(verb, body)
    <3>1. DecodeBody(verb, body) = FatalError
      BY <1>6, <2>1, <2>2, DecodePubIs, Zenon
    <3>. QED BY <1>1, <3>1, FailedFate, Zenon
  <2>3. CASE Sized(verb, body) /\ PayloadEnds(body) = {}
    <3>1. DecodeBody(verb, body) = FrameTooShort
      BY <1>6, <2>1, <2>3, DecodePubIs, Zenon
    <3>2. Len(src) < Len(item.bytes)
      <4>1. PayloadEnds(other) # {}
        BY <1>3, <2>3, Zenon
      <4>2. /\ PayloadEnds(body) = {i \in PayloadEnds(whole) : i + 1 <= Len(body)}
            /\ PayloadEnds(other) = {i \in PayloadEnds(whole) : i + 1 <= Len(other)}
            /\ whole \in Buffer /\ Crlfs(whole) # {}
        <5>1. PayloadEnds(body) = {i \in PayloadEnds(whole) : i + 1 <= Len(body)} /\ Crlfs(whole) # {}
          BY <1>1, MetadataBegin, Zenon
        <5>2. PayloadEnds(other) = {i \in PayloadEnds(whole) : i + 1 <= Len(other)}
          BY <1>1, MetadataBegin, Zenon
        <5>3. whole \in Buffer
          BY <1>1, Zenon DEF Begins
        <5>. QED BY <5>1, <5>2, <5>3, Zenon
      <4>3. PayloadEnds(whole) \in SUBSET Nat
        BY <4>2, MetadataIs, Zenon
      <4> HIDE DEF body, other, whole
      <4>4. Len(body) < Len(other)
        BY <1>1, <2>3, <4>1, <4>2, <4>3
      <4>. QED BY <1>1, <4>4
    <3>. QED BY <1>1, <3>1, <3>2, WaitingFate, Zenon
  <2>4. CASE Sized(verb, body) /\ PayloadEnds(body) # {}
    <3>1. DecodeBody(verb, body) = FatalError
      BY <1>4, <1>6, <2>1, <2>4, DecodePubIs, Zenon
    <3>. QED BY <1>1, <3>1, FailedFate, Zenon
  <2>. QED BY <2>2, <2>3, <2>4, Zenon
<1>. QED BY <1>5, <1>6, Zenon DEF Loaded

LEMMA MisheadedFate ==
    ASSUME NEW c, NEW item, item.frame = <<>>, NEW src, NEW full,
           SameLine(c, src, item.bytes, full), item.bytes[1] \in Headed,
           MalformedHeaded(item.bytes[1], Tail(item.bytes))
    PROVE  Fate(c, item, src)
<1> DEFINE bytes == item.bytes
           verb == item.bytes[1]
           body == Tail(src)
           other == Tail(item.bytes)
           whole == Tail(full)
           m == MetadataLen(body)
           h == Number(Declared(body, 1))
           t == Number(Declared(body, 0))
           fields == Before(body, 2)
           numbers == IsNumber(Declared(body, 1)) /\ IsNumber(Declared(body, 0))
<1>1. /\ verb \in Verbs(c) /\ src[1] = verb /\ LineEnds(src) # {}
      /\ Begins(body, whole) /\ Begins(other, whole) /\ Crlfs(body) # {} /\ Crlfs(other) # {}
      /\ Metadata(body) = Metadata(other) /\ MetadataLen(body) = MetadataLen(other)
      /\ MetadataLen(body) \in Nat /\ body \in Buffer /\ other \in Buffer
      /\ Len(body) \in Nat /\ Len(other) \in Nat /\ Len(src) \in Nat /\ Len(bytes) \in Nat
      /\ Len(body) = Len(src) - 1 /\ Len(other) = Len(bytes) - 1
      /\ bytes \in Buffer /\ bytes # <<>>
  BY Zenon DEF SameLine
<1>2. /\ \A n : Before(body, n) = Before(other, n) /\ Declared(body, n) = Declared(other, n)
      /\ \A n : Enough(verb, body, n) <=> Enough(verb, other, n)
  BY <1>1, SameFields, Zenon
<1>3. \/ ~Enough(verb, body, 2)
      \/ ~numbers \/ t < h
      \/ /\ m + t + 2 <= Len(other)
         /\ ~Utf8(fields) \/ ~ValidHeaders(SubSeq(other, m + 1, m + h))
  <2> DEFINE hh == Number(Declared(other, 1))
             tt == Number(Declared(other, 0))
             mm == MetadataLen(other)
             given == IsNumber(Declared(other, 1)) /\ IsNumber(Declared(other, 0))
  <2>1. \/ ~Enough(verb, other, 2)
        \/ ~given \/ tt < hh
        \/ /\ mm + tt + 2 <= Len(other)
           /\ ~Utf8(Before(other, 2)) \/ ~ValidHeaders(SubSeq(other, mm + 1, mm + hh))
    BY Zenon DEF MalformedHeaded
  <2>2. /\ hh = h /\ tt = t /\ mm = m /\ (given <=> numbers) /\ Before(other, 2) = fields
        /\ Enough(verb, body, 2) <=> Enough(verb, other, 2)
    BY <1>1, <1>2, Zenon
  <2> HIDE DEF hh, tt, mm, given, h, t, m, numbers, fields, body, other, verb
  <2>. QED BY <2>1, <2>2
<1>4. numbers => h \in Nat /\ t \in Nat
  BY NumberIs
<1>5. DecodeBody(verb, body) = Slice(verb, body) \/ Slice(verb, body).outcome = "frame"
  BY DecodeHeadedIs, Zenon
<1>6. CASE ~Enough(verb, body, 2)
  <2>1. Slice(verb, body) = FrameTooShort
    BY <1>6, SliceIs, Zenon
  <2>2. FrameTooShort.outcome # "frame"
    BY Outcomes
  <2>3. DecodeBody(verb, body) = FrameTooShort
    BY <1>5, <2>1, <2>2, Zenon
  <2>. QED BY <1>1, <2>3, WaitingFate, Zenon
<1>7. CASE Enough(verb, body, 2) /\ (~numbers \/ t < h)
  <2>1. Slice(verb, body) = FatalError
    BY <1>7, SliceIs, Zenon
  <2>2. FatalError.outcome # "frame"
    BY Outcomes
  <2>3. DecodeBody(verb, body) = FatalError
    BY <1>5, <2>1, <2>2, Zenon
  <2>. QED BY <1>1, <2>3, FailedFate, Zenon
<1>8. CASE Enough(verb, body, 2) /\ numbers /\ ~(t < h)
  <2>1. /\ m + t + 2 <= Len(other)
        /\ ~Utf8(fields) \/ ~ValidHeaders(SubSeq(other, m + 1, m + h))
    BY <1>3, <1>8, Zenon
  <2>2. SizedTwice(verb, body, fields, h, t)
    BY <1>8, Zenon DEF SizedTwice
  <2>3. h \in Nat /\ t \in Nat /\ t >= h /\ m \in Nat
    <3>1. h \in Nat /\ t \in Nat /\ m \in Nat /\ ~(t < h)
      BY <1>1, <1>4, <1>8, Zenon
    <3> HIDE DEF h, t, m
    <3>. QED BY <3>1
  <2>4. HeadedOutcome(c, src, verb, fields, h, t)
    BY <1>1, <2>2, <2>3, HeadedDecoded, Zenon
  <2> DEFINE block == BlockOf(body, h)
             rest == RestOf(body, h, t)
             result == Decode(c, src)
  <2>5. \/ result = FrameTooShort
        \/ result = Panic /\ m + t + 2 > Len(body)
        \/ result = Panic /\ ~(m + t > Len(body)) /\ verb = "HPUB" /\ ~(Utf8(block) /\ Utf8(rest))
        \/ result = FatalError
        \/ /\ result = Whole(verb, fields, ParseHeaders(block), rest, m + t + 2 + 1)
           /\ m + t + 2 <= Len(body) /\ Utf8(fields) /\ ValidHeaders(block)
    BY <2>4, Zenon DEF HeadedOutcome
  <2>6. \A a \in Nat \ {0} : \A b \in Nat :
            b <= Len(body) /\ b <= Len(other) => SubSeq(body, a, b) = SubSeq(other, a, b)
    <3>1. Begins(body, whole) /\ Begins(other, whole)
      BY <1>1, Zenon
    <3> HIDE DEF body, other, whole
    <3>. QED BY <3>1, SlicesShared, Zenon
  <2>7. ASSUME ~(m + t > Len(body))
        PROVE  block = SubSeq(other, m + 1, m + h) /\ rest = SubSeq(other, m + h + 1, m + t)
    <3>1. /\ m + 1 \in Nat \ {0} /\ m + h + 1 \in Nat \ {0} /\ m + h \in Nat /\ m + t \in Nat
          /\ m + h <= Len(body) /\ m + t <= Len(body)
          /\ m + h <= Len(other) /\ m + t <= Len(other)
      <4>1. Len(body) \in Nat /\ Len(other) \in Nat /\ m + t + 2 <= Len(other)
        BY <1>1, <2>1, Zenon
      <4> HIDE DEF m, h, t, body, other
      <4>. QED BY <2>3, <2>7, <4>1
    <3> HIDE DEF m, h, t
    <3>2. SubSeq(body, m + 1, m + h) = SubSeq(other, m + 1, m + h)
          /\ SubSeq(body, m + h + 1, m + t) = SubSeq(other, m + h + 1, m + t)
      <4> HIDE DEF body, other
      <4>. QED BY <2>6, <3>1
    <3>. QED BY <3>2, Zenon DEF BlockOf, RestOf, m
  <2>8. CASE result = FrameTooShort
    BY <1>1, <2>8, Zenon DEF Fate
  <2>9. CASE result = Panic /\ m + t + 2 > Len(body)
    <3>1. Len(src) < Len(bytes)
      <4>1. /\ Len(body) \in Nat /\ Len(src) \in Nat /\ Len(bytes) \in Nat
            /\ Len(body) = Len(src) - 1 /\ Len(other) = Len(bytes) - 1
            /\ m + t + 2 <= Len(other) /\ m + t + 2 > Len(body)
        BY <1>1, <2>1, <2>9, Zenon
      <4> HIDE DEF m, t, body, other, bytes
      <4>. QED BY <2>3, <4>1
    <3>. QED BY <2>9, <3>1, Zenon DEF Fate
  <2>10. CASE result = Panic /\ ~(m + t > Len(body)) /\ verb = "HPUB" /\ ~(Utf8(block) /\ Utf8(rest))
    <3>1. block = SubSeq(other, m + 1, m + h) /\ rest = SubSeq(other, m + h + 1, m + t)
      BY <2>7, <2>10, Zenon
    <3>2. /\ m + 1 \in Nat \ {0} /\ m + h + 1 \in Nat \ {0} /\ m + h \in Nat /\ m + t \in Nat
          /\ m + h <= Len(bytes) - 1 /\ m + t <= Len(bytes) - 1
      <4>1. Len(bytes) \in Nat /\ Len(other) = Len(bytes) - 1 /\ m + t + 2 <= Len(other)
        BY <1>1, <2>1, Zenon
      <4> HIDE DEF m, h, t, body, other, bytes
      <4>. QED BY <2>3, <4>1
    <3>3. \A a \in Nat \ {0} : \A b \in Nat :
              b <= Len(bytes) - 1 /\ ~Utf8(SubSeq(other, a, b)) => ~Utf8(bytes)
      BY <1>1, SliceNotUtf8, Zenon
    <3>4. ~Utf8(bytes)
      <4> HIDE DEF m, h, t, block, rest, bytes, other
      <4>. QED BY <2>10, <3>1, <3>2, <3>3, Zenon
    <3>. QED BY <2>10, <3>4, Zenon DEF Fate
  <2>11. CASE result = FatalError
    <3>1. FatalError.outcome = "error"
      BY Outcomes
    <3>. QED BY <2>11, <3>1, Zenon DEF Fate
  <2>12. CASE /\ result = Whole(verb, fields, ParseHeaders(block), rest, m + t + 2 + 1)
              /\ m + t + 2 <= Len(body) /\ Utf8(fields) /\ ValidHeaders(block)
    <3>1. ~(m + t > Len(body))
      <4>1. Len(body) \in Nat /\ m + t + 2 <= Len(body)
        BY <1>1, <2>12, Zenon
      <4> HIDE DEF m, t, body
      <4>. QED BY <2>3, <4>1
    <3>. QED BY <2>1, <2>7, <2>12, <3>1, Zenon
  <2>. QED BY <2>5, <2>8, <2>9, <2>10, <2>11, <2>12, Zenon
<1>. QED BY <1>6, <1>7, <1>8, Zenon

\* Whatever an item is, what becomes of it is known.
LEMMA FateIs ==
    ASSUME NEW c, NEW item,
           IF item.frame = <<>> THEN Malformed(c, item.bytes) ELSE WellFormed(c, item),
           NEW src, NEW full, Begins(item.bytes, full), Begins(src, full)
    PROVE  Fate(c, item, src)
<1> DEFINE bytes == item.bytes
           verb == bytes[1]
<1>1. CASE item.frame = <<>>
  <2>1. Malformed(c, bytes)
    BY <1>1, Zenon
  <2>2. CASE LineEnds(bytes) = {}
    <3>1. Len(bytes) >= BufLimit
      BY <2>1, <2>2, Zenon DEF Malformed
    <3>. QED BY <1>1, <2>2, <3>1, LongFate, Zenon
  <2>3. CASE LineEnds(bytes) # {} /\ LineEnds(src) = {}
    BY <2>3, LineArrives, Zenon DEF Fate
  <2>4. CASE LineEnds(bytes) # {} /\ LineEnds(src) # {} /\ verb \notin Verbs(c)
    BY <1>1, <2>4, UnknownFate, Zenon
  <2>5. CASE LineEnds(bytes) # {} /\ LineEnds(src) # {} /\ verb \in Verbs(c)
    <3>1. SameLine(c, src, bytes, full)
      BY <2>5, LineShared, Zenon
    <3>2. CASE verb \in Loaded
      <4>1. verb \in Verbs(c) \cap Loaded /\ ~(verb \in Verbs(c) \cap Headed)
            /\ ~(verb \in Verbs(c) \ (Loaded \cup Headed)) /\ ~(verb \notin Verbs(c))
        BY <2>5, <3>2, Zenon DEF Loaded, Headed
      <4>2. MalformedLoaded(verb, Tail(bytes))
        BY <2>1, <2>5, <4>1, Zenon DEF Malformed
      <4>. QED BY <1>1, <3>1, <3>2, <4>2, MisloadedFate, Zenon
    <3>3. CASE verb \in Headed
      <4>1. verb \in Verbs(c) \cap Headed /\ ~(verb \in Verbs(c) \cap Loaded)
            /\ ~(verb \in Verbs(c) \ (Loaded \cup Headed)) /\ ~(verb \notin Verbs(c))
        BY <2>5, <3>3, Zenon DEF Loaded, Headed
      <4>2. MalformedHeaded(verb, Tail(bytes))
        BY <2>1, <2>5, <4>1, Zenon DEF Malformed
      <4>. QED BY <1>1, <3>1, <3>3, <4>2, MisheadedFate, Zenon
    <3>4. CASE verb \notin Loaded \cup Headed
      <4>1. verb \in Verbs(c) \ (Loaded \cup Headed) /\ ~(verb \in Verbs(c) \cap Loaded)
            /\ ~(verb \in Verbs(c) \cap Headed) /\ ~(verb \notin Verbs(c))
        BY <2>5, <3>4, Zenon
      <4>2. ~Fits(verb, Metadata(Tail(bytes)))
        BY <2>1, <2>5, <4>1, Zenon DEF Malformed
      <4>. QED BY <1>1, <3>1, <3>4, <4>2, MisfitFate, Zenon
    <3>. QED BY <3>2, <3>3, <3>4, Zenon
  <2>. QED BY <2>2, <2>3, <2>4, <2>5, Zenon
<1>2. CASE item.frame # <<>>
  <2>1. WellFormed(c, item)
    BY <1>2, Zenon
  <2>2. CASE item.frame.verb \in Loaded
    BY <1>2, <2>1, <2>2, LoadedFate, Zenon
  <2>3. CASE item.frame.verb \in Headed
    BY <1>2, <2>1, <2>3, HeadedFate, Zenon
  <2>4. CASE item.frame.verb \notin Loaded \cup Headed
    BY <1>2, <2>1, <2>4, ShortFate, Zenon
  <2>. QED BY <2>2, <2>3, <2>4, Zenon
<1>. QED BY <1>1, <1>2

-----------------------------------------------------------------------------
(* The bytes of a script.                                                  *)

Items(items) ==
    items \in Seq(Range(items)) /\ \A i \in 1..Len(items) : items[i].bytes \in Buffer

IsFlat(f, items) ==
    f = [n \in 0..Len(items) |-> IF n = 0 THEN <<>> ELSE f[n - 1] \o items[n].bytes]

\* A number of items.
Several(items, N) == N \in Nat /\ Len(items) = N /\ \A i \in 1..N : items[i].bytes \in Buffer

LEMMA FlatIs ==
    ASSUME NEW items, NEW N, Several(items, N)
    PROVE  \E f \in [0..N -> Buffer] :
               /\ f[0] = <<>> /\ \A n \in 1..N : f[n] = f[n - 1] \o items[n].bytes
               /\ Flat(items) = f[N]
<1> DEFINE after(n, x) == x \o items[n].bytes
           step == [n \in Nat |-> [x \in Buffer |-> IF n \in 1..N THEN after(n, x) ELSE x]]
<1>1. <<>> \in Buffer
  BY DEF Buffer
<1>2. N \in Nat
  BY Zenon DEF Several
<1>3. ASSUME NEW n \in 1..N, NEW x \in Buffer PROVE after(n, x) \in Buffer
  BY JoinedIn, Zenon DEF Several
<1>4. step \in [Nat -> [Buffer -> Buffer]]
  <2> HIDE DEF after
  <2>. QED BY <1>3
<1>5. PICK f : IsFold(f, Buffer, <<>>, step, N)
  <2> HIDE DEF step
  <2>. QED BY <1>1, <1>2, <1>4, FoldExists
<1> HIDE DEF after
<1>6. f \in [0..N -> Buffer] /\ f[0] = <<>>
  BY <1>5 DEF IsFold
<1>7. ASSUME NEW n \in 1..N PROVE f[n] = after(n, f[n - 1])
  <2>1. f[n] = step[n][f[n - 1]]
    <3> HIDE DEF step
    <3>. QED BY <1>5 DEF IsFold
  <2>2. n \in Nat /\ n - 1 \in 0..N
    BY <1>2
  <2>3. f[n - 1] \in Buffer
    BY <1>6, <2>2
  <2>. QED BY <2>1, <2>2, <2>3
<1>8. ASSUME NEW g, IsFlat(g, items) PROVE g = f
  <2>1. g = [n \in 0..N |-> IF n = 0 THEN <<>> ELSE after(n, g[n - 1])]
    BY <1>8, Zenon DEF IsFlat, after, Several
  <2>2. f = [n \in 0..N |-> f[n]] /\ g = [n \in 0..N |-> g[n]] /\ f[0] = g[0]
    BY <1>2, <1>6, <2>1
  <2>3. ASSUME NEW n \in 0..(N - 1), f[n] = g[n] PROVE f[n + 1] = g[n + 1]
    <3> DEFINE k == n + 1
    <3>1. k \in 1..N /\ k \in 0..N /\ k # 0 /\ k - 1 = n
      BY <1>2
    <3> HIDE DEF k
    <3>2. f[k] = after(k, f[k - 1])
      BY <1>7, <3>1
    <3>3. g[k] = after(k, g[k - 1])
      BY <2>1, <3>1
    <3>4. f[k] = g[k]
      BY <2>3, <3>1, <3>2, <3>3
    <3>. QED BY <3>4 DEF k
  <2>4. Alike(f, g, N)
    BY <2>2, <2>3, Zenon DEF Alike
  <2>. QED BY <1>2, <2>4, FoldsAgree, Zenon
<1>9. IsFlat(f, items)
  <2> DEFINE g == [n \in 0..N |-> IF n = 0 THEN <<>> ELSE after(n, f[n - 1])]
  <2>1. f = g
    <3>1. \A n \in 0..N : f[n] = g[n]
      BY <1>2, <1>6, <1>7
    <3>. QED BY <1>6, <3>1
  <2>. QED BY <2>1, Zenon DEF IsFlat, after, Several
<1>10. (CHOOSE g : IsFlat(g, items)) = f
  BY <1>8, <1>9, Zenon
<1>11. Flat(items) = (CHOOSE g : IsFlat(g, items))[Len(items)]
  BY Zenon DEF Flat, IsFlat
<1>12. Flat(items) = f[N]
  BY <1>10, <1>11, Zenon DEF Several
<1>. QED BY <1>6, <1>7, <1>12, Zenon DEF after

\* Up to each item.
FlatTo(f, items, N) ==
    /\ f \in [0..N -> Buffer] /\ f[0] = <<>>
    /\ \A n \in 1..N : f[n] = f[n - 1] \o items[n].bytes
    /\ \A n \in 0..N : Flat(SubSeq(items, 1, n)) = f[n]
    /\ Flat(items) = f[N]

LEMMA FlatToIs ==
    ASSUME NEW items, Items(items)
    PROVE  \E f : FlatTo(f, items, Len(items))
<1> DEFINE N == Len(items)
<1>1. N \in Nat /\ items \in Seq(Range(items)) /\ \A i \in 1..N : items[i].bytes \in Buffer
  BY DEF Items
<1>2. PICK f \in [0..N -> Buffer] :
          /\ f[0] = <<>> /\ \A n \in 1..N : f[n] = f[n - 1] \o items[n].bytes
          /\ Flat(items) = f[N]
  <2>1. Several(items, N)
    BY <1>1, Zenon DEF Several
  <2>. QED BY <2>1, FlatIs, Zenon
<1> DEFINE bytes(n) == items[n].bytes
<1>3. \A n \in 1..N : f[n] = f[n - 1] \o bytes(n)
  BY <1>2, Zenon
<1>4. ASSUME NEW n \in 0..N PROVE Flat(SubSeq(items, 1, n)) = f[n]
  <2> DEFINE some == SubSeq(items, 1, n)
             has(i) == some[i].bytes
  <2> HIDE DEF N
  <2>1. n \in Nat /\ n <= N
    BY <1>1
  <2>2. Len(some) = n /\ \A i \in 1..n : some[i] = items[i]
    BY <1>1, <2>1 DEF N
  <2> HIDE DEF some
  <2>3. \A i \in 1..n : has(i) = bytes(i) /\ has(i) \in Buffer /\ i \in 1..N
    <3>1. \A i \in 1..n : i \in 1..N
      BY <1>1, <2>1
    <3>. QED BY <1>1, <2>2, <3>1, Zenon
  <2>4. PICK g \in [0..n -> Buffer] :
            /\ g[0] = <<>> /\ \A i \in 1..n : g[i] = g[i - 1] \o has(i)
            /\ Flat(some) = g[n]
    <3>1. Several(some, n)
      BY <2>1, <2>2, <2>3, Zenon DEF Several, has
    <3>. QED BY <3>1, FlatIs, Zenon
  <2> HIDE DEF has, bytes
  <2> DEFINE h == [i \in 0..n |-> f[i]]
  <2>5. g = [i \in 0..n |-> g[i]] /\ h = [i \in 0..n |-> h[i]] /\ g[0] = h[0]
    BY <1>2, <2>1, <2>4
  <2>6. ASSUME NEW i \in 0..(n - 1), g[i] = h[i] PROVE g[i + 1] = h[i + 1]
    <3> DEFINE k == i + 1
    <3>1. k \in 1..n /\ k \in 0..n /\ k \in 1..N /\ k - 1 = i /\ i \in 0..n
      BY <1>1, <2>1
    <3>2. h[k] = f[k] /\ h[i] = f[i]
      BY <3>1
    <3> HIDE DEF k, h
    <3>3. g[k] = g[i] \o has(k) /\ has(k) = bytes(k)
      BY <2>3, <2>4, <3>1
    <3>4. f[k] = f[i] \o bytes(k)
      BY <1>3, <3>1
    <3>5. g[k] = h[k]
      BY <2>6, <3>2, <3>3, <3>4, Zenon
    <3>. QED BY <3>5 DEF k
  <2> HIDE DEF h
  <2>7. g = h
    <3>1. Alike(g, h, n)
      BY <2>5, <2>6, Zenon DEF Alike
    <3>. QED BY <2>1, <3>1, FoldsAgree, Zenon
  <2>8. h[n] = f[n]
    BY <2>1 DEF h
  <2>. QED BY <2>4, <2>7, <2>8, Zenon DEF some
<1>. QED BY <1>2, <1>4, Zenon DEF FlatTo

\* What follows.
LEMMA FlatTail ==
    ASSUME NEW items, Items(items), NEW f, FlatTo(f, items, Len(items)), NEW n \in 0..Len(items)
    PROVE  \E tail \in Buffer : Flat(items) = f[n] \o tail
<1> DEFINE N == Len(items)
           bytes(i) == items[i].bytes
           Followed(i) == \E tail \in Buffer : f[N] = f[i] \o tail
           T == {k \in Nat : k <= N => Followed(N - k)}
<1>1. N \in Nat /\ \A i \in 1..N : bytes(i) \in Buffer
  BY DEF Items
<1>2. f \in [0..N -> Buffer] /\ Flat(items) = f[N]
  BY Zenon DEF FlatTo
<1>3. \A i \in 1..N : f[i] = f[i - 1] \o bytes(i)
  BY Zenon DEF FlatTo
<1> HIDE DEF N, bytes
<1>4. Followed(N)
  <2>1. f[N] \in Buffer
    BY <1>1, <1>2
  <2>2. f[N] = f[N] \o <<>>
    BY <2>1, ConcatEmptySeq, Zenon DEF Buffer
  <2>3. <<>> \in Buffer
    BY DEF Buffer
  <2>. QED BY <2>2, <2>3, Zenon
<1>5. ASSUME NEW i \in 1..N, Followed(i) PROVE Followed(i - 1)
  <2>1. PICK tail \in Buffer : f[N] = f[i] \o tail
    BY <1>5
  <2>2. f[i - 1] \in Buffer /\ bytes(i) \in Buffer
    BY <1>1, <1>2
  <2> DEFINE a == f[i - 1]
             b == bytes(i)
  <2> HIDE DEF a, b
  <2>3. a \in Buffer /\ b \in Buffer /\ f[i] = a \o b
    BY <1>3, <2>2, Zenon DEF a, b
  <2>4. Associated(a, b, tail) /\ b \o tail \in Buffer
    BY <2>3, Associate, JoinedIn, Zenon
  <2>5. f[N] = a \o (b \o tail)
    BY <2>1, <2>3, <2>4, Zenon DEF Associated
  <2>. QED BY <2>4, <2>5, Zenon DEF a
<1> HIDE DEF Followed
<1>6. 0 \in T
  BY <1>1, <1>4
<1>7. ASSUME NEW k \in Nat, k \in T PROVE k + 1 \in T
  <2>1. ASSUME k + 1 <= N PROVE Followed(N - (k + 1))
    <3> DEFINE i == N - k
    <3>1. i \in 1..N /\ Followed(i) /\ i - 1 = N - (k + 1)
      BY <1>1, <1>7, <2>1
    <3> HIDE DEF i
    <3>2. Followed(i - 1)
      BY <1>5, <3>1
    <3>. QED BY <3>1, <3>2
  <2>. QED BY <2>1
<1>8. Nat \subseteq T
  <2> HIDE DEF T
  <2>. QED BY <1>6, <1>7, NatSetInduction
<1>9. Followed(n)
  <2>1. N - n \in T /\ N - n <= N /\ N - (N - n) = n
    BY <1>1, <1>8 DEF N
  <2>. QED BY <2>1
<1>. QED BY <1>2, <1>9, Zenon DEF Followed

-----------------------------------------------------------------------------
(* Where the buffer stands in a script.                                    *)

LEMMA ItemBytes ==
    ASSUME NEW c, NEW item,
           IF item.frame = <<>> THEN Malformed(c, item.bytes) ELSE WellFormed(c, item)
    PROVE  item.bytes \in Buffer
<1>1. CASE item.frame = <<>>
  <2>1. item.bytes \in Seq(STRING)
    BY <1>1 DEF Malformed
  <2>. QED BY <2>1, StringsAreTokens
<1>2. CASE item.frame # <<>>
  <2>1. WellFormed(c, item)
    BY <1>2
  <2>2. \E line, rest : Lined(item.bytes, item.frame.verb, line, rest)
    <3>1. CASE item.frame.verb \in Loaded
      BY <2>1, <3>1, LoadedLayout, Zenon
    <3>2. CASE item.frame.verb \in Headed
      BY <2>1, <3>2, HeadedLayout, Zenon DEF HeadedFacts
    <3>3. CASE item.frame.verb \notin Loaded \cup Headed
      BY <2>1, <3>3, ShortLayout, Zenon
    <3>. QED BY <3>1, <3>2, <3>3, Zenon
  <2>3. PICK line, rest : Lined(item.bytes, item.frame.verb, line, rest)
    BY <2>2, Zenon
  <2>4. LinedFacts(item.bytes, item.frame.verb, line, rest)
    BY <2>3, LineOfItem, Zenon
  <2>. QED BY <2>4, Zenon DEF LinedFacts
<1>. QED BY <1>1, <1>2

\* Two ends of the same bytes.
Same(a, b, c, d) == a \o b = c \o d
Drops(a, b, c, d) ==
    SubSeq(a, Len(c) + 1, Len(a)) \in Buffer /\ SubSeq(a, Len(c) + 1, Len(a)) \o b = d

LEMMA Cancelled ==
    ASSUME NEW a \in Buffer, NEW b \in Buffer, NEW c \in Buffer, NEW d \in Buffer,
           Same(a, b, c, d), Len(c) <= Len(a)
    PROVE  Drops(a, b, c, d)
<1> DEFINE drop == SubSeq(a, Len(c) + 1, Len(a))
           left == drop \o b
           whole == a \o b
<1>1. Len(a) \in Nat /\ Len(b) \in Nat /\ Len(c) \in Nat /\ Len(d) \in Nat
  BY DEF Buffer
<1>2. drop \in Buffer /\ Len(drop) = Len(a) - Len(c)
      /\ \A i \in 1..Len(drop) : drop[i] = a[Len(c) + i]
  BY <1>1 DEF Buffer
<1>3. /\ Len(whole) = Len(a) + Len(b)
      /\ \A i \in 1..Len(a) : whole[i] = a[i]
      /\ \A i \in 1..Len(b) : whole[Len(a) + i] = b[i]
  BY Joined, Zenon
<1>4. Len(whole) = Len(c) + Len(d) /\ \A i \in 1..Len(d) : whole[Len(c) + i] = d[i]
  <2>1. Len(c \o d) = Len(c) + Len(d) /\ \A i \in 1..Len(d) : (c \o d)[Len(c) + i] = d[i]
    BY Joined, Zenon
  <2>. QED BY <2>1, Zenon DEF Same
<1> HIDE DEF drop, whole
<1>5. /\ left \in Buffer /\ Len(left) = Len(drop) + Len(b)
      /\ \A i \in 1..Len(drop) : left[i] = drop[i]
      /\ \A i \in 1..Len(b) : left[Len(drop) + i] = b[i]
  BY <1>2, Joined, Zenon
<1> HIDE DEF left
<1>6. Len(left) = Len(d)
  <2>1. /\ Len(drop) = Len(a) - Len(c) /\ Len(whole) = Len(a) + Len(b)
        /\ Len(whole) = Len(c) + Len(d) /\ Len(left) = Len(drop) + Len(b)
    BY <1>2, <1>3, <1>4, <1>5, Zenon
  <2>. QED BY <1>1, <2>1
<1>7. ASSUME NEW i \in 1..Len(d) PROVE left[i] = d[i]
  <2>1. CASE i \in 1..Len(drop)
    <3>1. Len(c) + i \in 1..Len(a)
      BY <1>1, <1>2, <2>1
    <3>. QED BY <1>2, <1>3, <1>4, <1>5, <2>1, <3>1
  <2>2. CASE i \notin 1..Len(drop)
    <3> DEFINE j == i - Len(drop)
    <3>1. j \in 1..Len(b) /\ Len(drop) + j = i /\ Len(a) + j = Len(c) + i
      BY <1>1, <1>2, <1>5, <1>6, <2>2
    <3> HIDE DEF j
    <3>2. left[i] = b[j] /\ whole[Len(a) + j] = b[j]
      BY <1>3, <1>5, <3>1
    <3>. QED BY <1>4, <3>1, <3>2
  <2>. QED BY <2>1, <2>2
<1>8. left = d
  <2>1. \A i \in 1..Len(left) : left[i] = d[i]
    BY <1>6, <1>7, Zenon
  <2>. QED BY <1>5, <1>6, <2>1, SameBytes, Zenon
<1>. QED BY <1>2, <1>8, Zenon DEF drop, left, Drops

\* What the first n items leave of a script's bytes.
Remain(items, n, full) ==
    /\ n \in 0..Len(items) /\ full \in Buffer
    /\ Flat(SubSeq(items, 1, n)) \o full = Flat(items)

LEMMA RemainFirst ==
    ASSUME NEW items, Items(items)
    PROVE  Remain(items, 0, Flat(items))
<1>1. PICK f : FlatTo(f, items, Len(items))
  BY FlatToIs, Zenon
<1>2. Len(items) \in Nat
  BY DEF Items
<1>3. 0 \in 0..Len(items) /\ Len(items) \in 0..Len(items)
  BY <1>2
<1>4. Flat(SubSeq(items, 1, 0)) = <<>> /\ Flat(items) \in Buffer
  BY <1>1, <1>3 DEF FlatTo
<1>5. <<>> \o Flat(items) = Flat(items)
  BY <1>4, ConcatEmptySeq, Zenon DEF Buffer
<1>. QED BY <1>3, <1>4, <1>5, Zenon DEF Remain

LEMMA RemainNone ==
    ASSUME NEW items, Items(items), NEW full, Remain(items, Len(items), full)
    PROVE  full = <<>>
<1> DEFINE all == Flat(items)
<1>1. PICK f : FlatTo(f, items, Len(items))
  BY FlatToIs, Zenon
<1>2. Len(items) \in 0..Len(items)
  BY DEF Items
<1>3. Flat(SubSeq(items, 1, Len(items))) = all /\ all \in Buffer
  BY <1>1, <1>2 DEF FlatTo
<1>4. all \o full = all /\ full \in Buffer
  BY <1>3, Zenon DEF Remain
<1> HIDE DEF all
<1>5. Len(all \o full) = Len(all) + Len(full) /\ Len(all) \in Nat /\ Len(full) \in Nat
  BY <1>3, <1>4, Joined DEF Buffer
<1>6. Len(full) = 0
  BY <1>4, <1>5
<1>. QED BY <1>4, <1>6 DEF Buffer

\* The next item is what follows.
Continues(items, n, full, tail) ==
    full = items[n + 1].bytes \o tail /\ Remain(items, n + 1, tail)

LEMMA RemainNext ==
    ASSUME NEW items, Items(items), NEW n, NEW full, Remain(items, n, full), n < Len(items)
    PROVE  /\ items[n + 1].bytes \in Buffer
           /\ \E tail \in Buffer : Continues(items, n, full, tail)
<1> DEFINE N == Len(items)
           k == n + 1
           bytes == items[k].bytes
<1>1. N \in Nat /\ n \in Nat /\ full \in Buffer
  BY DEF Items, Remain
<1>2. k \in 1..N /\ k \in 0..N /\ k - 1 = n /\ n \in 0..N
  BY <1>1
<1>3. bytes \in Buffer
  BY <1>2 DEF Items
<1> HIDE DEF k, bytes, N
<1>4. PICK f : FlatTo(f, items, N)
  BY FlatToIs, Zenon DEF N
<1> DEFINE head == f[n]
<1>5. f[k] = f[k - 1] \o bytes /\ head \in Buffer
      /\ Flat(SubSeq(items, 1, n)) = head /\ Flat(SubSeq(items, 1, k)) = f[k]
  BY <1>2, <1>4, Zenon DEF FlatTo, bytes
<1>6. PICK tail \in Buffer : Flat(items) = f[k] \o tail
  BY <1>2, <1>4, FlatTail, Zenon DEF N
<1>7. f[k] = head \o bytes
  BY <1>2, <1>5
<1> HIDE DEF head
<1>8. Associated(head, bytes, tail) /\ bytes \o tail \in Buffer
  BY <1>3, <1>5, Associate, JoinedIn, Zenon
<1> DEFINE rest == bytes \o tail
<1>9. head \o full = head \o rest
  BY <1>5, <1>6, <1>7, <1>8, Zenon DEF Remain, Associated
<1>10. rest \in Buffer
  BY <1>8
<1> HIDE DEF rest
<1>11. SubSeq(head, Len(head) + 1, Len(head)) \o full = rest
  <2>1. Len(head) <= Len(head)
    BY <1>5 DEF Buffer
  <2>2. Same(head, full, head, rest)
    BY <1>9, Zenon DEF Same
  <2>3. Drops(head, full, head, rest)
    BY <1>1, <1>5, <1>10, <2>1, <2>2, Cancelled, Zenon
  <2>. QED BY <2>3, Zenon DEF Drops
<1>12. SubSeq(head, Len(head) + 1, Len(head)) = <<>>
  BY <1>5 DEF Buffer
<1>13. <<>> \o full = full
  BY <1>1, ConcatEmptySeq, Zenon DEF Buffer
<1>14. full = rest
  BY <1>11, <1>12, <1>13, Zenon
<1>15. Remain(items, k, tail)
  BY <1>2, <1>5, <1>6, Zenon DEF Remain, N
<1>. QED BY <1>3, <1>14, <1>15, Zenon DEF rest, bytes, k, Continues

-----------------------------------------------------------------------------
(* What has arrived, what is on its way and what never comes.              *)

Ahead(items, n, src, more, lost) ==
    /\ src \in Buffer /\ more \in Buffer /\ lost \in Buffer
    /\ Remain(items, n, src \o (more \o lost))

\* A chunk moves from the wire to the buffer.
LEMMA ChunkRead ==
    ASSUME NEW items, NEW n, NEW src, NEW more, NEW lost, Ahead(items, n, src, more, lost),
           NEW k \in 1..Len(more)
    PROVE  Ahead(items, n, src \o SubSeq(more, 1, k), SubSeq(more, k + 1, Len(more)), lost)
<1> DEFINE a == SubSeq(more, 1, k)
           b == SubSeq(more, k + 1, Len(more))
<1>1. src \in Buffer /\ more \in Buffer /\ lost \in Buffer
      /\ Remain(items, n, src \o (more \o lost))
  BY Zenon DEF Ahead
<1>2. a \in Buffer /\ b \in Buffer /\ a \o b = more
  <2>1. a \in Buffer /\ b \in Buffer
    BY <1>1 DEF Buffer
  <2>. QED BY <1>1, <2>1 DEF Buffer
<1> HIDE DEF a, b
<1>3. b \o lost \in Buffer /\ src \o a \in Buffer /\ Associated(a, b, lost)
  BY <1>1, <1>2, Associate, JoinedIn, Zenon
<1> DEFINE rest == b \o lost
<1> HIDE DEF rest
<1>4. Associated(src, a, rest)
  BY <1>1, <1>2, <1>3, Associate, Zenon DEF rest
<1>5. (src \o a) \o (b \o lost) = src \o (more \o lost)
  BY <1>2, <1>3, <1>4, Zenon DEF rest, Associated
<1>. QED BY <1>1, <1>2, <1>3, <1>5, Zenon DEF Ahead, a, b

\* What is on the wire is lost.
LEMMA WireLost ==
    ASSUME NEW items, NEW n, NEW src, NEW more, NEW lost, Ahead(items, n, src, more, lost)
    PROVE  Ahead(items, n, src, <<>>, more \o lost)
<1>1. src \in Buffer /\ more \o lost \in Buffer /\ <<>> \in Buffer
  <2>1. <<>> \in Buffer
    BY DEF Buffer
  <2>. QED BY <2>1, JoinedIn, Zenon DEF Ahead
<1>2. <<>> \o (more \o lost) = more \o lost
  BY <1>1, ConcatEmptySeq, Zenon DEF Buffer
<1>. QED BY <1>1, <1>2, Zenon DEF Ahead

\* When nothing is missing, the buffer and the wire are all that remains.
LEMMA NothingLost ==
    ASSUME NEW items, NEW n, NEW src, NEW more, Ahead(items, n, src, more, <<>>)
    PROVE  /\ Remain(items, n, src \o more)
           /\ more = <<>> => Remain(items, n, src)
<1>1. src \in Buffer /\ more \in Buffer
  BY Zenon DEF Ahead
<1>2. more \o <<>> = more /\ src \o <<>> = src
  BY <1>1, ConcatEmptySeq, Zenon DEF Buffer
<1>3. Remain(items, n, src \o more)
  BY <1>2, Zenon DEF Ahead
<1>. QED BY <1>2, <1>3, Zenon

\* The item being received.
LEMMA NextArrives ==
    ASSUME NEW items, Items(items), NEW n, NEW src, NEW more, NEW lost,
           Ahead(items, n, src, more, lost), n < Len(items)
    PROVE  \E full : Begins(items[n + 1].bytes, full) /\ Begins(src, full)
<1> DEFINE full == src \o (more \o lost)
<1>1. src \in Buffer /\ more \o lost \in Buffer /\ Remain(items, n, full)
  BY JoinedIn, Zenon DEF Ahead
<1>2. Begins(src, full)
  BY <1>1, BeginsJoin, Zenon
<1> HIDE DEF full
<1>3. items[n + 1].bytes \in Buffer /\ \E tail \in Buffer : Continues(items, n, full, tail)
  BY <1>1, RemainNext, Zenon
<1>4. PICK tail \in Buffer : full = items[n + 1].bytes \o tail
  BY <1>3, Zenon DEF Continues
<1>5. Begins(items[n + 1].bytes, full)
  <2>1. Begins(items[n + 1].bytes, items[n + 1].bytes \o tail)
    BY <1>3, BeginsJoin, Zenon
  <2>. QED BY <1>4, <2>1, Zenon
<1>. QED BY <1>2, <1>5, Zenon

\* A frame is handed out.
LEMMA NextTaken ==
    ASSUME NEW items, Items(items), NEW n, NEW src, NEW more, NEW lost,
           Ahead(items, n, src, more, lost), n < Len(items), Len(items[n + 1].bytes) <= Len(src)
    PROVE  Ahead(items, n + 1, SubSeq(src, Len(items[n + 1].bytes) + 1, Len(src)), more, lost)
<1> DEFINE bytes == items[n + 1].bytes
           rest == more \o lost
           full == src \o rest
<1>1. /\ src \in Buffer /\ more \in Buffer /\ lost \in Buffer /\ rest \in Buffer
      /\ Remain(items, n, full)
  BY JoinedIn, Zenon DEF Ahead
<1> HIDE DEF rest
<1>2. bytes \in Buffer
  BY <1>1, RemainNext, Zenon
<1>3. PICK tail \in Buffer : full = bytes \o tail /\ Remain(items, n + 1, tail)
  BY <1>1, RemainNext, Zenon DEF Continues
<1>4. Same(src, rest, bytes, tail)
  BY <1>3, Zenon DEF Same
<1>5. Len(bytes) <= Len(src)
  OBVIOUS
<1> HIDE DEF bytes
<1>6. SubSeq(src, Len(bytes) + 1, Len(src)) \in Buffer
      /\ SubSeq(src, Len(bytes) + 1, Len(src)) \o rest = tail
  <2>1. Drops(src, rest, bytes, tail)
    BY <1>1, <1>2, <1>4, <1>5, Cancelled, Zenon
  <2>. QED BY <2>1, Zenon DEF Drops
<1>. QED BY <1>1, <1>3, <1>6, Zenon DEF Ahead, bytes, rest

\* Nothing is left to decode when all items are.
LEMMA NothingAhead ==
    ASSUME NEW items, Items(items), NEW src, NEW more, NEW lost,
           Ahead(items, Len(items), src, more, lost)
    PROVE  src = <<>>
<1> DEFINE rest == more \o lost
<1>1. src \in Buffer /\ rest \in Buffer /\ Remain(items, Len(items), src \o rest)
  BY JoinedIn, Zenon DEF Ahead
<1> HIDE DEF rest
<1>2. src \o rest = <<>>
  BY <1>1, RemainNone, Zenon
<1>3. Len(src \o rest) = Len(src) + Len(rest) /\ Len(src) \in Nat /\ Len(rest) \in Nat
  BY <1>1, Joined DEF Buffer
<1>4. Len(src) = 0
  BY <1>2, <1>3
<1>. QED BY <1>1, <1>4 DEF Buffer

LEMMA NothingWaits ==
    ASSUME NEW c
    PROVE  Decode(c, <<>>) = FrameTooShort
<1>1. LineEnds(<<>>) = {}
  BY DEF LineEnds, Crlfs
<1>2. Len(<<>>) < BufLimit
  BY LimitAssumption
<1>. QED BY <1>1, <1>2, DecodeIs

-----------------------------------------------------------------------------
(* The inductive invariant.                                                *)

Results(items) == {AsRead(items[i].frame) : i \in DOMAIN items}

Setting ==
    /\ codec \in Codecs /\ script \in Scripts(codec) /\ cut \in BOOLEAN
    /\ status \in {"reading", "decoding", "errored", "ended", "panicked"}

\* What was handed out is what was sent.
HandedOut ==
    /\ decoded \in Seq(Results(script)) /\ Len(decoded) <= Len(script)
    /\ \A i \in DOMAIN decoded :
           script[i].frame # <<>> /\ decoded[i] = AsRead(script[i].frame)

\* Until decoding ends, the buffer begins where the last frame ended, and only a cut
\* loses anything.
Arriving ==
    status \in {"reading", "decoding"} =>
        \E lost \in Buffer : /\ Ahead(script, Len(decoded), buffer, wire, lost)
                             /\ ~cut => lost = <<>>

ReaderInv ==
    /\ Setting /\ HandedOut /\ Arriving
    /\ StallsOnlyOnMalformed /\ ErrorsOnlyOnBadInput /\ PanicsOnlyOnHeaders

LEMMA ScriptIs ==
    ASSUME Setting
    PROVE  /\ Items(script)
           /\ \A i \in 1..Len(script) :
                  IF script[i].frame = <<>> THEN Malformed(codec, script[i].bytes)
                                            ELSE WellFormed(codec, script[i])
<1>1. /\ script \in Seq(Range(script))
      /\ \A i \in DOMAIN script :
             IF script[i].frame = <<>> THEN Malformed(codec, script[i].bytes)
                                       ELSE WellFormed(codec, script[i])
  BY ItemsAssumption, Zenon DEF Setting
<1>2. DOMAIN script = 1..Len(script)
  BY <1>1
<1>3. \A i \in 1..Len(script) : script[i].bytes \in Buffer
  BY <1>1, <1>2, ItemBytes, Zenon
<1>. QED BY <1>1, <1>2, <1>3, Zenon DEF Items

LEMMA DecodedIs ==
    ASSUME HandedOut
    PROVE  Len(decoded) \in Nat /\ DOMAIN decoded = 1..Len(decoded)
BY DEF HandedOut

LEMMA ReaderInit == Init => ReaderInv
<1> SUFFICES ASSUME Init PROVE ReaderInv
  OBVIOUS
<1>1. Setting
  BY DEF Init, Setting
<1>2. HandedOut
  <2>1. decoded = <<>> /\ Len(script) \in Nat
    BY <1>1, ScriptIs DEF Init, Items
  <2>. QED BY <2>1 DEF HandedOut
<1>3. Arriving
  <2>1. Items(script)
    BY <1>1, ScriptIs, Zenon
  <2>2. Remain(script, 0, Flat(script))
    BY <2>1, RemainFirst, Zenon
  <2>3. Flat(script) \in Buffer /\ <<>> \in Buffer
    <3>1. <<>> \in Buffer
      BY DEF Buffer
    <3>. QED BY <2>2, <3>1, Zenon DEF Remain
  <2>4. <<>> \o (Flat(script) \o <<>>) = Flat(script)
    <3> DEFINE all == Flat(script)
    <3>1. all \in Buffer
      BY <2>3
    <3> HIDE DEF all
    <3>2. all \o <<>> = all /\ <<>> \o all = all
      BY <3>1, ConcatEmptySeq, Zenon DEF Buffer
    <3>. QED BY <3>2, Zenon DEF all
  <2>5. Ahead(script, 0, <<>>, Flat(script), <<>>)
    BY <2>2, <2>3, <2>4, Zenon DEF Ahead
  <2>6. Len(decoded) = 0 /\ buffer = <<>> /\ wire = Flat(script)
    BY DEF Init
  <2>. QED BY <2>3, <2>5, <2>6, Zenon DEF Arriving
<1>4. StallsOnlyOnMalformed
  <2>1. SUFFICES ASSUME More, Len(buffer) >= Len(Current.bytes) PROVE FALSE
    BY DEF StallsOnlyOnMalformed
  <2>2. Len(decoded) = 0 /\ Len(buffer) = 0
    BY DEF Init
  <2>3. Current = script[1] /\ 1 \in 1..Len(script)
    BY <1>1, <2>1, <2>2, ScriptIs DEF More, Current, Items
  <2>4. LineEnds(Current.bytes) # {} \/ Len(Current.bytes) >= BufLimit
    <3>1. IF Current.frame = <<>> THEN Malformed(codec, Current.bytes) ELSE WellFormed(codec, Current)
      BY <1>1, <2>3, ScriptIs, Zenon
    <3>. QED BY <3>1, Zenon DEF Malformed, WellFormed
  <2>5. Current.bytes \in Buffer
    BY <1>1, <2>3, ScriptIs DEF Items
  <2>6. Len(Current.bytes) = 0
    BY <2>1, <2>2, <2>5 DEF Buffer
  <2>7. LineEnds(Current.bytes) = {}
    BY <2>6 DEF LineEnds, Crlfs
  <2>. QED BY <2>4, <2>6, <2>7, LimitAssumption
<1>5. ErrorsOnlyOnBadInput /\ PanicsOnlyOnHeaders
  BY DEF Init, ErrorsOnlyOnBadInput, PanicsOnlyOnHeaders
<1>. QED BY <1>1, <1>2, <1>3, <1>4, <1>5, Zenon DEF ReaderInv

\* What holds as long as the buffer, the script and what was handed out stay.
LEMMA Kept ==
    ASSUME ReaderInv, UNCHANGED <<codec, script, decoded>>, cut' \in BOOLEAN
    PROVE  HandedOut' /\ (status' \in {"reading", "decoding", "errored", "ended", "panicked"}
                             => Setting')
BY DEF ReaderInv, HandedOut, Setting

LEMMA ReadStep == ReaderInv /\ Read => ReaderInv'
<1> SUFFICES ASSUME ReaderInv, Read PROVE ReaderInv'
  OBVIOUS
<1>1. status = "reading" /\ status' = "decoding" /\ UNCHANGED <<codec, script, cut, decoded>>
  BY DEF Read
<1>2. HandedOut' /\ Setting'
  <2>1. cut' \in BOOLEAN
    BY <1>1 DEF ReaderInv, Setting
  <2>. QED BY <1>1, <2>1, Kept
<1>3. PICK lost \in Buffer : Ahead(script, Len(decoded), buffer, wire, lost)
                             /\ (~cut => lost = <<>>)
  BY <1>1 DEF ReaderInv, Arriving
<1>4. PICK n \in 1..MaxChunk :
          /\ n <= Len(wire) /\ buffer' = buffer \o SubSeq(wire, 1, n)
          /\ wire' = SubSeq(wire, n + 1, Len(wire))
  BY Zenon DEF Read
<1>5. n \in 1..Len(wire)
  <2>1. Len(wire) \in Nat
    BY <1>3 DEF Ahead, Buffer
  <2>. QED BY <1>4, <2>1, ChunkAssumption
<1>6. Ahead(script, Len(decoded), buffer \o SubSeq(wire, 1, n),
            SubSeq(wire, n + 1, Len(wire)), lost)
  BY <1>3, <1>5, ChunkRead, Zenon
<1>7. Arriving'
  BY <1>1, <1>3, <1>4, <1>6, Zenon DEF Arriving
<1>8. StallsOnlyOnMalformed' /\ ErrorsOnlyOnBadInput' /\ PanicsOnlyOnHeaders'
  BY <1>1 DEF StallsOnlyOnMalformed, ErrorsOnlyOnBadInput, PanicsOnlyOnHeaders
<1>. QED BY <1>2, <1>7, <1>8, Zenon DEF ReaderInv

LEMMA CutStep == ReaderInv /\ Cut => ReaderInv'
<1> SUFFICES ASSUME ReaderInv, Cut PROVE ReaderInv'
  OBVIOUS
<1>1. wire' = <<>> /\ cut' = TRUE /\ UNCHANGED <<codec, script, buffer, status, decoded>>
  BY DEF Cut
<1>2. HandedOut' /\ Setting'
  <2>1. status' \in {"reading", "decoding", "errored", "ended", "panicked"}
    BY <1>1 DEF ReaderInv, Setting
  <2>. QED BY <1>1, <2>1, Kept
<1>3. Arriving'
  <2> SUFFICES ASSUME status \in {"reading", "decoding"}
               PROVE  \E lost \in Buffer : Ahead(script, Len(decoded), buffer, <<>>, lost)
    BY <1>1 DEF Arriving
  <2>1. PICK lost \in Buffer : Ahead(script, Len(decoded), buffer, wire, lost)
    BY DEF ReaderInv, Arriving
  <2>2. wire \o lost \in Buffer
    BY <2>1, JoinedIn, Zenon DEF Ahead
  <2>. QED BY <2>1, <2>2, WireLost, Zenon
<1>4. StallsOnlyOnMalformed' /\ PanicsOnlyOnHeaders'
  <2>1. StallsOnlyOnMalformed /\ PanicsOnlyOnHeaders
    BY DEF ReaderInv
  <2>. QED BY <1>1, <2>1, Zenon DEF StallsOnlyOnMalformed, PanicsOnlyOnHeaders, More, Current
<1>5. ErrorsOnlyOnBadInput'
  BY <1>1 DEF ErrorsOnlyOnBadInput
<1>. QED BY <1>2, <1>3, <1>4, <1>5, Zenon DEF ReaderInv

\* Bytes left over at the end of an uncut stream are those of an item that stalls.
LEMMA ReadEofStep == ReaderInv /\ ReadEof => ReaderInv'
<1> SUFFICES ASSUME ReaderInv, ReadEof PROVE ReaderInv'
  OBVIOUS
<1>1. /\ status = "reading" /\ wire = <<>> /\ status' \in {"ended", "errored"}
      /\ status' = "errored" => buffer # <<>>
      /\ UNCHANGED <<codec, script, wire, cut, buffer, decoded>>
  BY DEF ReadEof
<1>2. HandedOut' /\ Setting'
  <2>1. cut' \in BOOLEAN
    BY <1>1 DEF ReaderInv, Setting
  <2>. QED BY <1>1, <2>1, Kept
<1>3. Arriving' /\ StallsOnlyOnMalformed' /\ PanicsOnlyOnHeaders'
  BY <1>1 DEF Arriving, StallsOnlyOnMalformed, PanicsOnlyOnHeaders
<1>4. ErrorsOnlyOnBadInput'
  <2> SUFFICES ASSUME status' = "errored", ~cut PROVE Current.frame = <<>>
    BY <1>1 DEF ErrorsOnlyOnBadInput, Current
  <2> DEFINE n == Len(decoded)
  <2>1. Ahead(script, n, buffer, wire, <<>>)
    BY <1>1 DEF ReaderInv, Arriving
  <2>2. Items(script) /\ Len(script) \in Nat /\ n \in Nat /\ n <= Len(script)
    BY ScriptIs DEF ReaderInv, HandedOut, Items
  <2>3. Remain(script, n, buffer) /\ buffer # <<>>
    BY <1>1, <2>1, NothingLost, Zenon
  <2>4. n # Len(script)
    BY <2>2, <2>3, RemainNone, Zenon
  <2>5. More
    BY <2>2, <2>4 DEF More
  <2>6. script[n + 1].bytes \in Buffer /\ \E tail \in Buffer : Continues(script, n, buffer, tail)
    BY <2>2, <2>3, <2>5, RemainNext, Zenon DEF More
  <2>7. PICK tail \in Buffer : buffer = Current.bytes \o tail
    BY <2>6, Zenon DEF Continues, Current
  <2>8. Len(buffer) >= Len(Current.bytes)
    <3>1. Current.bytes \in Buffer
      BY <2>6, Zenon DEF Current
    <3>2. Begins(Current.bytes, Current.bytes \o tail)
      BY <3>1, BeginsJoin, Zenon
    <3>3. Begins(Current.bytes, buffer)
      BY <2>7, <3>2, Zenon
    <3>. QED BY <3>3 DEF Begins, Buffer
  <2>. QED BY <1>1, <2>5, <2>8 DEF ReaderInv, StallsOnlyOnMalformed
<1>. QED BY <1>2, <1>3, <1>4, Zenon DEF ReaderInv

\* What becomes of the buffer.
Outcome(result) ==
    /\ status = "decoding" /\ UNCHANGED <<codec, script, wire, cut>>
    /\ buffer' = SubSeq(buffer, result.consume + 1, Len(buffer))
    /\ result.outcome = "frame" => decoded' = Append(decoded, result.frame) /\ status' = "decoding"
    /\ result.outcome # "frame" => decoded' = decoded
    /\ result.outcome = "wait" => status' = "reading"
    /\ result.outcome = "error" => status' = "errored"
    /\ result.outcome = "panic" => status' = "panicked"

LEMMA OutcomeIs ==
    ASSUME DecodeNext
    PROVE  Outcome(Decode(codec, buffer))
<1> DEFINE result == Decode(codec, buffer)
<1>1. /\ status = "decoding" /\ UNCHANGED <<codec, script, wire, cut>>
      /\ buffer' = SubSeq(buffer, result.consume + 1, Len(buffer))
      /\ decoded' = IF result.outcome = "frame" THEN Append(decoded, result.frame) ELSE decoded
      /\ status' = CASE result.outcome = "frame" -> "decoding"
                     [] result.outcome = "wait"  -> "reading"
                     [] result.outcome = "error" -> "errored"
                     [] result.outcome = "panic" -> "panicked"
  BY Zenon DEF DecodeNext
<1> HIDE DEF result
<1>2. /\ result.outcome = "frame" => status' = "decoding"
      /\ result.outcome = "wait"  => status' = "reading"
      /\ result.outcome = "error" => status' = "errored"
      /\ result.outcome = "panic" => status' = "panicked"
  BY <1>1, Zenon
<1>3. /\ result.outcome = "frame" => decoded' = Append(decoded, result.frame)
      /\ result.outcome # "frame" => decoded' = decoded
  BY <1>1, Zenon
<1>. QED BY <1>1, <1>2, <1>3, Zenon DEF Outcome, result

LEMMA FrameTooShortIs ==
    FrameTooShort.outcome = "wait" /\ FrameTooShort.consume = 0
BY DEF FrameTooShort, Failed

LEMMA PanicIs ==
    Panic.outcome = "panic" /\ Panic.consume = 0
BY DEF Panic, Failed

\* More bytes are waited for, or decoding ends: nothing is handed out.
LEMMA OutcomeKeeps ==
    ASSUME ReaderInv, NEW result, Outcome(result), result.outcome \in {"wait", "error", "panic"}
    PROVE  /\ HandedOut' /\ Setting' /\ UNCHANGED <<codec, script, wire, cut, decoded>>
           /\ result.consume = 0 => buffer' = buffer
<1>1. UNCHANGED <<codec, script, wire, cut, decoded>> /\ cut' \in BOOLEAN
      /\ status' \in {"reading", "errored", "panicked"}
  BY DEF Outcome, ReaderInv, Setting
<1>2. HandedOut' /\ Setting'
  BY <1>1, Kept
<1>3. buffer \in Buffer
  BY DEF Outcome, ReaderInv, Arriving, Ahead
<1>4. result.consume = 0 => buffer' = buffer
  BY <1>3 DEF Outcome, Buffer
<1>. QED BY <1>1, <1>2, <1>4

\* Waiting, once that is known to be right.
LEMMA WaitStep ==
    ASSUME ReaderInv, Outcome(FrameTooShort), (UNCHANGED buffer /\ More) => StallsOnlyOnMalformed'
    PROVE  ReaderInv'
<1>1. /\ HandedOut' /\ Setting' /\ UNCHANGED <<codec, script, wire, cut, decoded>>
      /\ buffer' = buffer /\ status = "decoding" /\ status' = "reading"
  <2> DEFINE result == FrameTooShort
  <2>1. result.outcome = "wait" /\ result.consume = 0 /\ Outcome(result)
    BY FrameTooShortIs, Zenon
  <2> HIDE DEF result
  <2>2. status = "decoding" /\ status' = "reading"
    BY <2>1, Zenon DEF Outcome
  <2>3. result.outcome \in {"wait", "error", "panic"}
    BY <2>1
  <2>4. UNCHANGED <<codec, script, wire, cut, decoded>> /\ HandedOut' /\ Setting'
        /\ (result.consume = 0 => buffer' = buffer)
    BY <2>1, <2>3, OutcomeKeeps, Zenon
  <2>. QED BY <2>1, <2>2, <2>4, Zenon
<1>2. Arriving'
  <2>1. PICK lost \in Buffer : Ahead(script, Len(decoded), buffer, wire, lost)
                               /\ (~cut => lost = <<>>)
    BY <1>1 DEF ReaderInv, Arriving
  <2>. QED BY <1>1, <2>1, Zenon DEF Arriving
<1>3. StallsOnlyOnMalformed'
  BY <1>1 DEF StallsOnlyOnMalformed, More
<1>4. ErrorsOnlyOnBadInput' /\ PanicsOnlyOnHeaders'
  BY <1>1 DEF ErrorsOnlyOnBadInput, PanicsOnlyOnHeaders
<1>. QED BY <1>1, <1>2, <1>3, <1>4, Zenon DEF ReaderInv

\* A frame is handed out: it is the one sent.
LEMMA FrameStep ==
    ASSUME ReaderInv, More, Current.frame # <<>>, Len(buffer) >= Len(Current.bytes),
           Outcome(Advance(AsRead(Current.frame), Len(Current.bytes)))
    PROVE  ReaderInv'
<1> DEFINE n == Len(decoded)
           k == n + 1
           frame == AsRead(script[k].frame)
<1>1. n \in Nat /\ DOMAIN decoded = 1..n /\ Items(script) /\ Len(script) \in Nat
      /\ DOMAIN script = 1..Len(script)
  BY DecodedIs, ScriptIs DEF ReaderInv, Items
<1>2. k \in 1..Len(script) /\ k \in Nat /\ n < Len(script)
  BY <1>1 DEF More
<1>3. /\ status = "decoding" /\ status' = "decoding" /\ decoded' = Append(decoded, frame)
      /\ UNCHANGED <<codec, script, wire, cut>>
      /\ buffer' = SubSeq(buffer, Len(script[k].bytes) + 1, Len(buffer))
  <2>1. LET result == Advance(frame, Len(script[k].bytes))
        IN  /\ result.outcome = "frame" /\ result.frame = frame
            /\ result.consume = Len(script[k].bytes) /\ Outcome(result)
    <3>1. Outcome(Advance(frame, Len(script[k].bytes)))
      BY Zenon DEF Current
    <3>. QED BY <3>1, Zenon DEF Advance
  <2>. QED BY <2>1, Zenon DEF Outcome
<1>4. Setting'
  BY <1>3 DEF ReaderInv, Setting
<1>5. HandedOut'
  <2>1. decoded \in Seq(Results(script)) /\ frame \in Results(script)
    BY <1>1, <1>2 DEF ReaderInv, HandedOut, Results
  <2>2. \A i \in 1..n : script[i].frame # <<>> /\ decoded[i] = AsRead(script[i].frame)
    BY <1>1 DEF ReaderInv, HandedOut
  <2>3. script[k].frame # <<>>
    BY DEF Current
  <2> HIDE DEF frame
  <2>4. /\ decoded' \in Seq(Results(script)) /\ Len(decoded') = k /\ DOMAIN decoded' = 1..k
        /\ decoded'[k] = frame /\ \A i \in 1..n : decoded'[i] = decoded[i]
    BY <1>1, <1>3, <2>1
  <2>5. ASSUME NEW i \in DOMAIN decoded'
        PROVE  script[i].frame # <<>> /\ decoded'[i] = AsRead(script[i].frame)
    <3>1. CASE i = k
      BY <2>3, <2>4, <3>1 DEF frame
    <3>2. CASE i # k
      <4>1. i \in 1..n
        BY <1>1, <2>4, <3>2
      <4>. QED BY <2>2, <2>4, <4>1, Zenon
    <3>. QED BY <3>1, <3>2
  <2>6. Len(decoded') <= Len(script)
    BY <1>1, <1>2, <2>4
  <2>. QED BY <1>3, <2>4, <2>5, <2>6, Zenon DEF HandedOut
<1>6. Arriving'
  <2>1. PICK lost \in Buffer : Ahead(script, n, buffer, wire, lost) /\ (~cut => lost = <<>>)
    BY <1>3 DEF ReaderInv, Arriving
  <2>2. Len(script[n + 1].bytes) <= Len(buffer)
    <3>1. script[k].bytes \in Buffer /\ buffer \in Buffer
      BY <1>1, <1>2, <2>1, Zenon DEF Items, Ahead
    <3>. QED BY <3>1 DEF Current, Buffer
  <2>3. Ahead(script, n + 1, SubSeq(buffer, Len(script[n + 1].bytes) + 1, Len(buffer)), wire, lost)
    BY <1>1, <1>2, <2>1, <2>2, NextTaken, Zenon
  <2>4. Len(decoded') = n + 1
    <3> HIDE DEF frame
    <3>1. decoded \in Seq(Results(script))
      BY DEF ReaderInv, HandedOut
    <3>. QED BY <1>3, <3>1
  <2>. QED BY <1>3, <2>1, <2>3, <2>4, Zenon DEF Arriving
<1>7. StallsOnlyOnMalformed' /\ ErrorsOnlyOnBadInput' /\ PanicsOnlyOnHeaders'
  BY <1>3 DEF StallsOnlyOnMalformed, ErrorsOnlyOnBadInput, PanicsOnlyOnHeaders
<1>. QED BY <1>4, <1>5, <1>6, <1>7, Zenon DEF ReaderInv

LEMMA DecodeStep == ReaderInv /\ DecodeNext => ReaderInv'
<1> SUFFICES ASSUME ReaderInv, DecodeNext PROVE ReaderInv'
  OBVIOUS
<1> DEFINE n == Len(decoded)
           result == Decode(codec, buffer)
<1>1. status = "decoding" /\ Outcome(result)
  <2>1. Outcome(result)
    BY OutcomeIs, Zenon
  <2>. QED BY <2>1, Zenon DEF Outcome
<1>2. PICK lost \in Buffer : Ahead(script, n, buffer, wire, lost)
  BY <1>1 DEF ReaderInv, Arriving
<1>3. n \in Nat /\ n <= Len(script) /\ Items(script) /\ Len(script) \in Nat
  BY DecodedIs, ScriptIs DEF ReaderInv, HandedOut, Items
<1>4. CASE ~More
  <2>1. n = Len(script)
    BY <1>3, <1>4 DEF More
  <2>2. buffer = <<>>
    BY <1>2, <1>3, <2>1, NothingAhead, Zenon
  <2>3. result = FrameTooShort
    BY <2>2, NothingWaits, Zenon
  <2>. QED BY <1>1, <1>4, <2>3, WaitStep, Zenon
<1>5. CASE More
  <2>1. n < Len(script) /\ n + 1 \in 1..Len(script)
    BY <1>3, <1>5 DEF More
  <2>2. PICK full : Begins(script[n + 1].bytes, full) /\ Begins(buffer, full)
    BY <1>2, <1>3, <2>1, NextArrives, Zenon
  <2>3. IF Current.frame = <<>> THEN Malformed(codec, Current.bytes) ELSE WellFormed(codec, Current)
    BY <2>1, ScriptIs, Zenon DEF ReaderInv, Current
  <2>4. Begins(Current.bytes, full) /\ Begins(buffer, full)
    BY <2>2, Zenon DEF Current
  <2>5. Fate(codec, Current, buffer)
    BY <2>3, <2>4, FateIs, Zenon
  <2>6. CASE /\ Current.frame # <<>> /\ Len(buffer) >= Len(Current.bytes)
             /\ result = Advance(AsRead(Current.frame), Len(Current.bytes))
    BY <1>1, <1>5, <2>6, FrameStep, Zenon
  <2>7. CASE /\ result = FrameTooShort
             /\ \/ Len(buffer) < Len(Current.bytes)
                \/ /\ Current.frame = <<>>
                   /\ \/ Current.bytes[1] \in Bare \cup Headed \cup {"MSG"}
                      \/ /\ Current.bytes[1] \notin Verbs(codec)
                         /\ Bytes(buffer) < LongestPrefix(codec)
    <3>1. UNCHANGED <<codec, script, decoded>>
      BY <1>1, <2>7, FrameTooShortIs DEF Outcome
    <3>2. Len(buffer) \in Nat /\ Len(Current.bytes) \in Nat
      BY <2>4 DEF Begins, Buffer
    <3>3. ASSUME UNCHANGED buffer PROVE StallsOnlyOnMalformed'
      <4> SUFFICES ASSUME Len(buffer) >= Len(Current.bytes)
                   PROVE  /\ Current.frame = <<>>
                          /\ \/ Current.bytes[1] \in Bare \cup Headed \cup {"MSG"}
                             \/ /\ Current.bytes[1] \notin Verbs(codec)
                                /\ Bytes(buffer) < LongestPrefix(codec)
        BY <3>1, <3>3, Zenon DEF StallsOnlyOnMalformed, Current
      <4>1. ~(Len(buffer) < Len(Current.bytes))
        BY <3>2
      <4>. QED BY <2>7, <4>1, Zenon
    <3>. QED BY <1>1, <2>7, <3>3, WaitStep, Zenon
  <2>8. CASE /\ result.outcome = "error"
             /\ \/ Current.frame = <<>>
                \/ Current.frame.verb \in Loaded /\ Crlfs(Current.frame.payload) # {}
                \/ Current.frame.verb \in Headed /\ ColonInHeaders(Current.frame.headers)
    <3> HIDE DEF result
    <3>1. HandedOut' /\ Setting' /\ UNCHANGED <<codec, script, decoded>> /\ status' = "errored"
      BY <1>1, <2>8, OutcomeKeeps DEF Outcome
    <3>2. Arriving' /\ StallsOnlyOnMalformed' /\ PanicsOnlyOnHeaders'
      BY <3>1 DEF Arriving, StallsOnlyOnMalformed, PanicsOnlyOnHeaders
    <3>3. ErrorsOnlyOnBadInput'
      BY <2>8, <3>1, Zenon DEF ErrorsOnlyOnBadInput, Current
    <3>. QED BY <3>1, <3>2, <3>3, Zenon DEF ReaderInv
  <2>9. CASE /\ result = Panic
             /\ \/ Current.bytes[1] \in Headed /\ Len(buffer) < Len(Current.bytes)
                \/ Current.bytes[1] = "HPUB" /\ ~Utf8(Current.bytes)
    <3>1. result.outcome = "panic" /\ result.consume = 0
      BY <2>9, PanicIs, Zenon
    <3> HIDE DEF result
    <3>2. /\ HandedOut' /\ Setting' /\ UNCHANGED <<codec, script, decoded, buffer>>
          /\ status' = "panicked"
      BY <1>1, <3>1, OutcomeKeeps DEF Outcome
    <3>3. Arriving' /\ StallsOnlyOnMalformed' /\ ErrorsOnlyOnBadInput'
      BY <3>2 DEF Arriving, StallsOnlyOnMalformed, ErrorsOnlyOnBadInput
    <3>4. PanicsOnlyOnHeaders'
      BY <2>9, <3>2, Zenon DEF PanicsOnlyOnHeaders, Current
    <3>. QED BY <3>2, <3>3, <3>4, Zenon DEF ReaderInv
  <2>. QED BY <2>5, <2>6, <2>7, <2>8, <2>9, Zenon DEF Fate
<1>. QED BY <1>4, <1>5

LEMMA ReaderStep == ReaderInv /\ [Next]_vars => ReaderInv'
<1> SUFFICES ASSUME ReaderInv, [Next]_vars PROVE ReaderInv'
  OBVIOUS
<1>1. CASE Read
  BY <1>1, ReadStep
<1>2. CASE ReadEof
  BY <1>2, ReadEofStep
<1>3. CASE DecodeNext
  BY <1>3, DecodeStep
<1>4. CASE Cut
  BY <1>4, CutStep
<1>5. CASE UNCHANGED vars
  BY <1>5, Zenon DEF vars, ReaderInv, Setting, HandedOut, Arriving, StallsOnlyOnMalformed,
     ErrorsOnlyOnBadInput, PanicsOnlyOnHeaders, More, Current
<1>. QED BY <1>1, <1>2, <1>3, <1>4, <1>5 DEF Next

\* Whatever peers send, in whatever chunks it arrives and wherever it is cut, the inductive
\* invariant holds: the buffer begins where the last frame handed out ended.
THEOREM ReaderInvariant == Spec => []ReaderInv
BY ReaderInit, ReaderStep, PTL DEF Spec

\* Splitting never shows: the frames decoded so far are the first ones sent, and what is
\* buffered begins exactly where they end.
THEOREM FramesCorrect == Spec => []Framing
<1>1. ReaderInv => Framing
  <2> SUFFICES ASSUME ReaderInv PROVE Framing
    OBVIOUS
  <2>1. /\ Len(decoded) <= Len(script)
        /\ \A i \in DOMAIN decoded :
               script[i].frame # <<>> /\ decoded[i] = AsRead(script[i].frame)
    BY DEF ReaderInv, HandedOut
  <2>2. ASSUME status \in {"reading", "decoding"}, ~cut
        PROVE  Flat(SubSeq(script, 1, Len(decoded))) \o buffer \o wire = Flat(script)
    <3> DEFINE head == Flat(SubSeq(script, 1, Len(decoded)))
    <3>1. Ahead(script, Len(decoded), buffer, wire, <<>>)
      BY <2>2 DEF ReaderInv, Arriving
    <3>2. Remain(script, Len(decoded), buffer \o wire)
      BY <3>1, NothingLost, Zenon
    <3>3. head \in Buffer
      <4>1. Items(script)
        BY ScriptIs DEF ReaderInv
      <4>2. PICK f : FlatTo(f, script, Len(script))
        BY <4>1, FlatToIs, Zenon
      <4>3. Len(decoded) \in 0..Len(script)
        BY <3>2, Zenon DEF Remain
      <4>. QED BY <4>2, <4>3 DEF FlatTo
    <3>4. head \o (buffer \o wire) = Flat(script)
      BY <3>2, Zenon DEF Remain
    <3>5. buffer \in Buffer /\ wire \in Buffer
      BY <3>1, Zenon DEF Ahead
    <3> HIDE DEF head
    <3>6. Associated(head, buffer, wire)
      BY <3>3, <3>5, Associate, Zenon
    <3>. QED BY <3>4, <3>6, Zenon DEF Associated, head
  <2>. QED BY <2>1, <2>2, Zenon DEF Framing
<1>. QED BY <1>1, ReaderInvariant, PTL

\* What has arrived whole is settled before more bytes are waited for, but for the lines
\* to which a decoder answers FrameTooShort and unknown ones shorter than every prefix.
THEOREM StallsCorrect == Spec => []StallsOnlyOnMalformed
<1>1. ReaderInv => StallsOnlyOnMalformed
  BY Zenon DEF ReaderInv
<1>. QED BY <1>1, ReaderInvariant, PTL

\* Decoding fails on the peer's account only: on what is no frame, on a cut stream, on CRLF
\* within a MSG or PUB payload, or on a second colon in a header.
THEOREM ErrorsCorrect == Spec => []ErrorsOnlyOnBadInput
<1>1. ReaderInv => ErrorsOnlyOnBadInput
  BY Zenon DEF ReaderInv
<1>. QED BY <1>1, ReaderInvariant, PTL

\* The decoder panics on a HMSG or HPUB of which the last bytes are missing, on an HPUB
\* that is not UTF-8 throughout, and on nothing else.
THEOREM PanicsCorrect == Spec => []PanicsOnlyOnHeaders
<1>1. ReaderInv => PanicsOnlyOnHeaders
  BY Zenon DEF ReaderInv
<1>. QED BY <1>1, ReaderInvariant, PTL

-----------------------------------------------------------------------------
(* One frame.                                                              *)

\* What the decoders make of nothing but the bytes of a frame, as a peer or as our
\* encoder writes it: that frame, all of its bytes consumed.  Excepted are CRLF in the
\* payload of a MSG or PUB, a second colon in a header, an HPUB that is not UTF-8.
THEOREM RoundTrip ==
    ASSUME NEW c, NEW item, WellFormed(c, item), item.frame # <<>>,
           item.frame.verb \in Loaded => Crlfs(item.frame.payload) = {},
           item.frame.verb \in Headed => ~ColonInHeaders(item.frame.headers),
           item.frame.verb = "HPUB" => Utf8(item.bytes)
    PROVE  Decode(c, item.bytes) = Advance(AsRead(item.frame), Len(item.bytes))
<1> DEFINE bytes == item.bytes
           result == Decode(c, bytes)
<1>1. IF item.frame = <<>> THEN Malformed(c, bytes) ELSE WellFormed(c, item)
  BY Zenon
<1>2. bytes \in Buffer
  BY <1>1, ItemBytes, Zenon
<1>3. Begins(bytes, bytes) /\ Len(bytes) \in Nat
  BY <1>2 DEF Begins, Buffer
<1>4. Fate(c, item, bytes)
  BY <1>1, <1>3, FateIs, Zenon
<1>5. ~(Len(bytes) < Len(bytes))
  BY <1>3
<1>6. CASE result.outcome = "error"
           /\ \/ item.frame = <<>>
              \/ item.frame.verb \in Loaded /\ Crlfs(item.frame.payload) # {}
              \/ item.frame.verb \in Headed /\ ColonInHeaders(item.frame.headers)
  BY <1>6, Zenon
<1>7. CASE bytes[1] = "HPUB" /\ ~Utf8(bytes)
  <2>1. item.frame.verb = bytes[1]
    <3>1. \E line, rest : Lined(bytes, item.frame.verb, line, rest)
      <4>1. CASE item.frame.verb \in Loaded
        BY <4>1, LoadedLayout, Zenon
      <4>2. CASE item.frame.verb \in Headed
        BY <4>2, HeadedLayout, Zenon DEF HeadedFacts
      <4>3. CASE item.frame.verb \notin Loaded \cup Headed
        BY <4>3, ShortLayout, Zenon
      <4>. QED BY <4>1, <4>2, <4>3, Zenon
    <3>2. PICK line, rest : Lined(bytes, item.frame.verb, line, rest)
      BY <3>1, Zenon
    <3>3. LinedFacts(bytes, item.frame.verb, line, rest)
      BY <3>2, LineOfItem, Zenon
    <3>. QED BY <3>3, Zenon DEF LinedFacts
  <2>. QED BY <1>7, <2>1, Zenon
<1>. QED BY <1>4, <1>5, <1>6, <1>7, Zenon DEF Fate

\* A frame or an error.
Settled(result) == result.outcome \in {"frame", "error"}

LEMMA NotSettled == ~Settled(FrameTooShort) /\ ~Settled(Panic) /\ Settled(FatalError)
BY Outcomes DEF Settled

\* A body and a longer one.
Extends(body, other) ==
    /\ Begins(body, other) /\ body \in Buffer /\ other \in Buffer
    /\ Len(body) \in Nat /\ Len(other) \in Nat /\ Len(body) <= Len(other)
    /\ Crlfs(body) # {} /\ Crlfs(other) # {} /\ MetadataLen(body) \in Nat
    /\ Metadata(body) = Metadata(other) /\ MetadataLen(body) = MetadataLen(other)

LEMMA ShortSettled ==
    ASSUME NEW c, NEW verb \in Verbs(c), verb \notin Loaded \cup Headed,
           NEW body, NEW other, Extends(body, other)
    PROVE  DecodeBody(verb, other) = DecodeBody(verb, body)
<1>1. Metadata(body) = Metadata(other) /\ MetadataLen(body) = MetadataLen(other)
  BY Zenon DEF Extends
<1>2. /\ DecodeBare(verb, other) = DecodeBare(verb, body)
      /\ DecodeJson(verb, other) = DecodeJson(verb, body)
      /\ DecodeErr(other) = DecodeErr(body)
      /\ DecodeFields(verb, other) = DecodeFields(verb, body)
  BY <1>1, Zenon DEF DecodeBare, DecodeJson, DecodeErr, DecodeFields
<1>3. verb \in Bare \cup Json \cup {"-ERR", "SUB", "UNSUB"}
  BY ShortVerbs
<1>4. CASE verb \in Bare
  BY <1>2, <1>4, DecodeBodyIs, Zenon
<1>5. CASE verb \in Json
  BY <1>2, <1>5, DecodeBodyIs, Zenon
<1>6. CASE verb = "-ERR"
  BY <1>2, <1>6, DecodeBodyIs, Zenon
<1>7. CASE verb \in {"SUB", "UNSUB"}
  BY <1>2, <1>7, DecodeBodyIs, Zenon
<1>. QED BY <1>3, <1>4, <1>5, <1>6, <1>7, Zenon

LEMMA LoadedSettled ==
    ASSUME NEW verb \in Loaded, NEW body, NEW other, Extends(body, other),
           Settled(DecodeBody(verb, body))
    PROVE  DecodeBody(verb, other) = DecodeBody(verb, body)
<1> DEFINE m == MetadataLen(body)
           last == First(PayloadEnds(body)) - 1
<1>1. /\ Begins(body, other) /\ body \in Buffer /\ Crlfs(body) # {}
      /\ Metadata(body) = Metadata(other) /\ MetadataLen(other) = m /\ m \in Nat
  BY Zenon DEF Extends
<1>2. /\ Before(other, 1) = Before(body, 1) /\ Declared(other, 0) = Declared(body, 0)
      /\ Sized(verb, other) <=> Sized(verb, body)
  BY <1>1, SameFields, Zenon
<1>3. CASE PayloadEnds(body) = {}
  <2>1. verb = "PUB" /\ ~Sized(verb, body)
    <3>1. CASE verb = "MSG"
      BY <1>3, <3>1, DecodeBodyIs, NotSettled, Zenon DEF DecodeMsg
    <3>2. CASE verb = "PUB" /\ Sized(verb, body)
      BY <1>3, <3>2, DecodeBodyIs, DecodePubIs, NotSettled, Zenon
    <3>. QED BY <3>1, <3>2, Zenon DEF Loaded
  <2>2. DecodePub(body) = FatalError /\ DecodePub(other) = FatalError
    BY <1>2, <2>1, DecodePubIs, Zenon
  <2>3. DecodeBody("PUB", body) = DecodePub(body) /\ DecodeBody("PUB", other) = DecodePub(other)
    BY DecodeBodyIs, Zenon
  <2>. QED BY <2>1, <2>2, <2>3, Zenon
<1>4. CASE PayloadEnds(body) # {}
  <2>1. /\ PayloadEnds(other) # {} /\ First(PayloadEnds(other)) = First(PayloadEnds(body))
        /\ First(PayloadEnds(body)) \in Crlfs(body)
    BY <1>1, <1>4, PayloadEndBegin, Zenon
  <2>2. SubSeq(other, m + 1, last) = SubSeq(body, m + 1, last)
    <3>1. last \in Nat /\ last <= Len(body)
      <4>1. First(PayloadEnds(body)) \in Nat \ {0} /\ First(PayloadEnds(body)) + 1 <= Len(body)
        BY <1>1, <2>1, CrlfsIs
      <4>. QED BY <1>1, <4>1 DEF Buffer
    <3>2. m + 1 \in Nat \ {0}
      BY <1>1
    <3>. QED BY <1>1, <3>1, <3>2, BeginsSubSeq
  <2>3. DecodeLoaded(verb, other) = DecodeLoaded(verb, body)
    BY <1>1, <1>2, <2>1, <2>2, Zenon DEF DecodeLoaded
  <2>4. CASE verb = "MSG"
    BY <1>4, <2>1, <2>3, <2>4, DecodeBodyIs, Zenon DEF DecodeMsg
  <2>7. DecodeBody("PUB", body) = DecodePub(body) /\ DecodeBody("PUB", other) = DecodePub(other)
    BY DecodeBodyIs, Zenon
  <2>5. CASE verb = "PUB" /\ Sized(verb, body)
    <3>1. /\ DecodePub(body) = DecodeLoaded("PUB", body)
          /\ DecodePub(other) = DecodeLoaded("PUB", other)
      BY <1>2, <1>4, <2>1, <2>5, DecodePubIs, Zenon
    <3>. QED BY <2>3, <2>5, <2>7, <3>1, Zenon
  <2>6. CASE verb = "PUB" /\ ~Sized(verb, body)
    <3>1. DecodePub(body) = FatalError /\ DecodePub(other) = FatalError
      BY <1>2, <2>6, DecodePubIs, Zenon
    <3>. QED BY <2>6, <2>7, <3>1, Zenon
  <2>. QED BY <2>4, <2>5, <2>6, Zenon DEF Loaded
<1>. QED BY <1>3, <1>4

LEMMA HeadedSettled ==
    ASSUME NEW verb \in Headed, NEW body, NEW other, Extends(body, other),
           Settled(DecodeBody(verb, body))
    PROVE  DecodeBody(verb, other) = DecodeBody(verb, body)
<1> DEFINE m == MetadataLen(body)
           h == Number(Declared(body, 1))
           t == Number(Declared(body, 0))
           fields == Before(body, 2)
           numbers == IsNumber(Declared(body, 1)) /\ IsNumber(Declared(body, 0))
           block == BlockOf(body, h)
           rest == RestOf(body, h, t)
           n == m + t + 2
           sliced == Whole(verb, fields, block, rest, n)
<1>1. /\ Begins(body, other) /\ Metadata(body) = Metadata(other) /\ MetadataLen(other) = m
      /\ m \in Nat /\ Len(body) \in Nat /\ Len(other) \in Nat /\ Len(body) <= Len(other)
  BY Zenon DEF Extends
<1>2. /\ Before(other, 2) = fields
      /\ Declared(other, 1) = Declared(body, 1) /\ Declared(other, 0) = Declared(body, 0)
      /\ Enough(verb, other, 2) <=> Enough(verb, body, 2)
  BY <1>1, SameFields, Zenon
<1>3. \A b \in {body, other} : Slice(verb, b).outcome # "frame" => DecodeBody(verb, b) = Slice(verb, b)
  BY DecodeHeadedIs, Zenon
<1>4. CASE ~Enough(verb, body, 2)
  <2>1. Slice(verb, body) = FrameTooShort
    BY <1>4, SliceIs, Zenon
  <2>2. FrameTooShort.outcome # "frame"
    BY Outcomes
  <2>. QED BY <1>3, <2>1, <2>2, NotSettled, Zenon
<1>5. CASE Enough(verb, body, 2) /\ (~numbers \/ t < h)
  <2>1. Slice(verb, body) = FatalError /\ Slice(verb, other) = FatalError
    BY <1>2, <1>5, SliceIs, Zenon
  <2>2. FatalError.outcome # "frame"
    BY Outcomes
  <2>. QED BY <1>3, <2>1, <2>2, Zenon
<1>6. CASE Enough(verb, body, 2) /\ numbers /\ ~(t < h)
  <2>1. h \in Nat /\ t \in Nat /\ t >= h
    BY <1>6, NumberIs
  <2>2. SizedTwice(verb, body, fields, h, t) /\ SizedTwice(verb, other, fields, h, t)
    BY <1>2, <1>6, Zenon DEF SizedTwice
  <2>3. SliceFacts(verb, body, fields, h, t) /\ SliceFacts(verb, other, fields, h, t)
    BY <2>1, <2>2, SizedSlice, Zenon
  <2> HIDE DEF m, h, t, fields
  <2>4. ~(t > Len(body)) /\ ~(m + t > Len(body))
    <3>1. CASE t > Len(body)
      <4>1. Slice(verb, body) = FrameTooShort
        BY <2>3, <3>1, Zenon DEF SliceFacts
      <4>2. FrameTooShort.outcome # "frame"
        BY Outcomes
      <4>. QED BY <1>3, <4>1, <4>2, NotSettled, Zenon
    <3>2. CASE ~(t > Len(body)) /\ m + t > Len(body)
      <4>1. Slice(verb, body) = Panic
        BY <2>3, <3>2, Zenon DEF SliceFacts, m
      <4>2. Panic.outcome # "frame"
        BY Outcomes
      <4>. QED BY <1>3, <4>1, <4>2, NotSettled, Zenon
    <3>. QED BY <3>1, <3>2, Zenon
  <2>5. ~(t > Len(other)) /\ ~(m + t > Len(other)) /\ m + t <= Len(body)
    BY <1>1, <2>1, <2>4
  <2>6. BlockOf(other, h) = block /\ RestOf(other, h, t) = rest
    <3> DEFINE i == m + 1
               j == m + h
               k == m + h + 1
               l == m + t
    <3>1. /\ i \in Nat \ {0} /\ j \in Nat /\ j <= Len(body)
          /\ k \in Nat \ {0} /\ l \in Nat /\ l <= Len(body)
      BY <1>1, <2>1, <2>5
    <3> HIDE DEF i, j, k, l
    <3>2. SubSeq(body, i, j) = SubSeq(other, i, j) /\ SubSeq(body, k, l) = SubSeq(other, k, l)
      <4>1. Begins(body, other)
        BY <1>1, Zenon
      <4>2. SubSeq(body, i, j) = SubSeq(other, i, j)
        BY <3>1, <4>1, BeginsSubSeq, Zenon
      <4>3. SubSeq(body, k, l) = SubSeq(other, k, l)
        BY <3>1, <4>1, BeginsSubSeq, Zenon
      <4>. QED BY <4>2, <4>3, Zenon
    <3>. QED BY <1>1, <3>2, Zenon DEF BlockOf, RestOf, block, rest, i, j, k, l, m
  <2>7. Slice(verb, body) = sliced /\ Slice(verb, other) = sliced
    BY <1>1, <2>3, <2>4, <2>5, <2>6, Zenon DEF SliceFacts, m
  <2> DEFINE read == Utf8(block) /\ Utf8(rest)
  <2>8. /\ ParsedSlices(verb, fields, block, rest, n, body, sliced)
        /\ ParsedSlices(verb, fields, block, rest, n, other, sliced)
    BY ParseIs, Zenon
  <2>9. sliced.outcome = "frame" /\ sliced.frame.headers = block /\ sliced.frame.payload = rest
    BY <2>8, Zenon DEF ParsedSlices
  <2> HIDE DEF sliced, block, rest, n
  <2>10. \A b \in {body, other} :
             /\ verb = "HPUB" /\ ~read => DecodeBody(verb, b) = Panic
             /\ verb = "HMSG" \/ read => DecodeBody(verb, b) = Parse(sliced, b)
    BY <2>7, <2>9, DecodeHeadedIs, Zenon
  <2>11. DecodeBody(verb, body) = Parse(sliced, body) /\ DecodeBody(verb, other) = Parse(sliced, other)
    <3>1. ~(verb = "HPUB" /\ ~read)
      BY <2>10, NotSettled, Zenon
    <3>. QED BY <2>10, <3>1, Zenon DEF Headed
  <2>12. CASE ~(Utf8(fields) /\ ValidHeaders(block))
    BY <2>8, <2>11, <2>12, Zenon DEF ParsedSlices
  <2>13. CASE Utf8(fields) /\ ValidHeaders(block)
    <3>1. ~(n > Len(body))
      BY <2>8, <2>11, <2>13, NotSettled, Zenon DEF ParsedSlices
    <3>2. ~(n > Len(other))
      BY <1>1, <2>1, <3>1 DEF n
    <3>. QED BY <2>8, <2>11, <2>13, <3>1, <3>2, Zenon DEF ParsedSlices
  <2>. QED BY <2>12, <2>13
<1>. QED BY <1>4, <1>5, <1>6, Zenon

\* Whatever the bytes: a frame or an error that the decoder has answered is what it would
\* have answered, had it been called with more of them.
THEOREM DecodeStable ==
    ASSUME NEW c, NEW src \in Buffer, NEW more \in Buffer, Decode(c, src).outcome \in {"frame", "error"}
    PROVE  Decode(c, src \o more) = Decode(c, src)
<1> DEFINE full == src \o more
<1>1. full \in Buffer /\ Begins(src, full) /\ Begins(full, full)
  <2>1. full \in Buffer /\ Begins(src, full)
    BY JoinedIn, BeginsJoin, Zenon
  <2>. QED BY <2>1 DEF Begins, Buffer
<1>2. Bytes(src) \in Nat /\ Bytes(src) <= Bytes(full)
  BY MoreBytes
<1>3. Settled(Decode(c, src))
  BY DEF Settled
<1> HIDE DEF full
<1>4. LineEnds(src) = {i \in LineEnds(full) : i + 1 <= Len(src)} /\ LineEnds(full) \in SUBSET Nat
      /\ Len(src) \in Nat /\ Len(full) \in Nat /\ Len(src) <= Len(full)
  BY <1>1, CrlfsBegin, CrlfsIs DEF Begins, Buffer
<1>5. CASE LineEnds(src) = {}
  <2>1. Decode(c, src) = IF Len(src) < BufLimit THEN FrameTooShort ELSE FatalError
    BY <1>5, DecodeIs, Zenon
  <2>2. ~(Len(src) < BufLimit)
    BY <1>3, <2>1, NotSettled, Zenon
  <2>3. ~(Len(full) < BufLimit)
    BY <1>4, <2>2, LimitAssumption
  <2>4. LineEnds(full) = {}
    <3>1. \A i \in LineEnds(full) : i + 1 <= BufLimit
      BY Zenon DEF LineEnds
    <3>. QED BY <1>4, <1>5, <2>2, <3>1, LimitAssumption
  <2>5. Decode(c, full) = FatalError
    BY <2>3, <2>4, DecodeIs, Zenon
  <2>. QED BY <2>1, <2>2, <2>5, Zenon DEF full
<1>6. CASE LineEnds(src) # {}
  <2>1. LineEnds(full) # {} /\ First(LineEnds(full)) = First(LineEnds(src))
    <3>1. {i \in LineEnds(full) : i + 1 <= Len(src)} # {}
      BY <1>4, <1>6
    <3>2. First({i \in LineEnds(full) : i + 1 <= Len(src)}) = First(LineEnds(full))
      BY <1>4, <3>1, FirstBegin, Zenon
    <3>. QED BY <1>4, <1>6, <3>2
  <2>2. full[1] = src[1]
    BY <1>1, <1>6, <2>1, LineArrived, Zenon
  <2>3. CASE src[1] \notin Verbs(c)
    <3>1. Decode(c, src) = IF Bytes(src) < LongestPrefix(c) THEN FrameTooShort
                           ELSE [FatalError EXCEPT !.consume = First(LineEnds(src))]
      BY <1>6, <2>3, DecodeIs, Zenon
    <3>2. ~(Bytes(src) < LongestPrefix(c))
      BY <1>3, <3>1, NotSettled, Zenon
    <3>3. Bytes(full) \in Nat
      <4>1. Bytes(full) <= Bytes(full \o <<>>) /\ Bytes(full) \in Nat
        <5>1. <<>> \in Buffer
          BY DEF Buffer
        <5>. QED BY <1>1, <5>1, MoreBytes, Zenon
      <4>. QED BY <4>1
    <3>4. ~(Bytes(full) < LongestPrefix(c))
      BY <1>2, <3>2, <3>3 DEF LongestPrefix
    <3>5. Decode(c, full) = IF Bytes(full) < LongestPrefix(c) THEN FrameTooShort
                            ELSE [FatalError EXCEPT !.consume = First(LineEnds(full))]
      BY <2>1, <2>2, <2>3, DecodeIs, Zenon
    <3>. QED BY <2>1, <3>1, <3>2, <3>4, <3>5, Zenon DEF full
  <2>4. CASE src[1] \in Verbs(c)
    <3> DEFINE verb == src[1]
               body == Tail(src)
               other == Tail(full)
    <3>1. SameLine(c, full, src, full)
      BY <1>1, <1>6, <2>1, <2>4, LineShared, Zenon
    <3>2. Extends(body, other)
      <4>1. /\ Begins(body, other) /\ body \in Buffer /\ other \in Buffer
            /\ Len(body) \in Nat /\ Len(other) \in Nat
            /\ Crlfs(body) # {} /\ Crlfs(other) # {} /\ MetadataLen(other) \in Nat
            /\ Metadata(body) = Metadata(other) /\ MetadataLen(body) = MetadataLen(other)
        BY <3>1, Zenon DEF SameLine
      <4>2. Len(body) <= Len(other)
        BY <4>1, Zenon DEF Begins
      <4>. QED BY <4>1, <4>2, Zenon DEF Extends
    <3> DEFINE result == DecodeBody(verb, body)
               longer == DecodeBody(verb, other)
               counted(x) == IF x.outcome = "frame" THEN [x EXCEPT !.consume = @ + 1] ELSE x
    <3>3. Decode(c, src) = counted(result) /\ Decode(c, full) = counted(longer)
      BY <1>6, <2>1, <2>2, <2>4, DecodeIs, Zenon
    <3>4. Settled(result)
      <4>1. CASE result.outcome = "frame"
        BY <4>1 DEF Settled
      <4>2. CASE result.outcome # "frame"
        BY <1>3, <3>3, <4>2, Zenon
      <4>. QED BY <4>1, <4>2
    <3>5. longer = result
      <4> HIDE DEF body, other, verb
      <4>1. CASE verb \in Loaded
        BY <3>2, <3>4, <4>1, LoadedSettled, Zenon
      <4>2. CASE verb \in Headed
        BY <3>2, <3>4, <4>2, HeadedSettled, Zenon
      <4>3. CASE verb \notin Loaded \cup Headed
        <5>1. verb \in Verbs(c)
          BY <2>4 DEF verb
        <5>. QED BY <3>2, <4>3, <5>1, ShortSettled, Zenon
      <4>. QED BY <4>1, <4>2, <4>3, Zenon
    <3> HIDE DEF result, longer, counted
    <3>6. Decode(c, full) = Decode(c, src)
      BY <3>3, <3>5, Zenon
    <3>. QED BY <3>6, Zenon DEF full
  <2>. QED BY <2>3, <2>4
<1>. QED BY <1>5, <1>6

=============================================================================
