----------------------------- MODULE FrameCodec -----------------------------
(***************************************************************************)
(* The wire format of nats_codec: ServerCodec decodes what a server sends, *)
(* ClientCodec encodes and decodes what a client sends (decoder.rs,        *)
(* decoding/*.rs, encoder.rs).  Bytes are tokens: a verb with the space    *)
(* after it, a field with its separator, CR, LF, or a unit of payload, one *)
(* unit of length each.  A token is never split; all else may be.  "bin"   *)
(* is a byte that is not UTF-8.                                            *)
(***************************************************************************)
EXTENDS Naturals, Sequences, FiniteSets, TLC, SequencesExt

CONSTANTS BufLimit,    \* BUFSIZE_LIMIT
          MaxNumber    \* bound on the lengths a frame declares

ASSUME LimitAssumption == BufLimit \in Nat \ {0} /\ MaxNumber \in Nat

CRLF == <<"CR", "LF">>

\* Decimal formatting of a usize, and parse::<usize>(), which undoes it.
Numeral == [n \in 0..MaxNumber |-> ToString(n)]
IsNumber(token) == \E n \in 0..MaxNumber : Numeral[n] = token
Number(token) == CHOOSE n \in 0..MaxNumber : Numeral[n] = token

\* Numbers are written in digits, each in a way of its own.
ASSUME NumeralAssumption ==
    \A n \in 0..MaxNumber : /\ Numeral[n] \in STRING \ {"CR", "LF", "bin"}
                            /\ \A m \in 0..MaxNumber : Numeral[m] = Numeral[n] => m = n

\* str::from_utf8 succeeds.
Utf8(tokens) == "bin" \notin Range(tokens)

-----------------------------------------------------------------------------
(* Frames: the verb, the fields between verb and lengths in their order    *)
(* (an optional one is there or not), the header map from names to the     *)
(* sequence of their values, the payload.  Names and values are sequences  *)
(* of tokens, because what stands in them matters.                         *)

Bare    == {"PING", "PONG", "+OK"}
Json    == {"INFO", "CONNECT"}
Loaded  == {"MSG", "PUB"}
Headed  == {"HMSG", "HPUB"}

Verbs(codec) ==
    IF codec = "ServerCodec" THEN {"PING", "PONG", "HMSG", "MSG", "+OK", "-ERR", "INFO"}
    ELSE {"PING", "PONG", "HPUB", "PUB", "SUB", "UNSUB", "CONNECT"}

\* Bytes of the longest prefix a codec compares with ("HMSG ", "CONNECT "), of a token
\* and of a buffer.
LongestPrefix(codec) == IF codec = "ServerCodec" THEN 5 ELSE 8
Width(token) ==
    CASE token = "+OK" -> 3
      [] token \in {"PING", "PONG", "MSG", "PUB", "SUB"} -> 4
      [] token \in {"HMSG", "-ERR", "INFO", "HPUB"} -> 5
      [] token = "UNSUB" -> 6
      [] token = "CONNECT" -> 8
      [] OTHER -> 1
Bytes(src) ==
    LET upto[n \in 0..Len(src)] == IF n = 0 THEN 0 ELSE upto[n - 1] + Width(src[n])
    IN  upto[Len(src)]

NoHeaders == [name \in {} |-> <<>>]

Frame(verb, fields, headers, payload) ==
    [verb |-> verb, fields |-> fields, headers |-> headers, payload |-> payload]
Short(verb, fields) == Frame(verb, fields, NoHeaders, <<>>)

\* How many fields may stand before the lengths: the optional one is a reply
\* subject, a queue group or a maximum.
Arity(verb) ==
    CASE verb = "MSG" \/ verb = "HMSG" -> {2, 3}
      [] verb = "PUB" \/ verb = "HPUB" -> {1, 2}
      [] verb = "SUB"   -> {2, 3}
      [] verb = "UNSUB" -> {1, 2}

\* The header block made of some lines.
Block(lines) ==
    LET upto[n \in 0..Len(lines)] == IF n = 0 THEN <<"NATS/1.0">> \o CRLF
                                     ELSE upto[n - 1] \o lines[n] \o CRLF
    IN  upto[Len(lines)] \o CRLF

\* The headers in the order in which the encoder writes them, a line each: HashMap's order
\* of names is arbitrary.
Ordered(headers) ==
    LET names == SetToSeq(DOMAIN headers)
    IN  FlattenSeq([i \in DOMAIN names |-> [k \in DOMAIN headers[names[i]] |->
                        [name |-> names[i], gap |-> <<" ">>, value |-> headers[names[i]][k]]]])
Text(header) == header.name \o <<":">> \o header.gap \o header.value
HeaderBlock(headers) == Block([i \in DOMAIN headers |-> Text(headers[i])])

\* A frame as bytes, with its headers in some order.
Layout(f, headers) ==
    CASE f.verb \in Loaded ->
            <<f.verb>> \o f.fields \o <<Numeral[Len(f.payload)]>> \o CRLF \o f.payload \o CRLF
      [] f.verb \in Headed ->
            LET block == HeaderBlock(headers)
            IN  <<f.verb>> \o f.fields
                \o <<Numeral[Len(block)], Numeral[Len(block) + Len(f.payload)]>> \o CRLF
                \o block \o f.payload \o CRLF
      [] f.verb = "-ERR" -> <<"-ERR", "'">> \o f.fields \o <<"'">> \o CRLF
      [] OTHER -> <<f.verb>> \o f.fields \o CRLF

\* Encoder::encode, and the server's way of writing its frames.
Encode(f) == Layout(f, Ordered(f.headers))

-----------------------------------------------------------------------------
(* CommandDecoderResult.  consume counts from the start of the body, the   *)
(* bytes after the verb.                                                   *)

Advance(frame, consume) == [outcome |-> "frame", frame |-> frame, consume |-> consume]
Failed(outcome)         == [outcome |-> outcome, frame |-> <<>>, consume |-> 0]
FrameTooShort == Failed("wait")
FatalError    == Failed("error")
Panic         == Failed("panic")

\* Where CRLF is found, and found within BUFSIZE_LIMIT bytes.
Crlfs(bytes) == {i \in 1..Len(bytes) - 1 : bytes[i] = "CR" /\ bytes[i + 1] = "LF"}
LineEnds(src) == {i \in Crlfs(src) : i + 1 <= BufLimit}
First(places) == CHOOSE i \in places : \A j \in places : i <= j

\* slice_spliterator: the slices before each CRLF.
Slices(bytes) ==
    LET ends == Crlfs(bytes)
        scan[i \in 0..Len(bytes)] ==
            IF i = 0 THEN [found |-> <<>>, start |-> 1]
            ELSE IF i \in ends
            THEN [found |-> Append(scan[i - 1].found, SubSeq(bytes, scan[i - 1].start, i - 1)),
                  start |-> i + 2]
            ELSE scan[i - 1]
    IN  scan[Len(bytes)].found

Metadata(body) == SubSeq(body, 1, First(Crlfs(body)) - 1)
MetadataLen(body) == First(Crlfs(body)) + 1

\* The lines of the short commands: nothing after PING, PONG and +OK; one token that stands
\* for a JSON text that parses; a text in quotes; fields, with a maximum that is no zero.
Fits(verb, line) ==
    /\ verb \in Bare => line = <<>>
    /\ verb \in Json => line = <<"json">>
    /\ verb = "-ERR" => /\ Len(line) >= 2 /\ line[1] = "'" /\ Last(line) = "'"
                        /\ Utf8(SubSeq(line, 2, Len(line) - 1))
    /\ verb \in {"SUB", "UNSUB"} => Len(line) \in Arity(verb) /\ Utf8(line)
    /\ verb = "UNSUB" /\ Len(line) = 2 => IsNumber(line[2]) /\ Number(line[2]) # 0

DecodeBare(verb, body) ==
    IF Fits(verb, Metadata(body)) THEN Advance(Short(verb, <<>>), MetadataLen(body))
    ELSE FrameTooShort

\* Faulty: text that does not parse is waited on.
DecodeJsonPatient(verb, body) ==
    IF Fits(verb, Metadata(body)) THEN Advance(Short(verb, <<"json">>), MetadataLen(body))
    ELSE FrameTooShort

DecodeJson(verb, body) ==
    IF Fits(verb, Metadata(body)) THEN Advance(Short(verb, <<"json">>), MetadataLen(body))
    ELSE FatalError

DecodeErr(body) ==
    LET message == Metadata(body)
    IN  IF Fits("-ERR", message)
        THEN Advance(Short("-ERR", SubSeq(message, 2, Len(message) - 1)), MetadataLen(body))
        ELSE FatalError

\* SUB, UNSUB.
DecodeFields(verb, body) ==
    IF Fits(verb, Metadata(body)) THEN Advance(Short(verb, Metadata(body)), MetadataLen(body))
    ELSE FatalError

\* The fields before n lengths, whether they are as many as the verb takes, and lengths.
Before(body, n) == SubSeq(Metadata(body), 1, Len(Metadata(body)) - n)
Enough(verb, body, n) == Len(Metadata(body)) >= n /\ Len(Before(body, n)) \in Arity(verb)
Declared(body, k) == Metadata(body)[Len(Metadata(body)) - k]

-----------------------------------------------------------------------------
(* MSG and PUB: the payload is what stands before the next CRLF, and must  *)
(* have the declared length.                                               *)

PayloadEnds(body) == {i \in Crlfs(body) : i > MetadataLen(body)}
Sized(verb, body) == Enough(verb, body, 1) /\ IsNumber(Declared(body, 0))

\* Faulty: the CRLF after the payload is left in the buffer.
DecodeLoadedLeavesCrlf(verb, body) ==
    LET last == First(PayloadEnds(body)) - 1
    IN  Advance(Frame(verb, Before(body, 1), NoHeaders,
                      SubSeq(body, MetadataLen(body) + 1, last)), last)

DecodeLoaded(verb, body) ==
    LET last    == First(PayloadEnds(body)) - 1
        payload == SubSeq(body, MetadataLen(body) + 1, last)
    IN  IF /\ Sized(verb, body) /\ Number(Declared(body, 0)) = Len(payload)
           /\ Utf8(Before(body, 1))
        THEN Advance(Frame(verb, Before(body, 1), NoHeaders, payload), last + 2)
        ELSE FatalError

DecodeMsg(body) ==
    IF PayloadEnds(body) = {} THEN FrameTooShort ELSE DecodeLoaded("MSG", body)

\* Faulty: a payload still incomplete is measured.
DecodePubEager(body) ==
    LET rest == SubSeq(body, MetadataLen(body) + 1, Len(body))
    IN  IF ~Sized("PUB", body) \/ (PayloadEnds(body) = {} /\ Len(rest) < Number(Declared(body, 0)))
        THEN FatalError
        ELSE IF PayloadEnds(body) = {} THEN FrameTooShort ELSE DecodeLoaded("PUB", body)

\* The metadata is checked before the payload is waited for.
DecodePub(body) ==
    CASE ~Sized("PUB", body) -> FatalError
      [] Sized("PUB", body) /\ PayloadEnds(body) = {} -> FrameTooShort
      [] OTHER -> DecodeLoaded("PUB", body)

-----------------------------------------------------------------------------
(* Headers.                                                                *)

Colons(line) == {i \in DOMAIN line : line[i] = ":"}

\* parse_header: exactly one colon; one space before the value and one after it are
\* no part of it.
Name(line) == SubSeq(line, 1, First(Colons(line)) - 1)
Value(line) ==
    LET after == SubSeq(line, First(Colons(line)) + 1, Len(line))
        value == IF after # <<>> /\ after[1] = " " THEN Tail(after) ELSE after
    IN  IF value # <<>> /\ Last(value) = " " THEN Front(value) ELSE value

ValidHeader(line) == Cardinality(Colons(line)) = 1 /\ Utf8(Name(line)) /\ Utf8(Value(line))

\* parse_headers: NATS/1.0, header lines, and an empty line at the end and nowhere else.
ValidHeaders(block) ==
    LET lines == Slices(block)
    IN  /\ Len(lines) >= 2 /\ lines[1] = <<"NATS/1.0">> /\ Last(lines) = <<>>
        /\ Len(block) - 1 \in Crlfs(block)
        /\ \A n \in 2..Len(lines) - 1 : lines[n] # <<>> /\ ValidHeader(lines[n])

\* The values of a name in the order of their lines, and the map built of all.
ValuesOf(headers, name) ==
    LET upto[n \in 0..Len(headers)] ==
            IF n = 0 THEN <<>>
            ELSE IF headers[n].name = name THEN Append(upto[n - 1], headers[n].value)
            ELSE upto[n - 1]
    IN  upto[Len(headers)]
Grouped(headers) ==
    [name \in {headers[i].name : i \in DOMAIN headers} |-> ValuesOf(headers, name)]

Header(line) == [name |-> Name(line), value |-> Value(line)]
HeadersOf(block) ==
    [i \in 1..Len(Slices(block)) - 2 |-> Header(Slices(block)[i + 1])]

\* Faulty: a second value of a name replaces the first.
ParseHeadersOverwriting(block) ==
    LET all == Grouped(HeadersOf(block))
    IN  [name \in DOMAIN all |-> <<Last(all[name])>>]

ParseHeaders(block) == Grouped(HeadersOf(block))

-----------------------------------------------------------------------------
(* HMSG and HPUB.                                                          *)

\* Faulty: the lengths are not compared.
SliceUnchecked(verb, body) ==
    LET header == Number(Declared(body, 1))
        total  == Number(Declared(body, 0))
    IN  IF Enough(verb, body, 2) /\ total < header THEN Panic ELSE FrameTooShort

\* Up to the two slices.  The lengths are compared with the whole body, metadata
\* included, so the slices may overrun the buffer.
Slice(verb, body) ==
    LET lengths == IsNumber(Declared(body, 1)) /\ IsNumber(Declared(body, 0))
        header  == Number(Declared(body, 1))
        total   == Number(Declared(body, 0))
        start   == MetadataLen(body)
    IN  CASE ~Enough(verb, body, 2) -> FrameTooShort
          [] Enough(verb, body, 2) /\ (~lengths \/ total < header) -> FatalError
          [] Enough(verb, body, 2) /\ lengths /\ total >= header /\ total > Len(body) ->
                FrameTooShort
          [] OTHER ->
                IF start + total > Len(body) THEN Panic
                ELSE Advance(Frame(verb, Before(body, 2),
                                   SubSeq(body, start + 1, start + header),
                                   SubSeq(body, start + header + 1, start + total)),
                             start + total + 2)

\* The rest: headers are parsed, and the buffer is advanced past the last CRLF
\* (decoder.rs:77), which may be missing.
Parse(sliced, body) ==
    IF Utf8(sliced.frame.fields) /\ ValidHeaders(sliced.frame.headers)
    THEN IF sliced.consume > Len(body) THEN Panic
         ELSE [sliced EXCEPT !.frame.headers = ParseHeaders(@)]
    ELSE FatalError

DecodeHMsg(body) ==
    LET sliced == Slice("HMSG", body)
    IN  IF sliced.outcome = "frame" THEN Parse(sliced, body) ELSE sliced

\* The debug output before the parsing unwraps from_utf8 of both slices.
DecodeHPub(body) ==
    LET sliced == Slice("HPUB", body)
    IN  CASE sliced.outcome # "frame" -> sliced
          [] sliced.outcome = "frame"
             /\ ~(Utf8(sliced.frame.headers) /\ Utf8(sliced.frame.payload)) -> Panic
          [] OTHER -> Parse(sliced, body)

-----------------------------------------------------------------------------
DecodeBody(verb, body) ==
    CASE verb \in Bare   -> DecodeBare(verb, body)
      [] verb \in Json   -> DecodeJson(verb, body)
      [] verb = "-ERR"   -> DecodeErr(body)
      [] verb \in {"SUB", "UNSUB"} -> DecodeFields(verb, body)
      [] verb = "MSG"    -> DecodeMsg(body)
      [] verb = "PUB"    -> DecodePub(body)
      [] verb = "HMSG"   -> DecodeHMsg(body)
      [] verb = "HPUB"   -> DecodeHPub(body)

\* decoding.  Here consume counts from the start of src.  An unknown command in a
\* buffer shorter than some prefix is taken for an incomplete one; otherwise its line
\* is skipped up to its CR.
Decode(codec, src) ==
    LET newlines == LineEnds(src)
    IN  CASE newlines = {} -> IF Len(src) < BufLimit THEN FrameTooShort ELSE FatalError
          [] newlines # {} /\ src[1] \notin Verbs(codec) ->
                IF Bytes(src) < LongestPrefix(codec) THEN FrameTooShort
                ELSE [FatalError EXCEPT !.consume = First(newlines)]
          [] OTHER -> LET result == DecodeBody(src[1], Tail(src))
                      IN  IF result.outcome = "frame" THEN [result EXCEPT !.consume = @ + 1]
                          ELSE result

=============================================================================
