---------------------------- MODULE FramedReader ----------------------------
(***************************************************************************)
(* A stream of frames read through tokio_util's FramedRead with one of the *)
(* codecs: bytes arrive in chunks of any size and each chunk is decoded as *)
(* far as it goes (connection.rs:37, 73).  The peer may close at any byte. *)
(***************************************************************************)
EXTENDS FrameCodec

CONSTANTS Scripts(_),   \* codec -> what peers may send: sequences of items
          MaxChunk      \* longest chunk that arrives at once

ASSUME ChunkAssumption == MaxChunk \in Nat \ {0}

-----------------------------------------------------------------------------
(* What peers send: items [frame, headers, bytes], the headers in the      *)
(* order in which they are written; frame <<>> when it is not one.         *)

\* A frame, as another encoder or as ours writes it, and what is none.
Sent(frame, headers) == [frame |-> frame, headers |-> headers, bytes |-> Layout(frame, headers)]
Good(frame) == Sent(frame, Ordered(frame.headers))
Bad(bytes)  == [frame |-> <<>>, headers |-> <<>>, bytes |-> bytes]

\* Fields, names and values are text without a line break.
Plain(tokens) == tokens \in Seq(STRING) /\ Range(tokens) \cap {"CR", "LF", "bin"} = {}

\* A value that begins with a space is written behind another one.
Written(headers) ==
    \A i \in DOMAIN headers :
        /\ Plain(headers[i].name) /\ Plain(headers[i].value)
        /\ \/ headers[i].gap = <<" ">>
           \/ headers[i].gap = <<>> /\ (headers[i].value # <<>> => headers[i].value[1] # " ")

WellFormed(codec, item) ==
    LET f == item.frame
    IN  /\ f = Frame(f.verb, f.fields, f.headers, f.payload) /\ f.verb \in Verbs(codec)
        /\ Plain(f.fields) /\ f.payload \in Seq(STRING)
        /\ item.bytes = Layout(f, item.headers) /\ LineEnds(item.bytes) # {}
        /\ f.verb \notin Loaded \cup Headed =>
               /\ f = Short(f.verb, f.fields)
               /\ Fits(f.verb, IF f.verb = "-ERR" THEN <<"'">> \o f.fields \o <<"'">>
                               ELSE f.fields)
        /\ f.verb \in Loaded => /\ Len(f.fields) \in Arity(f.verb) /\ f.headers = NoHeaders
                                /\ Len(f.payload) <= MaxNumber
        /\ f.verb \in Headed =>
               /\ Len(f.fields) \in Arity(f.verb)
               /\ item.headers \in Seq(Range(item.headers)) /\ Written(item.headers)
               /\ f.headers = Grouped(item.headers)
               /\ Len(HeaderBlock(item.headers)) + Len(f.payload) <= MaxNumber

\* No frame: a line too long, unknown or ill-formed; a payload or header block that is
\* complete and not as announced.
MalformedLoaded(verb, body) ==
    \/ ~Sized(verb, body)
    \/ /\ PayloadEnds(body) # {}
       /\ \/ ~Utf8(Before(body, 1))
          \/ Number(Declared(body, 0)) # First(PayloadEnds(body)) - 1 - MetadataLen(body)

MalformedHeaded(verb, body) ==
    LET header == Number(Declared(body, 1))
        total  == Number(Declared(body, 0))
        start  == MetadataLen(body)
    IN  \/ ~Enough(verb, body, 2)
        \/ ~(IsNumber(Declared(body, 1)) /\ IsNumber(Declared(body, 0))) \/ total < header
        \/ /\ start + total + 2 <= Len(body)
           /\ \/ ~Utf8(Before(body, 2))
              \/ ~ValidHeaders(SubSeq(body, start + 1, start + header))

Malformed(codec, bytes) ==
    LET verb == bytes[1]
        body == Tail(bytes)
    IN  /\ bytes \in Seq(STRING)
        /\ \/ LineEnds(bytes) = {} /\ Len(bytes) >= BufLimit
           \/ /\ LineEnds(bytes) # {}
              /\ CASE verb \notin Verbs(codec) -> TRUE
                   [] verb \in Verbs(codec) \cap Loaded -> MalformedLoaded(verb, body)
                   [] verb \in Verbs(codec) \cap Headed -> MalformedHeaded(verb, body)
                   [] verb \in Verbs(codec) \ (Loaded \cup Headed) -> ~Fits(verb, Metadata(body))

Codecs == {"ServerCodec", "ClientCodec"}

ASSUME ItemsAssumption ==
    \A c \in Codecs : \A s \in Scripts(c) :
        /\ s \in Seq(Range(s))
        /\ \A i \in DOMAIN s : IF s[i].frame = <<>> THEN Malformed(c, s[i].bytes)
                                                   ELSE WellFormed(c, s[i])

-----------------------------------------------------------------------------
VARIABLES
    codec,     \* "ServerCodec" or "ClientCodec"
    script,    \* what the peer sends, a sequence of items
    wire,      \* bytes still to arrive
    cut,       \* whether the peer closed before it had sent everything
    buffer,    \* FramedRead's buffer
    status,    \* "reading", "decoding", "errored", "ended" or "panicked"
    decoded    \* frames handed out

vars == <<codec, script, wire, cut, buffer, status, decoded>>

Flat(items) ==
    LET upto[n \in 0..Len(items)] ==
            IF n = 0 THEN <<>> ELSE upto[n - 1] \o items[n].bytes
    IN  upto[Len(items)]

Init ==
    /\ codec \in Codecs
    /\ script \in Scripts(codec)
    /\ wire = Flat(script)
    /\ cut = FALSE
    /\ buffer = <<>> /\ decoded = <<>>
    /\ status = "reading"

Read ==
    /\ status = "reading"
    /\ \E n \in 1..MaxChunk :
           /\ n <= Len(wire)
           /\ buffer' = buffer \o SubSeq(wire, 1, n)
           /\ wire' = SubSeq(wire, n + 1, Len(wire))
    /\ status' = "decoding"
    /\ UNCHANGED <<codec, script, cut, decoded>>

\* End of file: bytes left over are an error.
ReadEof ==
    /\ status = "reading" /\ wire = <<>>
    /\ status' = IF buffer = <<>> THEN "ended" ELSE "errored"
    /\ UNCHANGED <<codec, script, wire, cut, buffer, decoded>>

\* One call of decode.  After an error FramedRead yields nothing more.
DecodeNext ==
    /\ status = "decoding"
    /\ LET result == Decode(codec, buffer)
       IN  /\ buffer' = SubSeq(buffer, result.consume + 1, Len(buffer))
           /\ decoded' = IF result.outcome = "frame" THEN Append(decoded, result.frame)
                                                     ELSE decoded
           /\ status' = CASE result.outcome = "frame" -> "decoding"
                          [] result.outcome = "wait"  -> "reading"
                          [] result.outcome = "error" -> "errored"
                          [] result.outcome = "panic" -> "panicked"
    /\ UNCHANGED <<codec, script, wire, cut>>

Cut ==
    /\ wire # <<>>
    /\ wire' = <<>> /\ cut' = TRUE
    /\ UNCHANGED <<codec, script, buffer, status, decoded>>

Next == Read \/ ReadEof \/ DecodeNext \/ Cut

Spec == Init /\ [][Next]_vars

-----------------------------------------------------------------------------
(* Properties.                                                             *)

\* The item being received, if any is left.
More    == Len(decoded) < Len(script)
Current == script[Len(decoded) + 1]

\* A header value is read without the space at its end, if it has one.
Trimmed(value) == IF value # <<>> /\ Last(value) = " " THEN Front(value) ELSE value
AsRead(frame) ==
    [frame EXCEPT !.headers = [name \in DOMAIN @ |->
                                   [i \in DOMAIN @[name] |-> Trimmed(@[name][i])]]]

\* Splitting never shows: whatever the chunks, the frames decoded so far are the first
\* ones sent, and what is buffered begins exactly where they end.
Framing ==
    /\ Len(decoded) <= Len(script)
    /\ \A i \in DOMAIN decoded :
           script[i].frame # <<>> /\ decoded[i] = AsRead(script[i].frame)
    /\ status \in {"reading", "decoding"} /\ ~cut =>
           Flat(SubSeq(script, 1, Len(decoded))) \o buffer \o wire = Flat(script)

\* What has arrived whole is settled, by a frame or by an error, before more bytes are
\* waited for: the peer may be waiting for our answer before it sends any.  Lines that
\* are no frames are excepted when their decoder answers FrameTooShort to them, and
\* unknown ones shorter than the longest prefix.
StallsOnlyOnMalformed ==
    status = "reading" /\ More /\ Len(buffer) >= Len(Current.bytes) =>
        /\ Current.frame = <<>>
        /\ \/ Current.bytes[1] \in Bare \cup Headed \cup {"MSG"}
           \/ Current.bytes[1] \notin Verbs(codec) /\ Bytes(buffer) < LongestPrefix(codec)

ColonInHeaders(headers) ==
    \E name \in DOMAIN headers : \E i \in DOMAIN headers[name] :
        ":" \in Range(name) \cup Range(headers[name][i])

\* Decoding fails on the peer's account only: on what is no frame, on a stream cut
\* within one, on a MSG or PUB payload that contains CRLF, which the decoder takes for
\* the payload's end, or on a header with a colon in its name or value.
ErrorsOnlyOnBadInput ==
    status = "errored" /\ ~cut =>
        \/ Current.frame = <<>>
        \/ Current.frame.verb \in Loaded /\ Crlfs(Current.frame.payload) # {}
        \/ Current.frame.verb \in Headed /\ ColonInHeaders(Current.frame.headers)

\* The decoder panics on a HMSG or HPUB of which the last bytes are missing, on an
\* HPUB that is not UTF-8 throughout, and on nothing else.
PanicsOnlyOnHeaders ==
    status = "panicked" =>
        \/ Current.bytes[1] \in Headed /\ Len(buffer) < Len(Current.bytes)
        \/ Current.bytes[1] = "HPUB" /\ ~Utf8(Current.bytes)

\* FrameTooShort (decoding/mod.rs:96): "Buffer is shorter than full frame. Decoder
\* should read more buffer into memory and retry."
ShortFramesWait == status = "panicked" => Len(buffer) >= Len(Current.bytes)

\* decoder.rs:89: "Unknown command encountered; skipping until after next CRLF".
UnknownLineSkipped ==
    status = "errored" /\ ~cut /\ More /\ Current.bytes[1] = "XYZ" =>
        buffer \o wire = Flat(SubSeq(script, Len(decoded) + 2, Len(script)))

=============================================================================
