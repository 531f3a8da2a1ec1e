--------------------------- MODULE MCFramedReader ---------------------------
(* Small instances of FramedReader for TLC: every pair of items.           *)
EXTENDS FramedReader

Both == {Good(Short("PING", <<>>)), Good(Short("PONG", <<>>)),
         Bad(<<"PING", "x">> \o CRLF), Bad(CRLF), Bad(<<"XYZ", "x">> \o CRLF),
         Bad(<<"XYZ", "x", "x", "x", "x", "x", "x", "x", "x">> \o CRLF)}

\* Two values of a name and an empty one, as encoded and with the lines of the names
\* mixed; a space at the end of a value; a colon in one.
Two   == (<<"a">> :> <<<<"v">>, <<"w", "w">>>>) @@ (<<"b">> :> <<<<>>>>)
Mixed == <<[name |-> <<"a">>, gap |-> <<>>, value |-> <<"v">>],
           [name |-> <<"b">>, gap |-> <<>>, value |-> <<>>],
           [name |-> <<"a">>, gap |-> <<" ">>, value |-> <<"w", "w">>]>>
Space == <<"a">> :> <<<<" ", "v", " ">>>>
Colon == <<"a">> :> <<<<"v", ":", "w">>>>

\* Header blocks that are none: version, empty line, end.
Blocks == {<<"NATS/2", "CR", "LF", "CR", "LF">>,
           <<"NATS/1.0", "CR", "LF", "CR", "LF", "CR", "LF">>,
           <<"NATS/1.0", "CR", "LF", "a", ":", "v", "CR", "LF", "x", "x">>,
           <<"NATS/1.0", "CR", "LF", "a", ":", "bin", "CR", "LF", "CR", "LF">>}
Blocked(fields, block) ==
    Bad(fields \o <<Numeral[Len(block)], Numeral[Len(block)]>> \o CRLF \o block \o CRLF)

FromServer == Both \cup
    {Good(Short("+OK", <<>>)),
     Good(Short("INFO", <<"json">>)), Bad(<<"INFO", "malformed">> \o CRLF),
     Good(Short("-ERR", <<"text">>)), Bad(<<"-ERR", "'">> \o CRLF),
     Good(Short("MSG", <<"s", "1">>)),
     Good(Frame("MSG", <<"s", "1", "re">>, NoHeaders, <<"x", "CR">>)),
     Good(Frame("MSG", <<"s", "1">>, NoHeaders, <<"x", "CR", "LF">>)),
     Good(Frame("MSG", <<"s", "1">>, NoHeaders, <<"bin">>)),
     Bad(<<"MSG", "s", "2">> \o CRLF \o <<"x", "x">> \o CRLF),
     Bad(<<"MSG", "bin", "1", "0">> \o CRLF \o CRLF), Bad(<<"MSG", "s">> \o CRLF),
     Good(Short("HMSG", <<"s", "1">>)),
     Good(Frame("HMSG", <<"s", "1", "re">>, Two, <<"x", "CR", "LF">>)),
     Sent(Frame("HMSG", <<"s", "1">>, Two, <<"bin">>), Mixed),
     Good(Frame("HMSG", <<"s", "1">>, Space, <<>>)),
     Good(Frame("HMSG", <<"s", "1">>, Colon, <<>>)),
     Bad(<<"HMSG", "s", "1", "4", "3">> \o CRLF \o <<"NATS/1.0">> \o CRLF \o CRLF)}
    \cup {Blocked(<<"HMSG", "s", "1">>, block) : block \in Blocks}

FromClient == Both \cup
    {Good(Short("CONNECT", <<"json">>)), Bad(<<"CONNECT", "malformed">> \o CRLF),
     Good(Short("SUB", <<"s", "1">>)), Good(Short("SUB", <<"s", "queue", "1">>)),
     Bad(<<"SUB", "s">> \o CRLF),
     Good(Short("UNSUB", <<"1">>)), Good(Short("UNSUB", <<"1", "2">>)),
     Bad(<<"UNSUB", "1", "0">> \o CRLF),
     Good(Frame("PUB", <<"s">>, NoHeaders, <<"x">>)), Good(Short("PUB", <<"s", "re">>)),
     Good(Frame("PUB", <<"s">>, NoHeaders, <<"CR", "LF">>)), Bad(<<"PUB", "1">> \o CRLF),
     Good(Frame("HPUB", <<"s">>, Two, <<"x">>)), Good(Short("HPUB", <<"s", "re">>)),
     Good(Frame("HPUB", <<"s">>, Colon, <<>>)),
     Good(Frame("HPUB", <<"s">>, Space, <<"bin">>))}
    \cup {Blocked(<<"HPUB", "s">>, block) : block \in Blocks}

Pairs(c) ==
    LET items == IF c = "ServerCodec" THEN FromServer ELSE FromClient
    IN  {<<one, two>> : one \in items, two \in items}

=============================================================================
