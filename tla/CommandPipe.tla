---------------------------- MODULE CommandPipe ----------------------------
(***************************************************************************)
(* What the client promises about outgoing commands, with no handshake     *)
(* states, backlog or routing table: every command a caller hands in       *)
(* before the connection is over becomes its wire commands, in the order   *)
(* of the calls; CONNECT goes first and nothing goes before the server's   *)
(* greeting; only PING and PONG are interleaved; a connection that is over *)
(* sends nothing more.                                                     *)
(***************************************************************************)
EXTENDS Naturals, Sequences

CONSTANTS Wire(_, _),       \* the wire commands of a command, given the next sid
          Subscribing(_),   \* whether a command takes a sid
          Greeting, KeepAlives   \* CONNECT; PING and PONG

VARIABLES phase,      \* "greeting" until the server's INFO, "open", "over"
          accepted,   \* commands handed in: the callers' input
          next,       \* the sid of the next subscription
          pipe,       \* wire commands not sent yet
          sent        \* wire commands sent

vars == <<phase, accepted, next, pipe, sent>>

Init ==
    /\ phase = "greeting"
    /\ accepted = <<>>
    /\ next = 1
    /\ pipe = <<Greeting>>
    /\ sent = <<>>

\* A step in which the callers hand in one more command.
Handed == accepted'[Len(accepted')]
OneMore == accepted' # accepted /\ accepted' = Append(accepted, Handed)

Accept ==
    /\ phase # "over"
    /\ OneMore
    /\ pipe' = pipe \o Wire(Handed, next)
    /\ next' = IF Subscribing(Handed) THEN next + 1 ELSE next
    /\ UNCHANGED <<phase, sent>>

Greeted ==
    /\ phase = "greeting"
    /\ phase' = "open"
    /\ UNCHANGED <<accepted, next, pipe, sent>>

Beat(command) ==
    /\ phase = "open"
    /\ pipe' = Append(pipe, command)
    /\ UNCHANGED <<phase, accepted, next, sent>>

Send ==
    /\ phase = "open"
    /\ pipe # <<>>
    /\ sent' = Append(sent, Head(pipe))
    /\ pipe' = Tail(pipe)
    /\ UNCHANGED <<phase, accepted, next>>

\* The connection ends: what was not sent is lost as a whole, with at most the
\* command that was being handed in.
End ==
    /\ phase # "over"
    /\ phase' = "over"
    /\ next' = 1
    /\ pipe' = <<>>
    /\ UNCHANGED accepted \/ OneMore
    /\ UNCHANGED sent

Next ==
    \/ \E command \in KeepAlives : Beat(command)
    \/ Accept \/ Greeted \/ Send \/ End

Spec == Init /\ [][Next]_vars

=============================================================================
