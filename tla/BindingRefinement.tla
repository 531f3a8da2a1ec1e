------------------------- MODULE BindingRefinement -------------------------
(***************************************************************************)
(* BindingApi implements CommandPipe.  Before INFO the pipe is what the    *)
(* backlog will become once it is replayed: CONNECT, then each command's   *)
(* wire commands with the sids it will be given.                           *)
(***************************************************************************)
EXTENDS BindingApi

TakesSid(cmd) == cmd.type = "Subscribe"

\* The pipe that the first n commands of the backlog amount to.
Backlog(cmds) ==
    LET queued[n \in 0..Len(cmds)] ==
            IF n = 0
            THEN [pipe |-> <<Connect>>, next |-> 1]
            ELSE [pipe |-> queued[n - 1].pipe \o Transmits(cmds[n], queued[n - 1].next),
                  next |-> IF TakesSid(cmds[n])
                           THEN queued[n - 1].next + 1 ELSE queued[n - 1].next]
    IN  queued[Len(cmds)]

Phase ==
    CASE conn_state = "AwaitingInfo" -> "greeting"
      [] conn_state = "InfoReceived" -> "open"
      [] conn_state \in Terminal     -> "over"

\* The commands on their way, and the sid the next subscription will be given.
Queued ==
    IF conn_state = "AwaitingInfo" THEN Backlog(preliminary).pipe ELSE buffered_transmits
Upcoming ==
    IF conn_state = "AwaitingInfo" THEN Backlog(preliminary).next ELSE sid_generator

Pipe == INSTANCE CommandPipe WITH
    Wire        <- Transmits,
    Subscribing <- TakesSid,
    Greeting    <- Connect,
    KeepAlives  <- {Ping, Pong},
    phase       <- Phase,
    next        <- Upcoming,
    pipe        <- Queued,
    sent        <- outgoing

\* Commands reach the wire in the order callers handed them in, before INFO or
\* after, each once and whole, with only PING and PONG between them.
ImplementsCommandPipe == Pipe!Spec

=============================================================================
