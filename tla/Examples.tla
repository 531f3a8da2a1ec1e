------------------------------ MODULE Examples ------------------------------
(***************************************************************************)
(* The two example programs of nats_client around one connection each.     *)
(* subscriber.rs subscribes, prints messages until its stream ends, aborts *)
(* the connection's task and returns; publisher.rs publishes once a second *)
(* up to a limit, sleeps for a second, aborts the task and returns.  Main  *)
(* and the connection's task run on different threads.  One unit of time   *)
(* is a second, and time is prompt as in Connection.                       *)
(***************************************************************************)
EXTENDS Connection

CONSTANT Me     \* the subscriber's request

\* The Subscriber is dropped at the end of main.
ASSUME MeAssumption == Requests = {Me} /\ MayDrop = {Me}

VARIABLES
    program,    \* "subscriber" or "publisher"
    stage,      \* where main is
    wake,       \* publisher: the next tick of its interval, or the end of its sleep
    greeted     \* history: when INFO was read

main == <<program, stage, wake>>
evars == <<cvars, main, greeted>>

ExamplesInit ==
    /\ Init
    /\ \/ program = "subscriber" /\ stage = "start"
       \/ program = "publisher" /\ stage = "publishing"
    /\ wake = 0
    /\ greeted = None

Finished == stage \in {"finished", "panicked"}

At(here) == stage = here /\ UNCHANGED <<program, wake, greeted>>

-----------------------------------------------------------------------------
(* subscriber.rs                                                           *)

Subscribes ==
    /\ program = "subscriber" /\ At("start")
    /\ CallSubscribe(Me)
    /\ stage' = "subscribing"

Subscribed ==
    /\ At("subscribing")
    /\ SubscribeReturns(Me)
    /\ stage' = IF Me \in crashed' THEN "panicked" ELSE "reading"

Prints ==
    /\ At("reading")
    /\ NextMessage(Me)
    /\ UNCHANGED stage

\* The stream ends at the limit, or once the channel is empty and its sender, which
\* the routing table owns, is dropped.  abort() follows at once.
StreamEnds ==
    /\ At("reading")
    /\ \/ MaxMsgs[Me] # None /\ taken[Me] = MaxMsgs[Me]
       \/ msg_chan[Me] = <<>> /\ \A sid \in DOMAIN sid2subscriber : sid2subscriber[sid] # Me
    /\ stage' = "leaving"
    /\ UNCHANGED cvars

\* The Subscriber is dropped when main returns.
SubscriberReturns ==
    /\ program = "subscriber" /\ At("leaving")
    /\ DropSubscriber(Me)
    /\ stage' = IF Me \in crashed' THEN "panicked" ELSE "finished"

-----------------------------------------------------------------------------
(* publisher.rs                                                            *)

\* interval.tick(), then publish(); after the last one, sleep().
Publishes ==
    /\ stage = "publishing" /\ wake <= now
    /\ CallPublish
    /\ stage' = CASE crashed' # {} -> "panicked"
                  [] crashed' = {} /\ published' = MaxPublishes -> "sleeping"
                  [] OTHER -> "publishing"
    /\ wake' = IF published' = MaxPublishes THEN now + 1 ELSE wake + 1
    /\ UNCHANGED <<program, greeted>>

\* Faulty: no sleep.
WakesAtOnce ==
    /\ At("sleeping")
    /\ stage' = "leaving"
    /\ UNCHANGED cvars

\* close() does nothing, and abort() follows.
Wakes ==
    /\ At("sleeping") /\ wake <= now
    /\ stage' = "leaving"
    /\ UNCHANGED cvars

PublisherReturns ==
    /\ program = "publisher" /\ At("leaving")
    /\ stage' = "finished"
    /\ UNCHANGED cvars

-----------------------------------------------------------------------------
\* An aborted task is dropped where it next waits; so is every task when main is over.
Aborted ==
    /\ stage = "leaving" \/ Finished
    /\ task = "running"
    /\ task' = "ended"
    /\ Leave(conn_state)
    /\ chan' = <<>> /\ inbound' = <<>>
    /\ UNCHANGED <<answer, msg_chan, tickers, caller, outbound, server, user, now>>
    /\ UNCHANGED <<main, greeted>>

Runs ==
    /\ Run
    /\ greeted' = IF greeted = None /\ conn_state' = "InfoReceived" THEN now ELSE greeted
    /\ UNCHANGED main

Around == (Server \/ PromptTick) /\ UNCHANGED <<main, greeted>>

ExamplesNext ==
    \/ Subscribes \/ Subscribed \/ Prints \/ StreamEnds \/ SubscriberReturns
    \/ Publishes \/ Wakes \/ PublisherReturns
    \/ Aborted \/ Runs \/ Around

\* Tasks that can proceed are scheduled.
ExamplesFairness ==
    /\ WF_evars(Runs) /\ SF_evars(Runs /\ RecvCommand)
    /\ SF_evars(Runs /\ (ReadCommand \/ ReadError \/ ReadEof))
    /\ WF_evars(Subscribes) /\ WF_evars(Subscribed) /\ WF_evars(Prints \/ StreamEnds)
    /\ WF_evars(SubscriberReturns)

ExamplesSpec == ExamplesInit /\ [][ExamplesNext]_evars /\ ExamplesFairness

-----------------------------------------------------------------------------
(* Properties.                                                             *)

\* The subscriber's stream ends for no other reason than its limit or the end of the
\* connection: an early end would silently lose messages.
EndsOnlyAtLimit ==
    [][stage = "reading" /\ stage' = "leaving" => Over \/ taken[Me] = MaxMsgs[Me]]_evars

\* main panics only when the connection is over, or, at the end of the subscriber, once
\* its own abort() has taken the task from under the Subscriber being dropped.
MainPanicsOnlyWhenOver == stage = "panicked" => Over

\* A second of sleep is enough: a publisher that is greeted before its sleep ends has
\* written everything it published by the time it aborts the connection, if that has
\* lasted and the server keeps reading, so that the socket has room.
NothingLeftUnsent ==
    /\ program = "publisher" /\ stage \in {"leaving", "finished"}
    /\ greeted # None /\ greeted < wake
    /\ Live /\ server.mode = "up"
    => InOrder(Sent, Publications, server.heard, published)

\* The subscriber ends when the connection does, although run() may go on, and when the
\* server has sent as many messages as it asked for.
SubscriberEnds ==
    program = "subscriber" /\ (Over \/ \E sid \in DOMAIN server.serials :
                                           server.serials[sid] = MaxMsgs[Me])
        ~> Finished

=============================================================================
