----------------------------- MODULE BindingApi -----------------------------
(***************************************************************************)
(* NatsBinding as a library: callers use its API in any order and pass any *)
(* instants, the peer sends any command, the transport polls when it       *)
(* likes.  The only discipline kept is what the types enforce: a oneshot   *)
(* sender is handed in once, and a sid is known from an answer only.       *)
(***************************************************************************)
EXTENDS NatsBinding

CONSTANTS
    MayLeave,       \* the requests whose caller may drop its receivers
    Instants,       \* instants passed as "now"; they need not be monotone
    WithHeaders,    \* whether the server sends HMSG
    MaxSid,         \* bound on the sids the server names
    MaxTransmits    \* bound on the commands queued and transmitted

ASSUME EnvironmentAssumption ==
    /\ MayLeave \subseteq Requests
    /\ Instants \subseteq Nat
    /\ WithHeaders \in BOOLEAN
    /\ MaxSid \in Nat /\ MaxTransmits \in Nat

VARIABLES
    accepted,   \* history: commands handed in while the connection was not over
    outgoing    \* history: commands poll_transmit has handed out

vars == <<binding, caller, accepted, outgoing>>

ServerCommand ==
    {Info, SPing, SPong, OkOrErr}
    \cup [type : {"MSG"} \cup (IF WithHeaders THEN {"HMSG"} ELSE {}),
           sid : 1..MaxSid, payload : Payloads]

Init == BindingInit /\ accepted = <<>> /\ outgoing = <<>>

Room == Len(preliminary) + Len(buffered_transmits) + Len(outgoing) < MaxTransmits

ClientInput(cmd) ==
    /\ Room
    /\ HandleClientInput(cmd)
    /\ accepted' = IF conn_state \in Terminal THEN accepted ELSE Append(accepted, cmd)
    /\ UNCHANGED outgoing

\* A new subscribe call creates its channels and hands in its command.
Request(r, max) ==
    /\ caller[r] = "idle"
    /\ caller' = [caller EXCEPT ![r] = "live"]
    /\ ClientInput(Subscribe(r, max))

Cancel(r) == answer[r] # None /\ ClientInput(Unsubscribe(answer[r])) /\ UNCHANGED caller

Send(p) == ClientInput(Publish(p)) /\ UNCHANGED caller

ServerInput ==
    /\ \E cmd \in ServerCommand, now \in Instants : HandleServerInput(cmd, now)
    /\ UNCHANGED <<caller, accepted, outgoing>>

Timeout ==
    /\ Room
    /\ \E now \in Instants : \/ HandleSendPingTimeout(now)
                             \/ HandleSendPongTimeout(now)
                             \/ HandleKeepAliveTimeout(now)
    /\ UNCHANGED <<caller, accepted, outgoing>>

Transmit ==
    /\ PollTransmit
    /\ outgoing' = Append(outgoing, Head(buffered_transmits))
    /\ UNCHANGED <<caller, accepted>>

Leaving(r) == DropReceiver(r) /\ UNCHANGED <<accepted, outgoing>>
Taking(r)  == TakeMsg(r) /\ UNCHANGED <<accepted, outgoing>>

Next ==
    \/ \E r \in Requests, max \in Limits \cup {None} : Request(r, max)
    \/ \E r \in Requests : Cancel(r) \/ Taking(r)
    \/ \E r \in MayLeave : Leaving(r)
    \/ \E p \in Payloads : Send(p)
    \/ ServerInput \/ Timeout \/ Transmit

Spec == Init /\ [][Next]_vars

-----------------------------------------------------------------------------
(* Properties.                                                             *)

\* The fields of the binding and the histories have their types.
TypeOK ==
    /\ BindingTypeOK
    /\ accepted \in Seq(ConnectionCommand)
    /\ outgoing \in Seq(ClientCommand)

\* Everything handed to the server on this connection, and what is queued for it.
Stream == outgoing \o buffered_transmits

\* The handshake: no byte leaves before the server's INFO, and the first
\* command afterwards is CONNECT, once, however much was called before INFO.
ConnectFirst ==
    /\ conn_state = "AwaitingInfo" => Stream = <<>>
    /\ conn_state = "InfoReceived" => Stream # <<>>
    /\ \A i \in DOMAIN Stream : Stream[i] = Connect <=> i = 1

\* Position i subscribes a sid and nothing after it unsubscribes that sid.
Open(i) ==
    /\ Stream[i].type = "SUB"
    /\ \A j \in DOMAIN Stream : j > i => Stream[j] # Unsub(Stream[i].sid, None)

\* The table that routes incoming messages is, at every moment, the one the
\* server will hold once it has read everything sent and queued: same sids, each
\* standing for the same request.  An entry too many panics or feeds a channel
\* nobody asked for; an entry missing loses messages as "unknown".
RoutingAgreement ==
    conn_state = "InfoReceived" =>
        {<<sid, sid2subscriber[sid]>> : sid \in DOMAIN sid2subscriber}
            = {<<Stream[i].sid, Stream[i].request>> : i \in {j \in DOMAIN Stream : Open(j)}}

\* Each answer given on a connection names a sid of its own, and exactly one SUB
\* with that sid, for that request's subject, is sent or queued.
AnswerMeansSubscribed ==
    conn_state = "InfoReceived" =>
        \A r \in Requests : answer[r] # None =>
            /\ \E i \in DOMAIN Stream : Stream[i] = Sub(r, answer[r])
            /\ \A i, j \in DOMAIN Stream :
                   /\ Stream[i].type = "SUB" /\ Stream[i].sid = answer[r]
                   /\ Stream[j].type = "SUB" /\ Stream[j].request = r
                   => i = j

\* No subscribe call is forgotten: until INFO its command is in the backlog, once,
\* and from INFO on a caller that is still there has its answer.
NoRequestForgotten ==
    \A r \in Requests :
        /\ conn_state = "AwaitingInfo" /\ caller[r] # "idle" =>
               \E i \in DOMAIN preliminary : \A j \in DOMAIN preliminary :
                   preliminary[j].type = "Subscribe" /\ preliminary[j].request = r <=> i = j
        /\ conn_state = "InfoReceived" /\ caller[r] = "live" => answer[r] # None

\* Only messages for a request's own sid reach its channel, never more than it holds.
Delivered ==
    \A r \in Requests :
        /\ Len(msg_chan[r]) <= ChanCapacity
        /\ \A i \in DOMAIN msg_chan[r] : msg_chan[r][i].sid = answer[r]

\* The timer contract of the sans-IO API: a handler called at the very instant its
\* poll function names acts, so a loop that sleeps until then is never woken in vain.
TimersActWhenPolled ==
    conn_state = "InfoReceived" =>
        /\ \A now \in Instants : PingDue(PollSendPingTimeout(now))
        /\ PollSendPongTimeout # None => PongDue(PollSendPongTimeout)
        /\ PollKeepAliveTimeout # None => LossDue(PollKeepAliveTimeout)

\* A sid is bound once: it never moves to another request, and once removed from
\* the table never returns; an answer, once given, is never changed.
SidsNeverReused ==
    [][ /\ \A sid \in DOMAIN sid2subscriber' :
               \/ sid \in DOMAIN sid2subscriber /\ sid2subscriber'[sid] = sid2subscriber[sid]
               \/ sid >= sid_generator
        /\ \A r \in Requests : answer[r] # None => answer'[r] = answer[r] ]_vars

=============================================================================
