------------------------------ MODULE Channel ------------------------------
(***************************************************************************)
(* The private connection from end to end: the server's handshake          *)
(* (Handshake, which is extended here) at one end, the mediator's          *)
(* (clientdemo.c) at the other, and the streams that follow it: a client's *)
(* requests down to the mediator, the service's answers up to the server.  *)
(* Nothing marks where the handshake ends and the streams begin but the    *)
(* two parsers' agreement on the lengths of their messages.                *)
(*                                                                         *)
(* Handshake's `wire' is the direction mediator to server and `script'     *)
(* holds the greeting medSvr_init writes; `down' is the other direction.   *)
(* The mediator has no credentials to send, so the server's verdict on     *)
(* them is FALSE.                                                          *)
(***************************************************************************)
EXTENDS Handshake

CONSTANTS Requests, Answers      \* the bytes a client sends, and the service's answer

ASSUME StreamsAssumption == Requests \in Seq(UInt8) /\ Answers \in Seq(UInt8)

VARIABLES
    med,         \* the mediator's tunnel
    mbuf,        \* its read buffer
    mstatus,     \* "open", or "closed" (force_shutdown)
    down,        \* bytes the server has sent and the mediator has not read
    client,      \* whether a client was bound, and whether that was before the handshake's end
    relayed,     \* history: the client's bytes the server has relayed
    answered,    \* history: the bytes the mediator has sent as answers
    passed       \* history: the bytes the server has passed to the client

streams == <<client, relayed, answered, passed>>
server == <<tunnel, rbuf, replies, status>>
mediator == <<med, mbuf, mstatus>>
chanVars == <<vars, mediator, down, streams>>

\* medSvr_init: a version, one method, no authentication.
Greeting == <<5, 1, 0>>
Name(len) == [i \in 1..len |-> 119]
\* Mutant: the request is sent with the NUL that ends its name.
RequestNul == <<5, 1, 0, 3, 15>> \o Name(15) \o <<0, 31, 154>>

\* Mutant: the length counts the NUL, which is not sent.
RequestShort == <<5, 1, 0, 3, 16>> \o Name(15) \o <<31, 154>>

\* tunnel_write_request: CONNECT www.hellofz.org:8090.
Request == <<5, 1, 0, 3, 15>> \o Name(15) \o <<31, 154>>

\* Mutant: the name is sent with the NUL that ends it.
ConnectReplyNul == <<5, 1, 0, 3, 16>> \o Name(16) \o <<0, 31, 144>>
\* tunnel_notify_connected answers with a request of its own: www.hellorsp.org:8080.
ConnectReply == <<5, 1, 0, 3, 16>> \o Name(16) \o <<31, 144>>

\* The bytes of the server's answers to a greeting, to credentials and to a request.
ReplyBytes(reply) == CASE reply = "no_auth"  -> <<5, 0>>
                       [] reply = "password" -> <<5, 2>>
                       [] reply = "success"  -> <<tunnel.aver, 0>>
                       [] reply = "connect"  -> ConnectReply

ChannelInit ==
    /\ Init /\ script = <<Greeting>>
    /\ med = tunnel /\ mbuf = <<>> /\ mstatus = "open" /\ down = <<>>
    /\ client = "none" /\ relayed = <<>> /\ answered = <<>> /\ passed = <<>>

----------------------------------------------------------------------------
(* The server.                                                             *)

MediatorGreets == Send /\ UNCHANGED <<mediator, down, streams>>

\* With n = 0 the event was for a client that waitLinePairing has bound, which leaves the
\* state as it is: the handshake goes on.
ServerReads(n) ==
    /\ ReadHandle(n, FALSE)
    /\ down' = IF replies' = replies THEN down ELSE down \o ReplyBytes(replies'[Len(replies')])
    /\ UNCHANGED <<mediator, streams>>

\* A new client is bound to the tunnel if its status is idle, which it is from the beginning:
\* the state becomes connected_state wherever the handshake is.
ClientBinds ==
    /\ status = "open" /\ client = "none"
    /\ client' = IF tunnel.state = "connected_state" THEN "bound" ELSE "early"
    /\ tunnel' = [tunnel EXCEPT !.state = "connected_state", !.read_count = 0]
    /\ UNCHANGED <<setup, rbuf, replies, status, script, sent, wire, mediator, down, relayed, answered, passed>>

\* tunnel_connected_handle, for the client's bytes and for the mediator's.
ServerRelays(n) ==
    /\ status = "open" /\ client # "none"
    /\ LET bytes == SubSeq(Requests, Len(relayed) + 1, Len(relayed) + n)
       IN  down' = down \o bytes /\ relayed' = relayed \o bytes
    /\ UNCHANGED <<vars, mediator, client, answered, passed>>

ServerPasses(n) ==
    /\ status = "open" /\ client # "none"
    /\ passed' = passed \o rbuf \o SubSeq(wire, 1, n) /\ rbuf' = <<>> /\ wire' = Drop(wire, n)
    /\ UNCHANGED <<setup, tunnel, replies, status, script, sent, mediator, down, client, relayed, answered>>

----------------------------------------------------------------------------
(* The mediator.                                                           *)

\* Mutant: the request is sent and the streams begin, its reply is not awaited.
MedOpenHandleEager(h) ==
    IF Len(h.buf) < 2 THEN h
    ELSE IF h.buf[1] # 5 THEN Refused(h, h.t, 1)
    ELSE [h EXCEPT !.t = [@ EXCEPT !.state = "connected_state", !.nmethods = h.buf[2]],
                   !.buf = Drop(@, 2), !.out = Request]

\* tunnel_open_handle: any method the server has chosen is answered with the request.
MedOpenHandle(h) ==
    IF Len(h.buf) < 2 THEN h
    ELSE IF h.buf[1] # 5 THEN Refused(h, h.t, 1)
    ELSE [h EXCEPT !.t = [@ EXCEPT !.state = "request_state", !.nmethods = h.buf[2]],
                   !.buf = Drop(@, 2), !.out = Request]

\* tunnel_request_handle parses the reply as the server parses a request, and sends nothing.
MedRequestHandle(h) == [RequestHandle(h) EXCEPT !.out = <<>>]

MedHandle(h) == CASE h.t.state = "open_state" -> MedOpenHandle(h)
                  [] h.t.state = "request_state" -> MedRequestHandle(h)
                  [] h.t.state = "connected_state" -> h      \* Mediator.tla

MediatorReads(n) ==
    /\ mstatus = "open"
    /\ LET h == MedHandle([t |-> med, buf |-> mbuf \o SubSeq(down, 1, n), out |-> <<>>,
                           ok |-> FALSE, res |-> "open"])
       IN  /\ med' = h.t /\ mbuf' = h.buf /\ wire' = wire \o h.out
           /\ mstatus' = IF h.res = "refused" THEN "closed" ELSE h.res
    /\ down' = Drop(down, n)
    /\ UNCHANGED <<setup, server, script, sent, streams>>

\* The service answers once a request has arrived.
MediatorAnswers(n) ==
    /\ mstatus = "open" /\ med.state = "connected_state" /\ mbuf # <<>>
    /\ LET bytes == SubSeq(Answers, Len(answered) + 1, Len(answered) + n)
       IN  wire' = wire \o bytes /\ answered' = answered \o bytes
    /\ UNCHANGED <<setup, server, script, sent, mediator, down, client, relayed, passed>>

----------------------------------------------------------------------------
ServerReadsSome == \E n \in 1..Len(wire) : ServerReads(n)
MediatorReadsSome == \E n \in 1..Len(down) : MediatorReads(n)

ChannelNext ==
    \/ MediatorGreets \/ ServerReadsSome \/ ServerReads(0) \/ MediatorReadsSome \/ ClientBinds
    \/ \E n \in 1..(Len(Requests) - Len(relayed)) : ServerRelays(n)
    \/ \E n \in 1..Len(wire) : ServerPasses(n)
    \/ \E n \in 1..(Len(Answers) - Len(answered)) : MediatorAnswers(n)

\* Both event loops keep running, and what is sent arrives; clients owe nothing.
ChannelSpec == /\ ChannelInit /\ [][ChannelNext]_chanVars
               /\ WF_chanVars(MediatorGreets) /\ WF_chanVars(ServerReadsSome)
               /\ WF_chanVars(MediatorReadsSome)

----------------------------------------------------------------------------
\* The two parsers agree where the handshake ends: what follows the server's last reply is
\* taken by the mediator for requests, all of it and nothing else, however both directions
\* are split or run together; unless a client was bound before the handshake was over.
RequestsAligned ==
    med.state = "connected_state" /\ mstatus = "open" /\ client # "early" => mbuf \o down = relayed

\* In the other direction the server takes for answers what the service answered.
AnswersAligned ==
    tunnel.state = "connected_state" /\ client # "early" => passed \o rbuf \o wire = answered

\* A mediator only takes its own handshake for one: it is connected only if its server is,
\* though neither sees the other's state.
MediatorFollows ==
    med.state = "connected_state" => tunnel.state = "connected_state"

BothConnected == tunnel.state = "connected_state" /\ med.state = "connected_state"

\* Without credentials both ends get through the handshake, whatever the splits, unless a
\* client was bound before its end.  (clientdemo takes -u and -k but sends no credentials: a
\* server that asks for them takes its request for some, and refuses it.)
HandshakeCompletes == ~auth => <>(BothConnected \/ client = "early")
=============================================================================
