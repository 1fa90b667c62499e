----------------------------- MODULE Handshake -----------------------------
(***************************************************************************)
(* The handshake of a private connection (tunnel_open_handle,              *)
(* tunnel_auth_handle, tunnel_request_handle in socks5.c).  Each call      *)
(* parses as much of one message as read_buff holds; read_count, kept in   *)
(* the tunnel with the fields parsed so far, tells the next call at which  *)
(* label to go on.  A stage of a handler is an operator on the record      *)
(*   h = [t: tunnel, buf: read_buff, out: answers, ok: verdict, res: ...]  *)
(* and falls through to the next one, as the code does.  Whether user name *)
(* and password are the server's is the verdict `ok'.                      *)
(***************************************************************************)
EXTENDS Naturals, Sequences

CONSTANTS
    MaxField,    \* MAX_UNAME_LEN, MAX_PASSWD_LEN
    Scripts      \* the sequences of messages a peer may send

ASSUME FieldAssumption == MaxField \in Nat
ASSUME ScriptsAssumption == Scripts \subseteq Seq(Seq(0..255))

VARIABLES
    auth,        \* a user name and a password were given (-u, -k)
    patient,     \* the peer waits for the answer to a message before it sends the next
    tunnel,      \* state, read_count and the fields of op, ap and rp
    rbuf,        \* what priv_sock->read_buff holds
    replies,     \* the answers written so far
    status,      \* "open", "closed" (force_shutdown) or "aborted" (assert)
    script,      \* the messages the peer has still to send
    sent,        \* how many it has sent
    wire         \* bytes sent and not yet read

setup == <<auth, patient>>
vars == <<setup, tunnel, rbuf, replies, status, script, sent, wire>>

UInt8 == 0..255
HandshakeStates == {"open_state", "auth_state", "request_state"}

Tunnel == [state: HandshakeStates \cup {"connected_state"}, read_count: Nat, nmethods: UInt8,
           aver: UInt8, ulen: UInt8, uname: Seq(UInt8), plen: UInt8,
           rsv: UInt8, atyp: UInt8, domainlen: UInt8]

Init == /\ auth \in BOOLEAN /\ patient \in BOOLEAN
        /\ tunnel = [state |-> "open_state", read_count |-> 0, nmethods |-> 0,
                     aver |-> 0, ulen |-> 0, uname |-> <<>>, plen |-> 0,
                     rsv |-> 0, atyp |-> 0, domainlen |-> 0]
        /\ rbuf = <<>> /\ replies = <<>> /\ status = "open"
        /\ script \in Scripts /\ sent = 0 /\ wire = <<>>

----------------------------------------------------------------------------
Drop(q, n) == SubSeq(q, n + 1, Len(q))                \* buff_read of n bytes
Assert0(h) == [h EXCEPT !.res = "aborted"]            \* assert(0)

\* return -1: t holds the fields as they were read, the field that is wrong, n bytes more, is
\* read too; neither the state nor read_count moves.
Refused(h, t, n) == [h EXCEPT !.t = t, !.buf = Drop(@, n), !.res = "refused"]

\* Mutant: read_count keeps the length of the header.
AnsweredNoReset(h, n, state, reply) ==
    [h EXCEPT !.t = [@ EXCEPT !.state = state], !.buf = Drop(@, n), !.out = Append(@, reply)]

\* The last n bytes of a message are read, it is answered, the next one starts at 0.
Answered(h, n, state, reply) ==
    [h EXCEPT !.t = [@ EXCEPT !.state = state, !.read_count = 0],
              !.buf = Drop(@, n), !.out = Append(@, reply)]

(* tunnel_open_handle *)
OpenMethods(h) ==
    IF Len(h.buf) < h.t.nmethods THEN h
    ELSE IF auth THEN Answered(h, h.t.nmethods, "auth_state", "password")
                   ELSE Answered(h, h.t.nmethods, "request_state", "no_auth")

OpenHeader(h) ==
    IF Len(h.buf) < 2 THEN h
    ELSE IF h.buf[1] # 5 THEN Refused(h, h.t, 1)
    ELSE OpenMethods([h EXCEPT !.t = [@ EXCEPT !.nmethods = h.buf[2], !.read_count = 2],
                               !.buf = Drop(@, 2)])

OpenHandle(h) == CASE h.t.read_count = 0 -> OpenHeader(h)
                   [] h.t.read_count = 2 -> OpenMethods(h)
                   [] OTHER -> Assert0(h)

(* tunnel_auth_handle *)
\* Mutant: a password that ends exactly where the buffer ends is not complete.
AuthPasswdMore(h) ==
    IF Len(h.buf) <= h.t.plen THEN h
    ELSE IF h.ok THEN Answered(h, h.t.plen, "request_state", "success") ELSE Refused(h, h.t, h.t.plen)

AuthPasswd(h) ==
    IF Len(h.buf) < h.t.plen THEN h
    ELSE IF h.ok THEN Answered(h, h.t.plen, "request_state", "success") ELSE Refused(h, h.t, h.t.plen)

AuthPlen(h) ==
    IF Len(h.buf) < 1 THEN h
    ELSE IF h.buf[1] > MaxField THEN Refused(h, [h.t EXCEPT !.plen = h.buf[1]], 1)
    ELSE AuthPasswd([h EXCEPT !.t = [@ EXCEPT !.plen = h.buf[1], !.read_count = h.t.read_count + 1],
                              !.buf = Drop(@, 1)])

\* Mutant: the bytes of the user name are not counted.
AuthUnameUncounted(h) ==
    IF Len(h.buf) < h.t.ulen THEN h
    ELSE AuthPlen([h EXCEPT !.t = [@ EXCEPT !.uname = SubSeq(h.buf, 1, h.t.ulen)],
                            !.buf = Drop(@, h.t.ulen)])

AuthUname(h) ==
    IF Len(h.buf) < h.t.ulen THEN h
    ELSE AuthPlen([h EXCEPT !.t = [@ EXCEPT !.uname = SubSeq(h.buf, 1, h.t.ulen),
                                            !.read_count = h.t.read_count + h.t.ulen],
                            !.buf = Drop(@, h.t.ulen)])

\* Mutant: a user name one byte too long is taken.
AuthHeaderInclusive(h) ==
    IF Len(h.buf) < 2 THEN h
    ELSE IF h.buf[2] > MaxField + 1
    THEN Refused(h, [h.t EXCEPT !.aver = h.buf[1], !.ulen = h.buf[2]], 2)
    ELSE AuthUname([h EXCEPT !.t = [@ EXCEPT !.aver = h.buf[1], !.ulen = h.buf[2],
                                             !.read_count = 2],
                             !.buf = Drop(@, 2)])

AuthHeader(h) ==
    IF Len(h.buf) < 2 THEN h
    ELSE IF h.buf[2] > MaxField
    THEN Refused(h, [h.t EXCEPT !.aver = h.buf[1], !.ulen = h.buf[2]], 2)
    ELSE AuthUname([h EXCEPT !.t = [@ EXCEPT !.aver = h.buf[1], !.ulen = h.buf[2],
                                             !.read_count = 2],
                             !.buf = Drop(@, 2)])

\* With an empty user name two labels share a count: the first comparison decides.
AuthHandle(h) == IF h.t.read_count = 0 THEN AuthHeader(h)
                 ELSE IF h.t.read_count = 2 THEN AuthUname(h)
                 ELSE IF h.t.read_count = 2 + h.t.ulen THEN AuthPlen(h)
                 ELSE IF h.t.read_count = 2 + h.t.ulen + 1 THEN AuthPasswd(h)
                 ELSE Assert0(h)

(* tunnel_request_handle *)
Connected(h, n) == Answered(h, n, "connected_state", "connect")

RequestFixed(h, n) == IF Len(h.buf) < n + 2 THEN h ELSE Connected(h, n + 2)

RequestDomain(h) ==
    IF Len(h.buf) < h.t.domainlen + 2 THEN h ELSE Connected(h, h.t.domainlen + 2)

\* Mutant: the length of the name is read but not counted.
RequestDomainLenUncounted(h) ==
    IF Len(h.buf) < 1 THEN h
    ELSE RequestDomain([h EXCEPT !.t = [@ EXCEPT !.domainlen = h.buf[1]], !.buf = Drop(@, 1)])

RequestDomainLen(h) ==
    IF Len(h.buf) < 1 THEN h
    ELSE RequestDomain([h EXCEPT !.t = [@ EXCEPT !.domainlen = h.buf[1], !.read_count = h.t.read_count + 1],
                                 !.buf = Drop(@, 1)])

RequestAddr(h) == CASE h.t.atyp = 1 -> RequestFixed(h, 4)
                    [] h.t.atyp = 4 -> RequestFixed(h, 16)
                    [] h.t.atyp = 3 -> RequestDomainLen(h)
                    [] OTHER -> Refused(h, h.t, 0)

RequestHeader(h) ==
    IF Len(h.buf) < 4 THEN h
    ELSE IF h.buf[1] # 5 THEN Refused(h, h.t, 1)
    ELSE IF h.buf[2] # 1 THEN Refused(h, h.t, 2)
    ELSE RequestAddr([h EXCEPT !.t = [@ EXCEPT !.rsv = h.buf[3], !.atyp = h.buf[4],
                                               !.read_count = 4],
                               !.buf = Drop(@, 4)])

RequestHandle(h) == CASE h.t.read_count = 0 -> RequestHeader(h)
                      [] h.t.read_count = 4 -> RequestAddr(h)
                      [] h.t.read_count = 5 -> RequestDomain(h)
                      [] OTHER -> Assert0(h)

StateHandle(h) == CASE h.t.state = "open_state" -> OpenHandle(h)
                    [] h.t.state = "auth_state" -> AuthHandle(h)
                    [] h.t.state = "request_state" -> RequestHandle(h)

----------------------------------------------------------------------------
\* The peer sends its next message.
Send == /\ script # <<>> /\ (patient => Len(replies) = sent)
        /\ wire' = wire \o Head(script) /\ script' = Tail(script) /\ sent' = sent + 1
        /\ UNCHANGED <<setup, tunnel, rbuf, replies, status>>

\* A refusal closes the socket the event was for.  Bytes come with an event of the private
\* connection; a call that brings none (n = 0) may have been made for a client paired with
\* the tunnel, and then the client is closed and the private connection stays open.
RefusalLeaves(n) == IF n = 0 THEN {"open", "closed"} ELSE {"closed"}

\* tunnel_read_handle appends n bytes and calls the handler of the state, once.
ReadHandle(n, ok) ==
    /\ status = "open" /\ tunnel.state \in HandshakeStates
    /\ LET h == StateHandle([t |-> tunnel, buf |-> rbuf \o SubSeq(wire, 1, n), out |-> replies,
                             ok |-> ok, res |-> "open"])
       IN  tunnel' = h.t /\ rbuf' = h.buf /\ replies' = h.out
           /\ status' \in IF h.res = "refused" THEN RefusalLeaves(n) ELSE {h.res}
    /\ wire' = Drop(wire, n)
    /\ UNCHANGED <<setup, script, sent>>

ReadSome == wire # <<>> /\ \E n \in 1..Len(wire), ok \in BOOLEAN : ReadHandle(n, ok)

Next == Send \/ ReadSome \/ \E ok \in BOOLEAN : ReadHandle(0, ok)

Spec == Init /\ [][Next]_vars

\* Level-triggered epoll reports unread bytes until they are read; the peer owes nothing.
FairSpec == Spec /\ WF_vars(ReadSome)

----------------------------------------------------------------------------
\* The values read_count can take in each state: the labels of the state's handler.
Labels(t) == CASE t.state = "open_state" -> {0, 2}
               [] t.state = "auth_state" -> {0, 2, 2 + t.ulen, 2 + t.ulen + 1}
               [] t.state = "request_state" -> {0, 4} \cup (IF t.atyp = 3 THEN {5} ELSE {})
               [] t.state = "connected_state" -> {0}

\* The lengths of user name and password were checked before read_count moved past them.
FieldsChecked(t) ==
    t.state = "auth_state" /\ t.read_count > 0 =>
      /\ t.ulen <= MaxField
      /\ t.read_count > 2 => Len(t.uname) = t.ulen
      /\ t.read_count > 2 + t.ulen => t.plen <= MaxField

TypeOK == /\ auth \in BOOLEAN /\ patient \in BOOLEAN
          /\ tunnel \in Tunnel /\ FieldsChecked(tunnel)
          /\ rbuf \in Seq(UInt8) /\ wire \in Seq(UInt8) /\ script \in Seq(Seq(UInt8))
          /\ replies \in Seq({"password", "no_auth", "success", "connect"})
          /\ status \in {"open", "closed", "aborted"} /\ sent \in Nat

\* read_count always names a label of the handler that is called next: the assert(0) of
\* the three handlers is never reached, however the bytes are split into reads, nor after
\* a refusal that leaves the connection open in the middle of a message.
ResumesAtLabel == status # "aborted" /\ (status = "open" => tunnel.read_count \in Labels(tunnel))

\* The bytes of the current message that have been parsed already.
Parsed(t) ==
    CASE t.read_count = 0 -> <<>>
      [] t.state = "open_state" /\ t.read_count # 0 -> <<5, t.nmethods>>
      [] t.state = "auth_state" /\ t.read_count # 0 ->
           <<t.aver, t.ulen>> \o (IF t.read_count > 2 THEN t.uname ELSE <<>>)
                              \o (IF t.read_count > 2 + t.ulen THEN <<t.plen>> ELSE <<>>)
      [] OTHER -> <<5, 1, t.rsv, t.atyp>> \o (IF t.read_count > 4 THEN <<t.domainlen>> ELSE <<>>)

\* The three handlers implement SocksMessages: what is parsed does not depend on how the
\* bytes of a message are split, a message is answered by the call that completes it, and
\* of a refused one that leaves the connection open only the wrong field is lost.
Messages == INSTANCE SocksMessages WITH
                state <- tunnel.state,
                inbox <- IF status = "open" THEN Parsed(tunnel) \o rbuf ELSE <<>>
ParsesMessages == Messages!Spec

\* At the start: the peer is going to wait for its answers, and to send credentials just
\* when the server asks for them.
Cooperative == patient /\ Len(script) = IF auth THEN 3 ELSE 2

\* A message of a cooperative peer is answered, or the connection refused, even if it ends
\* exactly where a read ends: nothing else will come to wake the handler.
MessagesAnswered ==
    Cooperative => \A i \in 1..3 : sent >= i ~> Len(replies) >= i \/ status # "open"
=============================================================================
