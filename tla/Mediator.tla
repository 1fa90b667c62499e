------------------------------ MODULE Mediator ------------------------------
(***************************************************************************)
(* The mediator (clientdemo.c): the program on the private host.  It keeps *)
(* one connection to the server's private port, shakes hands over it, and  *)
(* then carries the requests that arrive on it to a local service, which   *)
(* it connects to on demand; a service connection is parked in waitList    *)
(* when its answer has been sent and taken back for the next request.      *)
(*                                                                         *)
(* A buffer is the set of the kinds of bytes it holds.  Peers and sockets  *)
(* are modelled as in TunnelServer; nothing is accepted here and nothing   *)
(* follows the events of a batch.                                          *)
(***************************************************************************)
EXTENDS Naturals, FiniteSets, Sequences, FiniteSetsExt

CONSTANTS
    Socks,       \* blocks of memory a sock_t can occupy
    Media,       \* the block of the connection to the server
    MaxWait,     \* bound on wait entries (never freed by the code)
    NULL

ASSUME SocksAssumption == Media \in Socks /\ NULL \notin Socks
ASSUME WaitAssumption == MaxWait \in Nat

VARIABLES
    tun,         \* tunnel_t blocks: 0 is the one of AppList, the others are wait entries'
    sock,        \* sock_t blocks, each with its epoll mask and its kernel socket
    waitList,    \* the tunnels of the wait entries, in list order
    batch,       \* events of the current epoll_wait not yet handled
    replies,     \* the replies of the handshake the server has still to send
    fault        \* "null" / "freed": the first bad dereference, if any

vars == <<tun, sock, waitList, batch, replies, fault>>

Entries == 1..MaxWait
Tunnels == 0..MaxWait
Kind == {"handshake", "request", "answer"}

TunnelState == {"open_state", "request_state", "connected_state", "tunnel_waitting"}
Status == {"tunn_is_idle", "tunn_is_run", "tunn_is_free",
           "tmptun_is_wait", "tmptun_is_alive", "tmptun_is_free"}

Tunnel == [state: TunnelState, status: Status,
           priv: Socks \cup {NULL}, remote: Socks \cup {NULL}]

Sock == [alloc: BOOLEAN, tunnel: Tunnels, ispriv: BOOLEAN,
         half: BOOLEAN,                          \* state = sock_halfclosed
         rbuf: SUBSET Kind, wbuf: SUBSET Kind,
         mask: SUBSET {"in", "out"},             \* the events registered with epoll
         rx: SUBSET Kind,                        \* what the kernel holds to be read
         peer: {"open", "fin", "rst"}]

Event == [src: Socks, ev: {"in", "out"}]

ZeroTunnel == [state |-> "open_state", status |-> "tunn_is_idle", priv |-> NULL, remote |-> NULL]

NoSock == [alloc |-> FALSE, tunnel |-> 0, ispriv |-> FALSE, half |-> FALSE, rbuf |-> {},
           wbuf |-> {}, mask |-> {}, rx |-> {}, peer |-> "open"]

\* medSvr_init: a connection in progress, its tunnel, and the greeting to be written.
Init == /\ tun = [r \in Tunnels |-> IF r = 0 THEN [ZeroTunnel EXCEPT !.priv = Media] ELSE ZeroTunnel]
        /\ sock = [k \in Socks |-> IF k = Media
                     THEN [NoSock EXCEPT !.alloc = TRUE, !.ispriv = TRUE, !.wbuf = {"handshake"},
                                         !.mask = {"in", "out"}]
                     ELSE NoSock]
        /\ waitList = <<>> /\ batch = {} /\ replies = 2 /\ fault = "none"

----------------------------------------------------------------------------
(* The wait list: inserted at the head, searched from the head, recycled.  *)

Fresh == Len(waitList) + 1
First(S) == {i \in S : \A j \in S : i <= j}
WithStatus(status) == {i \in DOMAIN waitList : tun[waitList[i]].status = status}

WaitObj == LET free == WithStatus("tmptun_is_free")
           IN  IF free # {} THEN {waitList[i] : i \in First(free)} ELSE {Fresh} \cap Entries
WaitListWith(w) == IF \E i \in DOMAIN waitList : waitList[i] = w THEN waitList ELSE <<w>> \o waitList

\* waitLinePairing: the first service connection that is kept alive.
Alive == {waitList[i] : i \in First(WithStatus("tmptun_is_alive"))}

Parked(t, q) == [t EXCEPT !.state = "tunnel_waitting", !.status = "tmptun_is_alive", !.remote = q]
Running(t, q) == [t EXCEPT !.status = "tunn_is_run", !.remote = q]
\* Mutant: the entry keeps its pointer to the socket it gives away.
LetGoKeeps(t, status) == [t EXCEPT !.status = status]
LetGo(t, status) == [t EXCEPT !.status = status, !.remote = NULL]

----------------------------------------------------------------------------
(* Closing sockets.  The operators work on `s', the sockets as the handler *)
(* has changed them so far.                                                *)

Keep == UNCHANGED <<tun, waitList, fault>>
Crash(f) == fault' = f /\ UNCHANGED <<tun, sock, waitList>>
Freed(q, s) == q # NULL /\ ~s[q].alloc

\* sock_release: the tunnel of the socket forgets its end on the socket's side.
ReleasedT(t, ispriv) == IF ispriv THEN [t EXCEPT !.priv = NULL] ELSE [t EXCEPT !.remote = NULL]

\* Mutant: both ends of the tunnel are released, as the disabled code did.
ForceBoth(k, s) ==
    LET t == tun[s[k].tunnel]
    IN  /\ tun' = [tun EXCEPT ![s[k].tunnel] = [@ EXCEPT !.priv = NULL, !.remote = NULL]]
        /\ sock' = [j \in Socks |-> IF j \in {k, t.priv, t.remote} THEN NoSock ELSE s[j]]
        /\ UNCHANGED <<waitList, fault>>

SockForceShutdown(k, s) ==
    /\ tun' = [tun EXCEPT ![s[k].tunnel] = ReleasedT(@, s[k].ispriv)]
    /\ sock' = [s EXCEPT ![k] = NoSock]
    /\ UNCHANGED <<waitList, fault>>

\* The tunnel once sock_shutdown has closed k, which had nothing left to write.
ShutT(t, k, ispriv) ==
    LET rel == ReleasedT(t, ispriv)
    IN  IF t.state = "tunnel_waitting" THEN LetGo(rel, "tmptun_is_free")
        ELSE IF t.state = "connected_state" /\ k = t.remote THEN LetGo(rel, "tunn_is_idle")
        ELSE IF t.state = "connected_state" /\ k = t.priv
        THEN [rel EXCEPT !.status = "tunn_is_free", !.priv = NULL] ELSE rel

\* buff_concat of what k has read, onto the other side of its tunnel; a private socket
\* without a service connection takes its own bytes back.
LeftTo(k, s) ==
    LET t == tun[s[k].tunnel]
    IN  IF t.state # "connected_state" THEN NULL
        ELSE IF s[k].ispriv /\ t.remote # NULL THEN t.remote ELSE t.priv

WithLeft(k, s) ==
    LET to == LeftTo(k, s)
        h == [s EXCEPT ![k] = [@ EXCEPT !.half = TRUE]]
    IN  IF to = NULL THEN h ELSE [h EXCEPT ![to] = [@ EXCEPT !.wbuf = h[to].wbuf \cup s[k].rbuf]]

SockShutdown(k, s) ==
    LET to == LeftTo(k, s)
        h == WithLeft(k, s)
        r == s[k].tunnel
    IN  \/ Freed(to, s) /\ Crash("freed")
        \/ /\ ~Freed(to, s) /\ h[k].wbuf # {}
           /\ sock' = [h EXCEPT ![k] = [@ EXCEPT !.mask = {"out"}]] /\ Keep
        \/ /\ ~Freed(to, s) /\ h[k].wbuf = {}
           /\ tun' = [tun EXCEPT ![r] = ShutT(@, k, s[k].ispriv)]
           /\ sock' = [h EXCEPT ![k] = NoSock] /\ UNCHANGED <<waitList, fault>>

----------------------------------------------------------------------------
(* Reading.                                                                *)

\* Mutant: the bytes stay in the read buffer they were copied from (no buff_clear).
MovedKeepsSource(s, from, to) ==
    IF s[from].rbuf = {} THEN s
    ELSE [s EXCEPT ![to] = [@ EXCEPT !.wbuf = s[to].wbuf \cup s[from].rbuf, !.mask = {"in", "out"}]]

\* buff_concat of one side's bytes to the other side's, buff_clear, epoll_modify.
Moved(s, from, to) ==
    IF s[from].rbuf = {} THEN s
    ELSE [[s EXCEPT ![to] = [@ EXCEPT !.wbuf = s[to].wbuf \cup s[from].rbuf, !.mask = {"in", "out"}]]
             EXCEPT ![from] = [@ EXCEPT !.rbuf = {}]]

\* The handshake: the server's reply to the greeting is answered with the request, the
\* reply to the request is taken, or the reply is refused, or it is not complete yet.
\* Bytes of a client that was bound early are parsed as if they were the reply.
AfterReply(b) == IF "handshake" \in b THEN {b \ {"handshake"}} ELSE SUBSET b

OpenHandle(p, s) ==
    \/ s[p].rbuf # {} /\ SockForceShutdown(p, s)
    \/ (replies = 2 \/ "handshake" \notin s[p].rbuf) /\ sock' = s /\ Keep
    \/ /\ replies < 2 /\ s[p].rbuf # {}
       /\ tun' = [tun EXCEPT ![0] = [@ EXCEPT !.state = "request_state"]]
       /\ \E rest \in AfterReply(s[p].rbuf) :
            sock' = [s EXCEPT ![p] = [@ EXCEPT !.rbuf = rest, !.wbuf = s[p].wbuf \cup {"handshake"},
                                               !.mask = {"in", "out"}]]
       /\ UNCHANGED <<waitList, fault>>

\* Mutant: the tunnel goes to connecting_state, as the server's protocol has it.
RequestConnecting(p, s) ==
    /\ replies = 0 /\ "handshake" \in s[p].rbuf
    /\ tun' = [tun EXCEPT ![0] = [@ EXCEPT !.state = "connecting_state"]]
    /\ sock' = s /\ UNCHANGED <<waitList, fault>>

RequestHandle(p, s) ==
    \/ s[p].rbuf # {} /\ SockForceShutdown(p, s)
    \/ /\ replies = 1 \/ "handshake" \notin s[p].rbuf
       /\ \E rest \in SUBSET s[p].rbuf : sock' = [s EXCEPT ![p] = [@ EXCEPT !.rbuf = rest]]
       /\ Keep
    \/ /\ replies = 0 /\ s[p].rbuf # {}
       /\ tun' = [tun EXCEPT ![0] = [@ EXCEPT !.state = "connected_state"]]
       /\ \E rest \in AfterReply(s[p].rbuf) : sock' = [s EXCEPT ![p] = [@ EXCEPT !.rbuf = rest]]
       /\ UNCHANGED <<waitList, fault>>

NewService(s, q) == [s EXCEPT ![q] = [NoSock EXCEPT !.alloc = TRUE, !.mask = {"in"}]]

\* Mutant: a parked connection is not looked for, the service is always dialled.
ServiceAlways(p, s) ==
    \E q \in {q \in Socks : ~s[q].alloc} :
      /\ tun' = [tun EXCEPT ![0] = Running(@, q)]
      /\ sock' = Moved(NewService(s, q), p, q) /\ UNCHANGED <<waitList, fault>>

\* A request without a service connection: the first parked one is taken back (its
\* sock_t still names the wait entry's tunnel), else the service is dialled, which may
\* fail: the request then stays in the read buffer.
Service(p, s) ==
    \/ \E w \in Alive :
         LET q == tun[w].remote
         IN  \/ q = NULL /\ Crash("null")
             \/ Freed(q, s) /\ Crash("freed")
             \/ /\ q # NULL /\ ~Freed(q, s)
                /\ tun' = [[tun EXCEPT ![w] = LetGo(@, "tmptun_is_free")] EXCEPT ![0] = Running(@, q)]
                /\ sock' = Moved(s, p, q) /\ UNCHANGED <<waitList, fault>>
    \/ /\ Alive = {}
       /\ \/ sock' = s /\ Keep
          \/ \E q \in {q \in Socks : ~s[q].alloc} :
               /\ tun' = [tun EXCEPT ![0] = Running(@, q)]
               /\ sock' = Moved(NewService(s, q), p, q) /\ UNCHANGED <<waitList, fault>>

\* Mutant: a request that had to wait for its connection is moved by the next event.
ConnectedDefers(k, s) ==
    LET q == tun[s[k].tunnel].remote
    IN  \/ s[k].ispriv /\ q = NULL /\ \E c \in {c \in Socks : ~s[c].alloc} :
             /\ tun' = [tun EXCEPT ![0] = Running(@, c)]
             /\ sock' = NewService(s, c) /\ UNCHANGED <<waitList, fault>>
        \/ ~(s[k].ispriv /\ q = NULL) /\ sock' = s /\ Keep

\* Mutant: a request is appended to the private socket's own write buffer.
ConnectedTypo(k, s) ==
    LET r == s[k].tunnel
        p == tun[r].priv
        q == tun[r].remote
    IN  \/ s[k].ispriv /\ q = NULL /\ Service(p, s)
        \/ s[k].ispriv /\ q # NULL /\ sock' = Moved(s, p, p) /\ Keep
        \/ ~s[k].ispriv /\ sock' = s /\ Keep

TunnelConnected(k, s) ==
    LET r == s[k].tunnel
        p == tun[r].priv
        q == tun[r].remote
    IN  \/ s[k].ispriv /\ q = NULL /\ Service(p, s)
        \/ s[k].ispriv /\ Freed(q, s) /\ Crash("freed")
        \/ s[k].ispriv /\ q # NULL /\ ~Freed(q, s) /\ sock' = Moved(s, p, q) /\ Keep
        \/ ~s[k].ispriv /\ p = NULL /\ sock' = s /\ Keep
        \/ ~s[k].ispriv /\ p # NULL /\ q = NULL /\ Crash("null")
        \/ ~s[k].ispriv /\ p # NULL /\ Freed(q, s) /\ Crash("freed")
        \/ ~s[k].ispriv /\ p # NULL /\ q # NULL /\ ~Freed(q, s) /\ sock' = Moved(s, q, p) /\ Keep

StateHandle(k, s) ==
    LET state == tun[s[k].tunnel].state
    IN  \/ state = "open_state" /\ OpenHandle(k, s)
        \/ state = "request_state" /\ RequestHandle(k, s)
        \/ state = "connected_state" /\ TunnelConnected(k, s)
        \/ state = "tunnel_waitting" /\ sock' = s /\ Keep          \* the default branch

----------------------------------------------------------------------------
(* The event loop.                                                         *)

Consume(k, ev) ==
    LET e == [src |-> k, ev |-> ev]
    IN  fault = "none" /\ e \in batch /\ batch' = batch \ {e} /\ UNCHANGED replies

InReady(k) == "in" \in sock[k].mask /\ (sock[k].rx # {} \/ sock[k].peer # "open")
OutReady(k) == "out" \in sock[k].mask /\ ~InReady(k)
MustReport == {[src |-> k, ev |-> "in"] : k \in {k \in Socks : InReady(k)}}
                \cup {[src |-> k, ev |-> "out"] : k \in {k \in Socks : OutReady(k) /\ sock[k].peer = "rst"}}
MayReport == {[src |-> k, ev |-> "out"] : k \in {k \in Socks : OutReady(k) /\ sock[k].peer # "rst"}}

EpollWait ==
    /\ fault = "none" /\ batch = {}
    /\ \E more \in SUBSET MayReport : batch' = MustReport \cup more /\ batch' # {}
    /\ UNCHANGED <<tun, sock, waitList, replies, fault>>

ReadHandle(k) ==
    /\ Consume(k, "in") /\ sock[k].alloc
    /\ \/ /\ sock[k].rx # {}
          /\ StateHandle(k, [sock EXCEPT ![k] = [@ EXCEPT !.rbuf = sock[k].rbuf \cup sock[k].rx, !.rx = {}]])
       \/ sock[k].rx = {} /\ sock[k].peer = "open" /\ StateHandle(k, sock)     \* EAGAIN
       \/ sock[k].rx = {} /\ sock[k].peer # "open" /\ SockShutdown(k, sock)    \* FIN, error

\* tunnel_switch_handle: when the private socket may write, an answer still in the
\* service socket's read buffer is moved to it; if there is none the service connection
\* is parked, and EPOLLOUT is switched off.
TunnelSwitch(k, s) ==
    LET r == s[k].tunnel
        q == tun[r].remote
    IN  \/ (k # tun[r].priv \/ q = NULL) /\ sock' = s /\ Keep
        \/ k = tun[r].priv /\ Freed(q, s) /\ Crash("freed")
        \/ k = tun[r].priv /\ q # NULL /\ ~Freed(q, s) /\ s[q].rbuf # {} /\ sock' = Moved(s, q, k) /\ Keep
        \/ /\ k = tun[r].priv /\ q # NULL /\ ~Freed(q, s) /\ s[q].rbuf = {}
           /\ \E w \in WaitObj :
                /\ tun' = [[tun EXCEPT ![w] = Parked(@, q)] EXCEPT ![r] = LetGo(@, "tunn_is_idle")]
                /\ waitList' = WaitListWith(w)
                /\ sock' = [[s EXCEPT ![q] = [@ EXCEPT !.tunnel = w]]
                               EXCEPT ![k] = [@ EXCEPT !.mask = {"in"}]]
           /\ UNCHANGED fault

AfterWrite(k, w) ==
    LET s == [sock EXCEPT ![k] = [@ EXCEPT !.wbuf = w, !.mask = IF w # {} THEN {"in", "out"} ELSE {"in"}]]
    IN  \/ tun[sock[k].tunnel].status = "tunn_is_run" /\ TunnelSwitch(k, s)
        \/ tun[sock[k].tunnel].status # "tunn_is_run" /\ sock' = s /\ Keep

\* Mutant: every failed write is taken for EAGAIN.
WriteIgnoresError(k) ==
    /\ Consume(k, "out") /\ sock[k].alloc
    /\ \/ sock[k].wbuf # {} /\ \E w \in {{}, sock[k].wbuf} : AfterWrite(k, IF sock[k].peer = "rst" THEN sock[k].wbuf ELSE w)
       \/ sock[k].wbuf = {} /\ sock[k].half /\ SockForceShutdown(k, sock)
       \/ sock[k].wbuf = {} /\ ~sock[k].half /\ AfterWrite(k, {})

WriteHandle(k) ==
    /\ Consume(k, "out") /\ sock[k].alloc
    /\ \/ sock[k].wbuf # {} /\ sock[k].peer = "rst" /\ SockForceShutdown(k, sock)
       \/ sock[k].wbuf # {} /\ sock[k].peer # "rst" /\ \E w \in {{}, sock[k].wbuf} : AfterWrite(k, w)
       \/ sock[k].wbuf = {} /\ sock[k].half /\ SockForceShutdown(k, sock)
       \/ sock[k].wbuf = {} /\ ~sock[k].half /\ AfterWrite(k, {})

----------------------------------------------------------------------------
(* The peers.  The server answers the greeting and the request, in one     *)
(* piece or more, each once it has been sent, and relays requests; the     *)
(* service sends answers; both may finish or reset.                        *)

Peer(k) == /\ fault = "none" /\ sock[k].alloc
           /\ batch = {} \/ \E e \in batch : e.src = k
           /\ UNCHANGED <<tun, waitList, batch, fault>>

Sends(k, kind) == /\ Peer(k) /\ sock[k].peer = "open"
                  /\ sock' = [sock EXCEPT ![k] = [@ EXCEPT !.rx = sock[k].rx \cup {kind}]]

ServerReplies(k) ==
    /\ sock[k].ispriv /\ "handshake" \notin sock[k].wbuf
    /\ \/ replies = 2 /\ tun[0].state = "open_state"
       \/ replies = 1 /\ tun[0].state = "request_state"
    /\ Sends(k, "handshake")
    /\ replies' \in {replies, replies - 1}

\* The server relays a client's request, at any time: a client that was bound before the
\* last reply ends the handshake for the server, which then has no more replies to send.
ServerRequests(k) == sock[k].ispriv /\ Sends(k, "request") /\ replies' = 0
ServiceAnswers(k) == ~sock[k].ispriv /\ Sends(k, "answer") /\ UNCHANGED replies

PeerFin(k) == /\ Peer(k) /\ sock[k].peer = "open" /\ UNCHANGED replies
              /\ sock' = [sock EXCEPT ![k] = [@ EXCEPT !.peer = "fin"]]
PeerReset(k) == /\ Peer(k) /\ sock[k].peer # "rst" /\ UNCHANGED replies
                /\ sock' = [sock EXCEPT ![k] = [@ EXCEPT !.peer = "rst"]]

Loop == EpollWait \/ \E k \in Socks : ReadHandle(k) \/ WriteHandle(k)
Peers == \E k \in Socks : \/ ServerReplies(k) \/ ServerRequests(k) \/ ServiceAnswers(k)
                          \/ PeerFin(k) \/ PeerReset(k)

Next == Loop \/ Peers

Spec == Init /\ [][Next]_vars
FairSpec == Spec /\ WF_vars(Loop)

----------------------------------------------------------------------------
(* Properties.                                                             *)

TypeOK == /\ tun \in [Tunnels -> Tunnel]
          /\ sock \in [Socks -> Sock]
          /\ waitList \in Seq(Entries)
          /\ batch \subseteq Event
          /\ replies \in 0..2
          /\ fault \in {"none", "null", "freed"}

Services == {k \in Socks : sock[k].alloc /\ ~sock[k].ispriv}

\* Service connections are dialled on demand and never leak: there is at most one, and
\* one wait entry to park it, however many requests come, however each of them ends and
\* whatever becomes of the tunnel it was dialled for.
OneService == Cardinality(Services) <= 1 /\ Len(waitList) <= 1

\* An open service connection is either the remote end of the tunnel or held by a wait
\* entry that is kept alive, never both and never neither: it can be given to the next
\* request, and to nobody else.
ServiceTracked ==
    \A k \in Services :
      LET holders == {w \in Entries : tun[w].remote = k}
      IN  IF tun[0].remote = k THEN holders = {}
          ELSE \E w \in Entries : holders = {w} /\ tun[w].status = "tmptun_is_alive"

\* Handlers of one round never see a socket another handler of the round has freed: an
\* event in the batch belongs to an open socket, and ReadHandle and WriteHandle are all
\* that can happen to it.
NoStaleEvent == \A e \in batch : sock[e.src].alloc

\* Once connected, a request waits in the read buffer only for want of a connection to
\* the service: it is not left behind while one is bound to the tunnel.
BacklogNeedsService ==
    \A k \in Socks :
      sock[k].alloc /\ sock[k].ispriv /\ tun[0].state = "connected_state" /\ sock[k].rbuf # {}
        => tun[0].remote = NULL

\* Request bytes turn round to the server they came from only when the server finishes
\* and there is no service connection to pass them to.
EchoHasCause ==
    [][\A k \in Socks :
         sock[k].ispriv /\ "request" \in sock'[k].wbuf \ sock[k].wbuf
           => tun[0].remote = NULL /\ sock[k].peer # "open"]_vars

\* A reset connection is released, unless the other side keeps sending: that registers it
\* for EPOLLIN again, and the error is read again before the write that would release it.
Reset(k) == sock[k].alloc /\ sock[k].peer = "rst" /\ fault = "none"
OtherSends(k) == \E q \in Socks \ {k} : sock[q].rx # {}
ResetReleased == \A k \in Socks : <>[]Reset(k) => []<>OtherSends(k)

\* A connection dialled for the tunnel is drained by every read: its answer goes on to
\* the server's side at once, as long as there is one.
DialledDrained ==
    \A k \in Services : sock[k].tunnel = 0 /\ tun[0].priv # NULL => sock[k].rbuf = {}

\* "Else, append remote_read_buff to client_write_buff": an answer that the tunnel's
\* service socket has read is not kept in its read buffer for ever while both peers stay.
Withheld(q) == /\ fault = "none" /\ tun[0].remote = q /\ "answer" \in sock[q].rbuf
               /\ \A k \in Socks : sock[k].alloc => sock[k].peer = "open"
               /\ tun[0].priv # NULL
AnswerForwarded == \A q \in Socks : []<>~Withheld(q)
=============================================================================
