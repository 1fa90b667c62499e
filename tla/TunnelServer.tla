---------------------------- MODULE TunnelServer ----------------------------
(***************************************************************************)
(* The socks5 server (socks5.c): one epoll thread, two listening sockets,  *)
(* a pool of tunnels.  A private socket (the mediator behind the private   *)
(* port) is one side of a tunnel, a remote socket (a client of the proxy   *)
(* port) the other.  appList holds the tunnels of private sockets, waitList*)
(* the temporary tunnels that park remote sockets while no tunnel is idle. *)
(*                                                                         *)
(* Buffers are abstracted to "holds bytes or not"; what bytes they hold    *)
(* and how a buffer grows is the subject of Buff.tla.  The kernel's side   *)
(* of a connection (bytes to read, FIN, RST) is part of the record of the  *)
(* socket.  Undefined behaviour (NULL or freed memory dereferenced) ends   *)
(* the behaviour: it is latched in `fault' and no action follows it.       *)
(***************************************************************************)
EXTENDS Naturals, FiniteSets, Sequences, FiniteSetsExt

CONSTANTS
    Socks,       \* blocks of memory a sock_t can occupy; one file descriptor each
    MaxTunnels,  \* bound on tunnel_t blocks (never freed by the code)
    MaxEvents,   \* MAX_EPOLL_EVENTS
    MaxPriv,     \* bound on connections made to the private port
    MaxRmt,      \* bound on connections made to the proxy port
    AuthOn,      \* a user name and a password were given (-u, -k)
    NULL

ASSUME SocksAssumption == NULL \notin Socks
ASSUME FiniteAssumption == IsFiniteSet(Socks)
ASSUME ListenersAssumption == Socks \cap {"listenfd", "rmtfd"} = {}
ASSUME BoundsAssumption == /\ MaxTunnels \in Nat
                           /\ MaxEvents \in Nat \ {0}
                           /\ MaxPriv \in Nat /\ MaxRmt \in Nat
                           /\ AuthOn \in BOOLEAN

VARIABLES
    tun,       \* tunnel_t blocks: state, status, priv_sock, remote_sock
    sock,      \* sock_t blocks, each with its epoll mask and its kernel socket
    appList,   \* tunnels of private sockets, in list order
    waitList,  \* temporary tunnels of parked remote sockets, in list order
    dials,     \* connections still to be made to each listening socket
    batch,     \* events of the current epoll_wait not yet handled
    pc,        \* where the event loop is
    scan,      \* position of waitLinePairing in appList
    fault      \* "null" / "freed": the first bad dereference, if any

server == <<tun, sock, appList, waitList>>
vars == <<tun, sock, appList, waitList, dials, batch, pc, scan, fault>>

Tunnels == 1..MaxTunnels

HandshakeStates == {"open_state", "auth_state", "request_state"}
TunnelState == HandshakeStates \cup {"connected_state", "tunnel_waitting"}
AppStatus == {"tunn_is_idle", "tunn_is_run", "tunn_is_free"}
WaitStatus == {"tmptun_is_wait", "tmptun_is_alive", "tmptun_is_free", "tmptun_is_close"}

Tunnel == [state: TunnelState, status: AppStatus \cup WaitStatus,
           priv: Socks \cup {NULL}, remote: Socks \cup {NULL}]

Sock == [alloc: BOOLEAN, tunnel: Tunnels \cup {0}, ispriv: BOOLEAN,
         half: BOOLEAN,                       \* state = sock_halfclosed
         rbuf: BOOLEAN, wbuf: BOOLEAN,        \* buff_readable(...) > 0
         mask: SUBSET {"in", "out"},          \* the events registered with epoll
         rx: BOOLEAN,                         \* the kernel holds bytes to read
         peer: {"open", "fin", "rst"}]        \* what the peer has done

Listeners == {"listenfd", "rmtfd"}
Event == [src: Socks \cup Listeners, ev: {"in", "out"}]

ZeroTunnel == [state |-> "open_state", status |-> "tunn_is_idle",
               priv |-> NULL, remote |-> NULL]

NoSock == [alloc |-> FALSE, tunnel |-> 0, ispriv |-> FALSE, half |-> FALSE,
           rbuf |-> FALSE, wbuf |-> FALSE, mask |-> {}, rx |-> FALSE, peer |-> "open"]

NewSock(r, ispriv) ==
    [NoSock EXCEPT !.alloc = TRUE, !.tunnel = r, !.ispriv = ispriv, !.mask = {"in"}]

Init == /\ tun = [r \in Tunnels |-> ZeroTunnel]
        /\ sock = [k \in Socks |-> NoSock]
        /\ appList = <<>> /\ waitList = <<>>
        /\ dials = [listenfd |-> MaxPriv, rmtfd |-> MaxRmt]
        /\ batch = {} /\ pc = "epoll_wait" /\ scan = 1 /\ fault = "none"

----------------------------------------------------------------------------
(* Lists: an entry is inserted at the head and never removed; a search     *)
(* returns the first entry, in list order, that the comparison accepts.    *)

Fresh == Len(appList) + Len(waitList) + 1     \* the next tunnel_t malloc returns

First(S) == {i \in S : \A j \in S : i <= j}

\* Mutant: the search for a reclaimable tunnel also accepts an idle one.
AppMatchLoose(status) ==
    {i \in DOMAIN appList : tun[appList[i]].status \in {status, "tunn_is_idle"}}

\* Mutant: a tunnel in use counts as idle.
AppMatchBusy(status) == {i \in DOMAIN appList : tun[appList[i]].status \in {status, "tunn_is_run"}}

AppMatch(status) == {i \in DOMAIN appList : tun[appList[i]].status = status}
AppListFnd(status) == {appList[i] : i \in First(AppMatch(status))}

\* Mutant: wait entries are never recycled.
WaitFreeNever == {}

WaitFree == {i \in DOMAIN waitList : tun[waitList[i]].status = "tmptun_is_free"}

\* waitCompare2: a parked remote, or a kept-alive one that has sent something.
IsPending(t) == \/ t.status = "tmptun_is_wait"
                \/ t.status = "tmptun_is_alive" /\ sock[t.remote].rbuf
WaitPending == {i \in DOMAIN waitList : IsPending(tun[waitList[i]])}

\* The entry getWaitobjFrList returns: the first free one, or a new one.
WaitObj == IF WaitFree # {} THEN {waitList[i] : i \in First(WaitFree)} ELSE {Fresh} \cap Tunnels
Parked(t, k, status) ==
    [t EXCEPT !.state = "tunnel_waitting", !.status = status, !.remote = k]
LetGo(t, status) == [t EXCEPT !.status = status, !.remote = NULL]
WaitListWith(w) == IF WaitFree # {} THEN waitList ELSE <<w>> \o waitList

----------------------------------------------------------------------------
(* Closing sockets.  The operators work on `s', the sockets as the handler *)
(* has changed them so far.                                                *)

Crash(f) == fault' = f /\ UNCHANGED <<tun, sock, waitList>>

\* Mutant: sock_release leaves the pointers of the tunnel as they are.
ForcedKeepsEnds(t, k, ispriv) ==
    [t EXCEPT !.status = IF @ = "tmptun_is_close" THEN "tmptun_is_free"
                         ELSE IF t.remote = k THEN "tunn_is_idle" ELSE @]

\* The tunnel t of a socket k after sock_force_shutdown(k), sock_release included.
ForcedT(t, k, ispriv) ==
    LET closing == t.status = "tmptun_is_close"
    IN  [t EXCEPT !.status = IF closing THEN "tmptun_is_free"
                             ELSE IF t.remote = k THEN "tunn_is_idle" ELSE @,
                  !.priv = IF ispriv THEN NULL ELSE @,
                  !.remote = IF closing \/ @ = k \/ ~ispriv THEN NULL ELSE @]

Released(s, ks) == [k \in Socks |-> IF k \in ks THEN NoSock ELSE s[k]]

\* Mutant: a socket takes the other end of its tunnel with it.
ForceBothEnds(k, s) ==
    LET t == tun[s[k].tunnel]
    IN  /\ tun' = [tun EXCEPT ![s[k].tunnel] = [ForcedT(t, k, s[k].ispriv) EXCEPT !.priv = NULL, !.remote = NULL]]
        /\ sock' = Released(s, {k, t.priv, t.remote})
        /\ UNCHANGED <<waitList, fault>>

SockForceShutdown(k, s) ==
    /\ tun' = [tun EXCEPT ![s[k].tunnel] = ForcedT(@, k, s[k].ispriv)]
    /\ sock' = Released(s, {k})
    /\ UNCHANGED <<waitList, fault>>

\* The tunnel after its private socket p is shut down: the status set to free is
\* set back to idle by the sock_force_shutdown of the remote socket.
PrivShutT(t, p) ==
    LET t1 == [ForcedT(t, p, TRUE) EXCEPT !.status = "tunn_is_free", !.priv = NULL]
    IN  IF t1.remote = NULL THEN t1 ELSE ForcedT(t1, t1.remote, FALSE)

\* Mutant: the tunnel of a wait entry is treated like one of appList.
RemoteShutIdle(t, k) == [ForcedT(t, k, FALSE) EXCEPT !.status = "tunn_is_idle"]

RemoteShutT(t, k) ==
    [ForcedT(t, k, FALSE) EXCEPT
        !.status = IF t.state = "connected_state" THEN "tunn_is_idle" ELSE "tmptun_is_free"]

\* The part of sock_shutdown that runs when nothing is left to write to k.
CloseSock(k, s) ==
    LET r == s[k].tunnel
        t == tun[r]
        tracked == k = t.remote /\ t.state \in {"connected_state", "tunnel_waitting"}
    IN  /\ \/ /\ k = t.priv
              /\ tun' = [tun EXCEPT ![r] = PrivShutT(t, k)]
              /\ sock' = Released(s, {k, ForcedT(t, k, TRUE).remote})
           \/ /\ k # t.priv /\ tracked
              /\ tun' = [tun EXCEPT ![r] = RemoteShutT(t, k)]
              /\ sock' = Released(s, {k})
           \/ /\ k # t.priv /\ ~tracked
              /\ IF t.status = "tmptun_is_close"
                 THEN /\ tun' = [tun EXCEPT ![r] = ForcedT(t, k, s[k].ispriv)]
                      /\ sock' = Released(s, {k})
                 ELSE sock' = s /\ UNCHANGED tun
        /\ UNCHANGED <<waitList, fault>>

SockShutdown(k, s) ==
    LET t == tun[s[k].tunnel]
        bad == t.state = "connected_state" /\ t.priv = NULL
        left == t.state = "connected_state" /\ k = t.remote /\ s[t.priv].rbuf
    IN  \/ bad /\ Crash("null")
        \/ /\ ~bad /\ (s[k].wbuf \/ left)
           /\ sock' = [s EXCEPT ![k] = [@ EXCEPT !.half = TRUE, !.wbuf = TRUE, !.mask = {"out"}]]
           /\ UNCHANGED <<tun, waitList, fault>>
        \/ ~bad /\ ~s[k].wbuf /\ ~left /\ CloseSock(k, [s EXCEPT ![k] = [@ EXCEPT !.half = TRUE]])

TunnelShutdown(k, s) ==
    LET t == tun[s[k].tunnel]
    IN  \/ k \in {t.priv, t.remote} /\ SockShutdown(k, s)
        \/ /\ k \notin {t.priv, t.remote}
           /\ sock' = s /\ UNCHANGED <<tun, waitList, fault>>

----------------------------------------------------------------------------
(* Reading: the handlers of each tunnel state.                             *)

\* The tunnel once a complete greeting, credentials or request has been parsed.
OpenDone(t) == [t EXCEPT !.state = IF AuthOn THEN "auth_state" ELSE "request_state"]
AuthDone(t) == [t EXCEPT !.state = "request_state"]
\* Mutant: the request leaves the tunnel connecting, as tunnel_connect_to_remote did.
RequestConnecting(t) == [t EXCEPT !.state = "connecting_state", !.status = "tunn_is_idle"]
RequestDone(t) == [t EXCEPT !.state = "connected_state", !.status = "tunn_is_idle"]

HandshakeDone(t) == CASE t.state = "open_state" -> OpenDone(t)
                      [] t.state = "auth_state" -> AuthDone(t)
                      [] t.state = "request_state" -> RequestDone(t)

\* One call of tunnel_open_handle, tunnel_auth_handle or tunnel_request_handle:
\* it parses the private socket's bytes whichever socket k the event was for, and a refusal
\* closes k.  After one for a client the private socket stays, with what is left of its
\* bytes; a field that needs none of them can be refused again.
Handshake(k, s) ==
    LET r == s[k].tunnel
        p == tun[r].priv
        Kept(rest) == [s EXCEPT ![p] = [@ EXCEPT !.rbuf = rest]]
        Quiet == UNCHANGED <<waitList, fault>>
    IN  \/ p = NULL /\ Crash("null")
        \/ /\ p # NULL
           /\ \E rest \in BOOLEAN :
                /\ rest => s[p].rbuf
                /\ \/ sock' = Kept(rest) /\ UNCHANGED tun /\ Quiet      \* incomplete
                   \/ SockForceShutdown(k, Kept(rest))                  \* rejected
                   \/ /\ s[p].rbuf                                      \* complete, answered
                      /\ sock' = [s EXCEPT ![p] = [@ EXCEPT !.rbuf = rest, !.wbuf = TRUE,
                                                            !.mask = {"in", "out"}]]
                      /\ tun' = [tun EXCEPT ![r] = HandshakeDone(@)]
                      /\ Quiet

\* Mutant: the other side is registered for EPOLLOUT alone, as in a commented-out line.
RelayWriteOnly(s, from, to) ==
    [[s EXCEPT ![to] = [@ EXCEPT !.wbuf = s[to].wbuf \/ s[from].rbuf, !.mask = {"out"}]]
        EXCEPT ![from] = [@ EXCEPT !.rbuf = FALSE]]

\* buff_concat of one side's bytes to the other side's, buff_clear, epoll_modify.
Relay(s, from, to) ==
    [[s EXCEPT ![to] = [@ EXCEPT !.wbuf = s[to].wbuf \/ s[from].rbuf, !.mask = {"in", "out"}]]
        EXCEPT ![from] = [@ EXCEPT !.rbuf = FALSE]]

TunnelConnected(k, s) ==
    LET t == tun[s[k].tunnel]
        other == IF s[k].ispriv THEN t.remote ELSE t.priv
        mine == IF s[k].ispriv THEN t.priv ELSE t.remote
        Quiet == UNCHANGED <<tun, waitList, fault>>
    IN  \/ other = NULL /\ TunnelShutdown(k, s)
        \/ other # NULL /\ ~s[k].rbuf /\ sock' = s /\ Quiet
        \/ other # NULL /\ s[k].rbuf /\ mine # NULL /\ sock' = Relay(s, mine, other) /\ Quiet
        \/ other # NULL /\ s[k].rbuf /\ mine = NULL /\ Crash("null")

\* Mutant: the request stays in the read buffer (no buff_clear).
WaittingNoClear(k, s) ==
    LET r == s[k].tunnel
        q == tun[r].remote
    IN  /\ IF q = NULL
           THEN sock' = s /\ UNCHANGED tun
           ELSE /\ sock' = [s EXCEPT ![q] = [@ EXCEPT !.wbuf = TRUE, !.mask = {"in", "out"}]]
                /\ tun' = [tun EXCEPT ![r].status = "tmptun_is_close"]
        /\ UNCHANGED <<waitList, fault>>

\* A parked or kept-alive remote socket that sends is answered with a fixed page.
TunnelWaitting(k, s) ==
    LET r == s[k].tunnel
        q == tun[r].remote
    IN  /\ IF q = NULL
           THEN sock' = s /\ UNCHANGED tun
           ELSE /\ sock' = [s EXCEPT ![q] = [@ EXCEPT !.wbuf = TRUE, !.rbuf = FALSE,
                                                    !.mask = {"in", "out"}]]
                /\ tun' = [tun EXCEPT ![r].status = "tmptun_is_close"]
        /\ UNCHANGED <<waitList, fault>>

StateHandle(k, s) ==
    LET state == tun[s[k].tunnel].state
    IN  \/ state \in HandshakeStates /\ Handshake(k, s)
        \/ state = "connected_state" /\ TunnelConnected(k, s)
        \/ state = "tunnel_waitting" /\ TunnelWaitting(k, s)

----------------------------------------------------------------------------
(* The event loop.                                                         *)

Running(where) == fault = "none" /\ pc = where

Consume(src, ev) ==
    LET e == [src |-> src, ev |-> ev]
    IN  /\ Running("dispatch") /\ e \in batch
        /\ batch' = batch \ {e}
        /\ pc' = IF batch = {e} THEN "pairing" ELSE "dispatch"
        /\ UNCHANGED scan

InReady(k) == "in" \in sock[k].mask /\ (sock[k].rx \/ sock[k].peer # "open")
OutReady(k) == "out" \in sock[k].mask /\ ~InReady(k)

\* The events epoll reports for certain, and those it may: a send buffer may be
\* full, a connection may not have arrived yet.
MustReport == {[src |-> k, ev |-> "in"] : k \in {k \in Socks : InReady(k)}}
                \cup {[src |-> k, ev |-> "out"] : k \in {k \in Socks : OutReady(k) /\ sock[k].peer = "rst"}}
MayReport == {[src |-> k, ev |-> "out"] : k \in {k \in Socks : OutReady(k) /\ sock[k].peer # "rst"}}
                \cup {[src |-> l, ev |-> "in"] : l \in {l \in Listeners : dials[l] > 0}}

EpollWait ==
    /\ Running("epoll_wait")
    /\ \E more \in SUBSET MayReport :
         LET ready == MustReport \cup more
         IN  /\ ready # {}
             /\ batch' \in IF Cardinality(ready) <= MaxEvents THEN {ready}
                           ELSE kSubset(MaxEvents, ready)
    /\ pc' = "dispatch"
    /\ UNCHANGED <<tun, sock, appList, waitList, dials, scan, fault>>

\* tunnel_create for a connection to the private port: the first reclaimable tunnel
\* starts over in use, or a new one starts idle.
ReusePriv(r, k) ==
    /\ tun' = [tun EXCEPT ![r] = [@ EXCEPT !.state = "open_state", !.status = "tunn_is_run",
                                          !.priv = k]]
    /\ UNCHANGED appList

NewPriv(r, k) ==
    /\ tun' = [tun EXCEPT ![r] = [ZeroTunnel EXCEPT !.priv = k]]
    /\ appList' = <<r>> \o appList

AcceptPriv ==
    /\ Consume("listenfd", "in")
    /\ \E k \in {k \in Socks : ~sock[k].alloc}, r \in Tunnels :
         /\ \/ r \in AppListFnd("tunn_is_free") /\ ReusePriv(r, k)
            \/ AppMatch("tunn_is_free") = {} /\ r = Fresh /\ NewPriv(r, k)
         /\ sock' = [sock EXCEPT ![k] = NewSock(r, TRUE)]
    /\ dials' = [dials EXCEPT !["listenfd"] = @ - 1]
    /\ UNCHANGED <<waitList, fault>>

\* tunnel_create for a connection to the proxy port: bound to the first idle tunnel,
\* or parked.  Naming the private socket of the idle tunnel in the log dereferences it.
BindRemote(r, k) ==
    \/ tun[r].priv = NULL /\ Crash("null")
    \/ /\ tun[r].priv # NULL
       /\ tun' = [tun EXCEPT ![r] = [@ EXCEPT !.status = "tunn_is_run",
                                             !.state = "connected_state", !.remote = k]]
       /\ sock' = [sock EXCEPT ![k] = NewSock(r, FALSE)]
       /\ UNCHANGED <<waitList, fault>>

ParkRemote(w, k) ==
    /\ tun' = [tun EXCEPT ![w] = Parked(@, k, "tmptun_is_wait")]
    /\ waitList' = WaitListWith(w)
    /\ sock' = [sock EXCEPT ![k] = NewSock(w, FALSE)]
    /\ UNCHANGED fault

AcceptRemote ==
    /\ Consume("rmtfd", "in")
    /\ \E k \in {k \in Socks : ~sock[k].alloc} :
         \/ \E r \in AppListFnd("tunn_is_idle") : BindRemote(r, k)
         \/ AppMatch("tunn_is_idle") = {} /\ \E w \in WaitObj : ParkRemote(w, k)
    /\ dials' = [dials EXCEPT !["rmtfd"] = @ - 1]
    /\ UNCHANGED appList

\* accept fails (no descriptor left): the rest of the batch is dropped.
AcceptFails(l) ==
    /\ Running("dispatch") /\ [src |-> l, ev |-> "in"] \in batch
    /\ \A k \in Socks : sock[k].alloc
    /\ batch' = {} /\ pc' = "pairing"
    /\ UNCHANGED <<tun, sock, appList, waitList, dials, scan, fault>>

\* Mutant: every failed read is taken for EAGAIN.
ReadIgnoresError(k) ==
    /\ Consume(k, "in") /\ sock[k].alloc
    /\ \/ sock[k].rx /\ StateHandle(k, [sock EXCEPT ![k] = [@ EXCEPT !.rx = FALSE, !.rbuf = TRUE]])
       \/ ~sock[k].rx /\ sock[k].peer # "fin" /\ StateHandle(k, sock)
       \/ ~sock[k].rx /\ sock[k].peer = "fin" /\ SockShutdown(k, sock)
    /\ UNCHANGED <<appList, dials>>

ReadHandle(k) ==
    /\ Consume(k, "in") /\ sock[k].alloc
    /\ \/ sock[k].rx /\ StateHandle(k, [sock EXCEPT ![k] = [@ EXCEPT !.rx = FALSE, !.rbuf = TRUE]])
       \/ ~sock[k].rx /\ sock[k].peer = "open" /\ StateHandle(k, sock)     \* EAGAIN
       \/ ~sock[k].rx /\ sock[k].peer # "open" /\ SockShutdown(k, sock)    \* FIN, error
    /\ UNCHANGED <<appList, dials>>

\* tunnel_switch_handle: once a remote socket's answer is flushed its tunnel is idle
\* again and the remote socket is parked, kept alive.
TunnelSwitch(k, s) ==
    LET r == s[k].tunnel
        flushed == ~s[k].wbuf
        Quiet == UNCHANGED fault
    IN  \/ /\ ~flushed
           /\ sock' = [s EXCEPT ![k] = [@ EXCEPT !.mask = {"in", "out"}]] /\ UNCHANGED <<tun, waitList>> /\ Quiet
        \/ /\ flushed /\ k # tun[r].remote
           /\ sock' = [s EXCEPT ![k] = [@ EXCEPT !.mask = {"in"}]] /\ UNCHANGED <<tun, waitList>> /\ Quiet
        \/ flushed /\ k = tun[r].remote /\ tun[r].priv = NULL /\ Crash("null")
        \/ /\ flushed /\ k = tun[r].remote /\ tun[r].priv # NULL
           /\ \E w \in WaitObj :
                /\ tun' = [[tun EXCEPT ![r] = LetGo(@, "tunn_is_idle")]
                             EXCEPT ![w] = Parked(@, k, "tmptun_is_alive")]
                /\ waitList' = WaitListWith(w)
                /\ sock' = [s EXCEPT ![k] = [@ EXCEPT !.mask = {"in"}, !.tunnel = w]]
           /\ Quiet

\* Mutant: a remote that was answered with the fixed page is closed once it is flushed.
AfterWriteCloses(k, s) ==
    IF tun[s[k].tunnel].status = "tmptun_is_close" /\ ~s[k].wbuf
    THEN SockForceShutdown(k, s)
    ELSE /\ sock' = [s EXCEPT ![k] = [@ EXCEPT !.mask = IF s[k].wbuf THEN {"in", "out"} ELSE {"in"}]]
         /\ UNCHANGED <<tun, waitList, fault>>

\* The end of tunnel_write_handle, with s[k].wbuf what is left to write.
AfterWrite(k, s) ==
    LET run == tun[s[k].tunnel].status = "tunn_is_run"
    IN  \/ run /\ TunnelSwitch(k, s)
        \/ /\ ~run
           /\ sock' = [s EXCEPT ![k] = [@ EXCEPT !.mask = IF s[k].wbuf THEN {"in", "out"} ELSE {"in"}]]
           /\ UNCHANGED <<tun, waitList, fault>>

WriteHandle(k) ==
    /\ Consume(k, "out") /\ sock[k].alloc
    /\ \/ sock[k].wbuf /\ sock[k].peer = "rst" /\ SockForceShutdown(k, sock)
       \/ /\ sock[k].wbuf /\ sock[k].peer # "rst"
          /\ \E rest \in BOOLEAN : AfterWrite(k, [sock EXCEPT ![k] = [@ EXCEPT !.wbuf = rest]])
       \/ ~sock[k].wbuf /\ sock[k].half /\ SockForceShutdown(k, sock)
       \/ ~sock[k].wbuf /\ ~sock[k].half /\ AfterWrite(k, sock)
    /\ UNCHANGED <<appList, dials>>

\* An event of this batch for a socket an earlier event of the batch released.
StaleEvent(k) ==
    /\ \E ev \in {"in", "out"} : Consume(k, ev)
    /\ ~sock[k].alloc
    /\ Crash("freed")
    /\ UNCHANGED <<appList, dials>>

\* Mutant: the walk stops one entry short of the end of the list.
AtIdleShort == scan < Len(appList) /\ tun[appList[scan]].status = "tunn_is_idle"

\* waitLinePairing walks appList: every idle tunnel takes the first pending remote,
\* and the walk ends with the list or when no remote is pending.
AtIdle == scan <= Len(appList) /\ tun[appList[scan]].status = "tunn_is_idle"

PairSkip ==
    /\ Running("pairing") /\ scan <= Len(appList) /\ ~AtIdle
    /\ scan' = scan + 1
    /\ UNCHANGED <<tun, sock, appList, waitList, dials, batch, pc, fault>>

PairBind ==
    /\ Running("pairing") /\ AtIdle
    /\ \E i \in First(WaitPending) :
         LET r == appList[scan]
             w == waitList[i]
             k == tun[w].remote
             p == tun[r].priv
         IN  /\ tun' = [[tun EXCEPT ![w] = LetGo(@, "tmptun_is_free")]
                          EXCEPT ![r] = [@ EXCEPT !.status = "tunn_is_run", !.remote = k]]
             /\ sock' = IF p # NULL /\ sock[k].rbuf
                        THEN [Relay(sock, k, p) EXCEPT ![k] = [@ EXCEPT !.tunnel = r]]
                        ELSE [sock EXCEPT ![k] = [@ EXCEPT !.tunnel = r]]
    /\ scan' = scan + 1
    /\ UNCHANGED <<appList, waitList, dials, batch, pc, fault>>

PairingDone ==
    /\ Running("pairing")
    /\ scan > Len(appList) \/ (AtIdle /\ WaitPending = {})
    /\ pc' = "epoll_wait" /\ scan' = 1
    /\ UNCHANGED <<tun, sock, appList, waitList, dials, batch, fault>>

----------------------------------------------------------------------------
(* The peers send, finish or reset whenever they like.  Only epoll_wait    *)
(* and the handlers of k's own events look at what k's peer has done, so a *)
(* peer is given its turn while one of these is still to come.             *)

Peer(k) == /\ fault = "none" /\ sock[k].alloc
           /\ pc = "epoll_wait" \/ \E e \in batch : e.src = k
           /\ UNCHANGED <<tun, appList, waitList, dials, batch, pc, scan, fault>>

PeerSend(k) == Peer(k) /\ sock[k].peer = "open" /\ ~sock[k].rx /\ sock' = [sock EXCEPT ![k] = [@ EXCEPT !.rx = TRUE]]
PeerFin(k) == Peer(k) /\ sock[k].peer = "open" /\ sock' = [sock EXCEPT ![k] = [@ EXCEPT !.peer = "fin"]]
PeerReset(k) == Peer(k) /\ sock[k].peer # "rst" /\ sock' = [sock EXCEPT ![k] = [@ EXCEPT !.peer = "rst"]]

Loop == \/ EpollWait \/ AcceptPriv \/ AcceptRemote
        \/ PairSkip \/ PairBind \/ PairingDone
        \/ \E l \in Listeners : AcceptFails(l)
        \/ \E k \in Socks : ReadHandle(k) \/ WriteHandle(k) \/ StaleEvent(k)

Next == Loop \/ \E k \in Socks : PeerSend(k) \/ PeerFin(k) \/ PeerReset(k)

Spec == Init /\ [][Next]_vars

\* The event loop never stops running; peers and clients owe nothing.
FairSpec == Spec /\ WF_vars(Loop)

----------------------------------------------------------------------------
(* Properties.                                                             *)

TypeOK == /\ tun \in [Tunnels -> Tunnel]
          /\ sock \in [Socks -> Sock]
          /\ appList \in Seq(Tunnels) /\ waitList \in Seq(Tunnels)
          /\ dials \in [Listeners -> Nat]
          /\ batch \subseteq Event
          /\ pc \in {"epoll_wait", "dispatch", "pairing"}
          /\ scan \in Nat
          /\ fault \in {"none", "null", "freed"}

\* No tunnel keeps a pointer to a released sock_t, and the two ends of a tunnel point
\* back at it: what sock_release, tunnel_switch_handle and waitLinePairing keep up
\* while they move a remote socket between a tunnel and a wait entry.
NoDanglingSock ==
    \A r \in Tunnels :
      LET p == tun[r].priv  q == tun[r].remote
      IN  /\ p # NULL => sock[p].alloc /\ sock[p].ispriv /\ sock[p].tunnel = r
          /\ q # NULL => sock[q].alloc /\ ~sock[q].ispriv /\ sock[q].tunnel = r

\* A wait entry holds a remote socket exactly until it is marked free: a free entry
\* may be handed to another remote, and waitCompare2 dereferences the others.
WaitEntriesOwnRemote ==
    \A i \in DOMAIN waitList :
      LET t == tun[waitList[i]]
      IN  /\ t.state = "tunnel_waitting" /\ t.priv = NULL /\ t.status \in WaitStatus
          /\ t.remote = NULL <=> t.status = "tmptun_is_free"

\* A parked client has no request left in its read buffer: what it sends is taken from
\* it by the handler that reads it.  So waitCompare2 never finds a kept-alive client that
\* has something to ask, and a client is paired at most once.
ParkedDrained ==
    \A i \in DOMAIN waitList :
      LET q == tun[waitList[i]].remote IN q # NULL => ~sock[q].rbuf

\* Every private socket stays reachable from its tunnel, in appList, for as long as
\* it is open: it is never lost to another connection that reuses the tunnel.
PrivReachable ==
    \A k \in Socks :
      sock[k].alloc /\ sock[k].ispriv =>
        \E i \in DOMAIN appList : appList[i] = sock[k].tunnel /\ tun[appList[i]].priv = k

\* Level-triggered epoll only flushes what it is asked to: a socket with bytes to
\* write is registered for EPOLLOUT; one not registered for EPOLLIN is half closed
\* and still has bytes to write, so that its handler will run again.
EpollArmed ==
    \A k \in Socks :
      sock[k].alloc => /\ sock[k].wbuf => "out" \in sock[k].mask
                       /\ "in" \in sock[k].mask \/ (sock[k].half /\ sock[k].wbuf)

\* Wait entries are recycled: there are never more of them than remote sockets can be
\* open at once, however many connections the server has served.
WaitListBounded == Len(waitList) <= Cardinality(Socks)

\* Back in epoll_wait, no idle tunnel is left beside a remote it could serve: one walk
\* of waitLinePairing is enough.
NoIdleWhilePending ==
    pc = "epoll_wait" /\ fault = "none" =>
      ~ \E i \in DOMAIN appList, j \in DOMAIN waitList :
          /\ tun[appList[i]].status = "tunn_is_idle"
          /\ \/ tun[waitList[j]].status = "tmptun_is_wait"
             \/ tun[waitList[j]].status = "tmptun_is_alive" /\ sock[tun[waitList[j]].remote].rbuf

\* The server begins to close a connection whose peer is still there - it frees the socket
\* or half-closes it - only with a cause: its tunnel is in a handshake,
\* where a message can be rejected; it is a private socket that was read while no remote
\* socket was bound to its tunnel; or it is a remote socket and the private socket of its
\* tunnel is closed in the same step.
BeginsClosing(k) == sock[k].alloc /\ ~sock[k].half /\ (~sock'[k].alloc \/ sock'[k].half)

CloseCause(k) ==
    LET t == tun[sock[k].tunnel]
    IN  \/ t.state \in HandshakeStates
        \/ sock[k].ispriv /\ t.remote = NULL
        \/ ~sock[k].ispriv /\ t.priv # NULL /\ ~sock'[t.priv].alloc

ReleaseHasCause == [][\A k \in Socks : sock[k].peer = "open" /\ BeginsClosing(k) => CloseCause(k)]_vars

\* A handler frees a socket that still has an event in the batch, which will then be
\* dispatched to freed memory, in one case only: the private socket is shut down and
\* takes the client of its tunnel with it.  No private socket is ever freed that way.
StaleOnlyClient ==
    [][\A k \in Socks :
         LET p == tun[sock[k].tunnel].priv
         IN  (\E e \in batch' : e.src = k) /\ sock[k].alloc /\ ~sock'[k].alloc =>
               ~sock[k].ispriv /\ p # NULL /\ sock[p].alloc /\ ~sock'[p].alloc]_vars

\* A connection whose peer reset it is released, whatever its tunnel is doing, but for
\* three ways to starve: the other side keeps sending, and relaying its bytes registers
\* the socket for EPOLLIN again, where the error is read before the write that would
\* release it; it is a client whose tunnel is in a handshake or serves another client,
\* and no shutdown applies to it; no descriptor is left and accept fails in every round.
Reset(k) == sock[k].alloc /\ sock[k].peer = "rst" /\ fault = "none"
OtherSends(k) ==
    \E q \in Socks : sock[q].rx /\ sock[q].ispriv # sock[k].ispriv /\ sock[q].tunnel = sock[k].tunnel
Ignored(k) == /\ sock[k].alloc /\ ~sock[k].ispriv
              /\ LET t == tun[sock[k].tunnel] IN t.state \in HandshakeStates \/ t.remote # k
Exhausted == (\A k \in Socks : sock[k].alloc) /\ \E l \in Listeners : dials[l] > 0

ResetReleased == \A k \in Socks : <>[]Reset(k) => []<>(OtherSends(k) \/ Ignored(k) \/ Exhausted)

(* What the comments and the README say, and the code does not do.         *)

\* "idle established tunnels are paired with pending requests": the private connection of
\* an idle tunnel, which the next client is given, is there.
IdleEstablished ==
    pc = "epoll_wait" /\ fault = "none" =>
      \A i \in DOMAIN appList : tun[appList[i]].status = "tunn_is_idle" => tun[appList[i]].priv # NULL

\* "is kept alive, waiting to be paired with the next request": a client that was served
\* and kept is not sent away with the fixed page.
KeptAliveServed ==
    [][\A i \in DOMAIN waitList :
         tun[waitList[i]].status = "tmptun_is_alive" => tun'[waitList[i]].status # "tmptun_is_close"]_vars
=============================================================================
