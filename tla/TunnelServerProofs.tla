------------------------- MODULE TunnelServerProofs -------------------------
(***************************************************************************)
(* Proofs about TunnelServer for every number of sockets, tunnels,         *)
(* connections and epoll events.  First its types and the pointers between *)
(* tunnels and sockets.  Then the pool of tunnels and its two lists.  Then *)
(* the loop: no socket is left unwatched, one walk of waitLinePairing      *)
(* leaves no idle tunnel beside a client it could serve, which socket can  *)
(* be freed under a pending event, and that nothing is closed without a    *)
(* cause.                                                                  *)
(***************************************************************************)
EXTENDS TunnelServer, FiniteSetTheorems, TLAPS

USE SocksAssumption, BoundsAssumption

\* An open socket belongs to a tunnel.
SockInTunnel == \A k \in Socks : sock[k].alloc => sock[k].tunnel \in Tunnels

\* The part of the state the handlers work on ...
HeapInv == /\ tun \in [Tunnels -> Tunnel]
           /\ sock \in [Socks -> Sock]
           /\ SockInTunnel
           /\ NoDanglingSock

\* ... and the part the event loop keeps.
ListsOK == waitList \in Seq(Tunnels) /\ fault \in {"none", "null", "freed"}

\* A listening socket is only reported while a connection waits on it.
LoopOK == /\ appList \in Seq(Tunnels)
          /\ dials \in [Listeners -> Nat]
          /\ batch \subseteq Event
          /\ \A l \in Listeners : [src |-> l, ev |-> "in"] \in batch => dials[l] > 0
          /\ pc \in {"epoll_wait", "dispatch", "pairing"}
          /\ scan \in Nat \ {0}

IInv == HeapInv /\ ListsOK /\ LoopOK

\* s is sock as far as ownership goes: a handler that has changed buffers only.
SameOwners(s) ==
    /\ s \in [Socks -> Sock]
    /\ \A j \in Socks : /\ s[j].alloc = sock[j].alloc
                        /\ s[j].ispriv = sock[j].ispriv
                        /\ s[j].tunnel = sock[j].tunnel

\* Buffers, masks and states may change freely while the pointers stay.
LEMMA KeepPointers ==
    ASSUME HeapInv, SameOwners(sock'), tun' \in [Tunnels -> Tunnel],
           \A r \in Tunnels : tun'[r].priv = tun[r].priv /\ tun'[r].remote = tun[r].remote
    PROVE  HeapInv'
  BY DEF HeapInv, SameOwners, SockInTunnel, NoDanglingSock, Tunnel

\* Releasing the sockets ks is safe when the tunnels drop their pointers to them and
\* gain none.
LEMMA ReleaseKeeps ==
    ASSUME HeapInv, NEW s, SameOwners(s), NEW ks, sock' = Released(s, ks),
           tun' \in [Tunnels -> Tunnel],
           \A r \in Tunnels : /\ tun'[r].priv = NULL
                                 \/ (tun'[r].priv = tun[r].priv /\ tun[r].priv \notin ks)
                              /\ tun'[r].remote = NULL
                                 \/ (tun'[r].remote = tun[r].remote /\ tun[r].remote \notin ks)
    PROVE  HeapInv'
<1>1. sock' \in [Socks -> Sock]
  BY DEF Released, SameOwners, NoSock, Sock
<1>2. \A j \in Socks : /\ j \in ks => ~sock'[j].alloc
                       /\ j \notin ks => sock'[j].alloc = sock[j].alloc /\ sock'[j].ispriv = sock[j].ispriv
                                          /\ sock'[j].tunnel = sock[j].tunnel
  BY DEF Released, SameOwners, NoSock
<1>3. SockInTunnel'
  BY <1>2 DEF SockInTunnel, HeapInv
<1>4. NoDanglingSock'
  BY <1>2 DEF NoDanglingSock, HeapInv, Tunnel
<1> QED BY <1>1, <1>3, <1>4 DEF HeapInv

\* Only the tunnel of a socket points to it.
LEMMA OneOwner ==
    ASSUME HeapInv, NEW k \in Socks, NEW r \in Tunnels, tun[r].priv = k \/ tun[r].remote = k
    PROVE  sock[k].alloc /\ sock[k].tunnel = r /\ (sock[k].ispriv <=> tun[r].priv = k)
  BY DEF HeapInv, NoDanglingSock

LEMMA ForcedType ==
    ASSUME NEW t \in Tunnel, NEW k, NEW ispriv \in BOOLEAN
    PROVE  /\ ForcedT(t, k, ispriv) \in Tunnel
           /\ ForcedT(t, k, ispriv).priv = IF ispriv THEN NULL ELSE t.priv
           /\ ForcedT(t, k, ispriv).remote \in {NULL, t.remote}
           /\ t.remote = k \/ ~ispriv => ForcedT(t, k, ispriv).remote = NULL
           /\ ForcedT(t, k, ispriv).state = t.state
  BY DEF ForcedT, Tunnel, AppStatus, WaitStatus

\* sock_force_shutdown leaves no pointer to the socket it frees.
LEMMA ForceKeeps ==
    ASSUME HeapInv, NEW k \in Socks, sock[k].alloc, NEW s, SameOwners(s), SockForceShutdown(k, s)
    PROVE  HeapInv'
<1> DEFINE r == sock[k].tunnel
<1>1. r \in Tunnels /\ s[k].tunnel = r /\ s[k].ispriv = sock[k].ispriv /\ sock[k].ispriv \in BOOLEAN
  BY DEF HeapInv, SockInTunnel, SameOwners, Sock
<1>2. tun' = [tun EXCEPT ![r] = ForcedT(tun[r], k, sock[k].ispriv)] /\ sock' = Released(s, {k})
  BY <1>1 DEF SockForceShutdown
<1>3. tun[r] \in Tunnel /\ tun \in [Tunnels -> Tunnel]
  BY <1>1 DEF HeapInv
<1>4. tun' \in [Tunnels -> Tunnel]
  BY <1>1, <1>2, <1>3, ForcedType
<1>5. ASSUME NEW q \in Tunnels
      PROVE  /\ tun'[q].priv = NULL \/ (tun'[q].priv = tun[q].priv /\ tun[q].priv # k)
             /\ tun'[q].remote = NULL \/ (tun'[q].remote = tun[q].remote /\ tun[q].remote # k)
  <2>1. CASE q # r
    BY <2>1, <1>2, <1>3, OneOwner
  <2>2. CASE q = r
    <3>1. tun'[q] = ForcedT(tun[r], k, sock[k].ispriv)
      BY <2>2, <1>1, <1>2, <1>3
    <3>2. tun[r].priv = k => sock[k].ispriv
      BY <1>1, OneOwner
    <3>3. tun'[q].priv = IF sock[k].ispriv THEN NULL ELSE tun[q].priv
      BY <3>1, <2>2, <1>1, <1>3, ForcedType
    <3>4. tun'[q].remote \in {NULL, tun[q].remote} /\ (tun[q].remote = k => tun'[q].remote = NULL)
      BY <3>1, <2>2, <1>1, <1>3, ForcedType
    <3> QED BY <3>2, <3>3, <3>4, <2>2
  <2> QED BY <2>1, <2>2
<1>6. \A q \in Tunnels :
        /\ tun'[q].priv = NULL \/ (tun'[q].priv = tun[q].priv /\ tun[q].priv \notin {k})
        /\ tun'[q].remote = NULL \/ (tun'[q].remote = tun[q].remote /\ tun[q].remote \notin {k})
  BY <1>5
<1> QED BY <1>2, <1>4, <1>6, ReleaseKeeps

\* The tunnel after the shutdown of its private socket has no socket left.
LEMMA PrivShutType ==
    ASSUME NEW t \in Tunnel, NEW p
    PROVE  /\ PrivShutT(t, p) \in Tunnel
           /\ PrivShutT(t, p).priv = NULL /\ PrivShutT(t, p).remote = NULL
           /\ PrivShutT(t, p).state = t.state
<1> DEFINE t1 == [ForcedT(t, p, TRUE) EXCEPT !.status = "tunn_is_free", !.priv = NULL]
<1>1. ForcedT(t, p, TRUE) \in Tunnel /\ ForcedT(t, p, TRUE).state = t.state
  BY ForcedType
<1>2. t1 \in Tunnel /\ t1.priv = NULL /\ t1.state = t.state
  BY <1>1 DEF Tunnel, AppStatus
<1>3. PrivShutT(t, p) = IF t1.remote = NULL THEN t1 ELSE ForcedT(t1, t1.remote, FALSE)
  BY DEF PrivShutT
<1> HIDE DEF t1
<1>4. /\ ForcedT(t1, t1.remote, FALSE) \in Tunnel
      /\ ForcedT(t1, t1.remote, FALSE).priv = NULL
      /\ ForcedT(t1, t1.remote, FALSE).remote = NULL
      /\ ForcedT(t1, t1.remote, FALSE).state = t.state
  BY <1>2, ForcedType
<1> QED BY <1>2, <1>3, <1>4

LEMMA RemoteShutType ==
    ASSUME NEW t \in Tunnel, NEW k
    PROVE  /\ RemoteShutT(t, k) \in Tunnel
           /\ RemoteShutT(t, k).priv = t.priv /\ RemoteShutT(t, k).remote = NULL
           /\ RemoteShutT(t, k).state = t.state
<1>1. ForcedT(t, k, FALSE) \in Tunnel /\ ForcedT(t, k, FALSE).remote = NULL
      /\ ForcedT(t, k, FALSE).priv = t.priv /\ ForcedT(t, k, FALSE).state = t.state
  BY ForcedType
<1> QED BY <1>1 DEF RemoteShutT, Tunnel, AppStatus, WaitStatus

\* sock_shutdown with nothing left to write.
LEMMA CloseKeeps ==
    ASSUME HeapInv, NEW k \in Socks, sock[k].alloc, NEW s, SameOwners(s), CloseSock(k, s)
    PROVE  HeapInv'
<1> DEFINE r == sock[k].tunnel
           t == tun[r]
<1>1. r \in Tunnels /\ s[k].tunnel = r /\ s[k].ispriv = sock[k].ispriv /\ sock[k].ispriv \in BOOLEAN
  BY DEF HeapInv, SockInTunnel, SameOwners, Sock
<1>2. t \in Tunnel /\ tun \in [Tunnels -> Tunnel]
  BY <1>1 DEF HeapInv
<1>3. CASE /\ k = t.priv
           /\ tun' = [tun EXCEPT ![r] = PrivShutT(t, k)]
           /\ sock' = Released(s, {k, ForcedT(t, k, TRUE).remote})
  <2>1. tun' \in [Tunnels -> Tunnel]
    BY <1>1, <1>2, <1>3, PrivShutType
  <2>2. tun'[r].priv = NULL /\ tun'[r].remote = NULL
    BY <1>1, <1>2, <1>3, PrivShutType
  <2>3. ForcedT(t, k, TRUE).remote \in {NULL, t.remote}
    BY <1>2, ForcedType
  <2>4. \A q \in Tunnels \ {r} : /\ tun'[q] = tun[q]
                                 /\ tun[q].priv # NULL => tun[q].priv \notin {k, t.remote}
                                 /\ tun[q].remote # NULL => tun[q].remote \notin {k, t.remote}
    BY <1>1, <1>2, <1>3, OneOwner DEF Tunnel
  <2>5. ASSUME NEW q \in Tunnels
        PROVE  /\ tun'[q].priv = NULL \/ (tun'[q].priv = tun[q].priv /\ tun[q].priv \notin {k, ForcedT(t, k, TRUE).remote})
               /\ tun'[q].remote = NULL \/ (tun'[q].remote = tun[q].remote /\ tun[q].remote \notin {k, ForcedT(t, k, TRUE).remote})
    BY <2>2, <2>3, <2>4
  <2> QED BY <1>3, <2>1, <2>5, ReleaseKeeps
<1>4. CASE /\ k # t.priv /\ k = t.remote
           /\ tun' = [tun EXCEPT ![r] = RemoteShutT(t, k)]
           /\ sock' = Released(s, {k})
  <2>1. tun' \in [Tunnels -> Tunnel]
    BY <1>1, <1>2, <1>4, RemoteShutType
  <2>2. tun'[r].priv = t.priv /\ tun'[r].remote = NULL
    BY <1>1, <1>2, <1>4, RemoteShutType
  <2>3. \A q \in Tunnels \ {r} : tun'[q] = tun[q] /\ tun[q].priv # k /\ tun[q].remote # k
    BY <1>1, <1>2, <1>4, OneOwner DEF Tunnel
  <2>4. ASSUME NEW q \in Tunnels
        PROVE  /\ tun'[q].priv = NULL \/ (tun'[q].priv = tun[q].priv /\ tun[q].priv \notin {k})
               /\ tun'[q].remote = NULL \/ (tun'[q].remote = tun[q].remote /\ tun[q].remote \notin {k})
    BY <1>4, <2>2, <2>3
  <2> QED BY <1>4, <2>1, <2>4, ReleaseKeeps
<1>5. CASE tun' = [tun EXCEPT ![r] = ForcedT(t, k, s[k].ispriv)] /\ sock' = Released(s, {k})
  <2>1. tun' \in [Tunnels -> Tunnel]
    BY <1>1, <1>2, <1>5, ForcedType
  <2>2. \A q \in Tunnels \ {r} : tun'[q] = tun[q] /\ tun[q].priv # k /\ tun[q].remote # k
    BY <1>1, <1>2, <1>5, OneOwner DEF Tunnel
  <2>3. tun'[r] = ForcedT(t, k, sock[k].ispriv) /\ (t.priv = k => sock[k].ispriv)
    BY <1>1, <1>2, <1>5, OneOwner
  <2>4. /\ tun'[r].priv = NULL \/ (tun'[r].priv = t.priv /\ t.priv # k)
        /\ tun'[r].remote = NULL \/ (tun'[r].remote = t.remote /\ t.remote # k)
    BY <1>1, <1>2, <2>3, ForcedType
  <2>5. ASSUME NEW q \in Tunnels
        PROVE  /\ tun'[q].priv = NULL \/ (tun'[q].priv = tun[q].priv /\ tun[q].priv \notin {k})
               /\ tun'[q].remote = NULL \/ (tun'[q].remote = tun[q].remote /\ tun[q].remote \notin {k})
    BY <2>2, <2>4
  <2> QED BY <1>5, <2>1, <2>5, ReleaseKeeps
<1>6. CASE sock' = s /\ tun' = tun
  BY <1>2, <1>6, KeepPointers
<1> QED BY <1>1, <1>3, <1>4, <1>5, <1>6 DEF CloseSock

----------------------------------------------------------------------------
(* The handlers.  Each lemma: a call on an open socket keeps HeapInv and   *)
(* ListsOK, whatever the handler has done to the buffers before.           *)

(* Writing buffers, masks and flags of a socket leaves its owner alone.    *)

LEMMA PointOwners ==
    ASSUME NEW s, SameOwners(s), NEW k \in Socks, NEW b \in Sock,
           b.alloc = s[k].alloc, b.ispriv = s[k].ispriv, b.tunnel = s[k].tunnel
    PROVE  SameOwners([s EXCEPT ![k] = b])
  BY DEF SameOwners
LEMMA HalfOwners ==
    ASSUME NEW s, SameOwners(s), NEW k \in Socks
    PROVE  SameOwners([s EXCEPT ![k] = [@ EXCEPT !.half = TRUE, !.wbuf = TRUE, !.mask = {"out"}]])
<1> DEFINE b == [s[k] EXCEPT !.half = TRUE, !.wbuf = TRUE, !.mask = {"out"}]
<1>1. s[k] \in Sock
  BY DEF SameOwners
<1>2. b \in Sock /\ b.alloc = s[k].alloc /\ b.ispriv = s[k].ispriv /\ b.tunnel = s[k].tunnel
  BY <1>1 DEF Sock
<1> HIDE DEF b
<1>3. SameOwners([s EXCEPT ![k] = b])
  BY <1>2, PointOwners
<1> QED BY <1>3 DEF b
LEMMA RbufOwners ==
    ASSUME NEW s, SameOwners(s), NEW k \in Socks, NEW x \in BOOLEAN
    PROVE  SameOwners([s EXCEPT ![k] = [@ EXCEPT !.rbuf = x]])
<1> DEFINE b == [s[k] EXCEPT !.rbuf = x]
<1>1. s[k] \in Sock
  BY DEF SameOwners
<1>2. b \in Sock /\ b.alloc = s[k].alloc /\ b.ispriv = s[k].ispriv /\ b.tunnel = s[k].tunnel
  BY <1>1 DEF Sock
<1> HIDE DEF b
<1>3. SameOwners([s EXCEPT ![k] = b])
  BY <1>2, PointOwners
<1> QED BY <1>3 DEF b

LEMMA ReplyOwners ==
    ASSUME NEW s, SameOwners(s), NEW p \in Socks, NEW rest \in BOOLEAN
    PROVE  SameOwners([s EXCEPT ![p] = [@ EXCEPT !.rbuf = rest, !.wbuf = TRUE, !.mask = {"in", "out"}]])
<1> DEFINE b == [s[p] EXCEPT !.rbuf = rest, !.wbuf = TRUE, !.mask = {"in", "out"}]
<1>1. s[p] \in Sock
  BY DEF SameOwners
<1>2. b \in Sock /\ b.alloc = s[p].alloc /\ b.ispriv = s[p].ispriv /\ b.tunnel = s[p].tunnel
  BY <1>1 DEF Sock
<1> HIDE DEF b
<1>3. SameOwners([s EXCEPT ![p] = b])
  BY <1>2, PointOwners
<1> QED BY <1>3 DEF b

LEMMA RelayOwners ==
    ASSUME NEW s, SameOwners(s), NEW from, NEW to \in Socks
    PROVE  SameOwners(Relay(s, from, to))
<1> DEFINE b == [s[to] EXCEPT !.wbuf = s[to].wbuf \/ s[from].rbuf, !.mask = {"in", "out"}]
           s1 == [s EXCEPT ![to] = b]
<1>1. s[to] \in Sock
  BY DEF SameOwners
<1>2. b \in Sock /\ b.alloc = s[to].alloc /\ b.ispriv = s[to].ispriv /\ b.tunnel = s[to].tunnel
  <2>1. (s[to].wbuf \/ s[from].rbuf) \in BOOLEAN
    OBVIOUS
  <2> QED BY <1>1, <2>1 DEF Sock
<1>3. Relay(s, from, to) = [s1 EXCEPT ![from] = [@ EXCEPT !.rbuf = FALSE]]
  BY DEF Relay
<1> HIDE DEF b
<1>4. SameOwners(s1)
  BY <1>2, PointOwners
<1> HIDE DEF s1
<1>5. CASE from \in Socks
  <2> DEFINE c == [s1[from] EXCEPT !.rbuf = FALSE]
  <2>1. s1[from] \in Sock
    BY <1>4, <1>5 DEF SameOwners
  <2>2. c \in Sock /\ c.alloc = s1[from].alloc /\ c.ispriv = s1[from].ispriv
        /\ c.tunnel = s1[from].tunnel
    BY <2>1 DEF Sock
  <2> HIDE DEF c
  <2>3. SameOwners([s1 EXCEPT ![from] = c])
    BY <1>4, <1>5, <2>2, PointOwners
  <2> QED BY <1>3, <2>3 DEF c
<1>6. CASE from \notin Socks
  <2>1. [s1 EXCEPT ![from] = [@ EXCEPT !.rbuf = FALSE]] = s1
    BY <1>4, <1>6 DEF SameOwners
  <2> QED BY <2>1, <1>3, <1>4
<1> QED BY <1>5, <1>6

LEMMA MaskOwners ==
    ASSUME NEW s, SameOwners(s), NEW k \in Socks, NEW m \in SUBSET {"in", "out"}
    PROVE  SameOwners([s EXCEPT ![k] = [@ EXCEPT !.mask = m]])
<1> DEFINE b == [s[k] EXCEPT !.mask = m]
<1>1. s[k] \in Sock
  BY DEF SameOwners
<1>2. b \in Sock /\ b.alloc = s[k].alloc /\ b.ispriv = s[k].ispriv /\ b.tunnel = s[k].tunnel
  BY <1>1 DEF Sock
<1> HIDE DEF b
<1>3. SameOwners([s EXCEPT ![k] = b])
  BY <1>2, PointOwners
<1> QED BY <1>3 DEF b

LEMMA PageOwners ==
    ASSUME NEW s, SameOwners(s), NEW p \in Socks
    PROVE  SameOwners([s EXCEPT ![p] = [@ EXCEPT !.wbuf = TRUE, !.rbuf = FALSE, !.mask = {"in", "out"}]])
<1> DEFINE b == [s[p] EXCEPT !.wbuf = TRUE, !.rbuf = FALSE, !.mask = {"in", "out"}]
<1>1. s[p] \in Sock
  BY DEF SameOwners
<1>2. b \in Sock /\ b.alloc = s[p].alloc /\ b.ispriv = s[p].ispriv /\ b.tunnel = s[p].tunnel
  BY <1>1 DEF Sock
<1> HIDE DEF b
<1>3. SameOwners([s EXCEPT ![p] = b])
  BY <1>2, PointOwners
<1> QED BY <1>3 DEF b

LEMMA SockShutdownKeeps ==
    ASSUME HeapInv, ListsOK, NEW k \in Socks, sock[k].alloc, NEW s, SameOwners(s),
           SockShutdown(k, s)
    PROVE  HeapInv' /\ ListsOK'
<1>1. CASE Crash("null")
  BY <1>1 DEF Crash, HeapInv, ListsOK, SockInTunnel, NoDanglingSock
<1>2. CASE /\ sock' = [s EXCEPT ![k] = [@ EXCEPT !.half = TRUE, !.wbuf = TRUE, !.mask = {"out"}]]
           /\ UNCHANGED <<tun, waitList, fault>>
  <2>1. SameOwners(sock')
    BY <1>2, HalfOwners
  <2> QED BY <1>2, <2>1, KeepPointers DEF HeapInv, ListsOK
<1>3. CASE CloseSock(k, [s EXCEPT ![k] = [@ EXCEPT !.half = TRUE]])
  <2> DEFINE b == [s[k] EXCEPT !.half = TRUE]
  <2>1. s[k] \in Sock
    BY DEF SameOwners
  <2>2. b \in Sock /\ b.alloc = s[k].alloc /\ b.ispriv = s[k].ispriv /\ b.tunnel = s[k].tunnel
    BY <2>1 DEF Sock
  <2>3. CloseSock(k, [s EXCEPT ![k] = b])
    BY <1>3
  <2> HIDE DEF b
  <2>4. SameOwners([s EXCEPT ![k] = b])
    BY <2>2, PointOwners
  <2>5. HeapInv'
    BY <2>3, <2>4, CloseKeeps
  <2> QED BY <2>3, <2>5 DEF CloseSock, ListsOK
<1> QED BY <1>1, <1>2, <1>3 DEF SockShutdown

LEMMA TunnelShutdownKeeps ==
    ASSUME HeapInv, ListsOK, NEW k \in Socks, sock[k].alloc, NEW s, SameOwners(s),
           TunnelShutdown(k, s)
    PROVE  HeapInv' /\ ListsOK'
<1>1. CASE SockShutdown(k, s)
  BY <1>1, SockShutdownKeeps
<1>2. CASE sock' = s /\ UNCHANGED <<tun, waitList, fault>>
  BY <1>2, KeepPointers DEF HeapInv, ListsOK
<1> QED BY <1>1, <1>2 DEF TunnelShutdown

\* A handshake step changes the state of the tunnel, never who owns what.
LEMMA HandshakeKeeps ==
    ASSUME HeapInv, ListsOK, NEW k \in Socks, sock[k].alloc, NEW s, SameOwners(s),
           tun[sock[k].tunnel].state \in HandshakeStates, Handshake(k, s)
    PROVE  HeapInv' /\ ListsOK'
<1> DEFINE r == sock[k].tunnel
           p == tun[r].priv
<1>1. r \in Tunnels /\ s[k].tunnel = r
  BY DEF HeapInv, SockInTunnel, SameOwners
<1>2. tun \in [Tunnels -> Tunnel] /\ tun[r] \in Tunnel /\ tun[r].state \in HandshakeStates
  BY <1>1 DEF HeapInv
<1>3. CASE Crash("null")
  BY <1>3 DEF Crash, HeapInv, ListsOK, SockInTunnel, NoDanglingSock
<1>5. CASE \E rest \in BOOLEAN : /\ p \in Socks
                                 /\ sock' = [s EXCEPT ![p] = [@ EXCEPT !.rbuf = rest]]
                                 /\ UNCHANGED <<tun, waitList, fault>>
  <2> PICK rest \in BOOLEAN : sock' = [s EXCEPT ![p] = [@ EXCEPT !.rbuf = rest]]
    BY <1>5
  <2>1. SameOwners(sock')
    <3> HIDE DEF p
    <3> QED BY <1>5, RbufOwners
  <2> QED BY <1>5, <2>1, KeepPointers DEF HeapInv, ListsOK
<1>6. ASSUME p \in Socks, NEW rest \in BOOLEAN,
             SockForceShutdown(k, [s EXCEPT ![p] = [@ EXCEPT !.rbuf = rest]])
      PROVE  HeapInv' /\ ListsOK'
  <2> HIDE DEF p
  <2>1. SameOwners([s EXCEPT ![p] = [@ EXCEPT !.rbuf = rest]])
    BY <1>6, RbufOwners
  <2> DEFINE c == [s EXCEPT ![p] = [@ EXCEPT !.rbuf = rest]]
  <2>2. SameOwners(c) /\ SockForceShutdown(k, c)
    BY <1>6, <2>1
  <2> HIDE DEF c
  <2> QED BY <2>2, ForceKeeps DEF SockForceShutdown, ListsOK
<1>7. CASE \E rest \in BOOLEAN :
             /\ p \in Socks
             /\ sock' = [s EXCEPT ![p] = [@ EXCEPT !.rbuf = rest, !.wbuf = TRUE, !.mask = {"in", "out"}]]
             /\ tun' = [tun EXCEPT ![r] = HandshakeDone(tun[r])]
             /\ UNCHANGED <<waitList, fault>>
  <2> PICK rest \in BOOLEAN :
        sock' = [s EXCEPT ![p] = [@ EXCEPT !.rbuf = rest, !.wbuf = TRUE, !.mask = {"in", "out"}]]
    BY <1>7
  <2>1. SameOwners(sock')
    <3> HIDE DEF p
    <3> QED BY <1>7, ReplyOwners
  <2>2. /\ HandshakeDone(tun[r]) \in Tunnel
        /\ HandshakeDone(tun[r]).priv = tun[r].priv /\ HandshakeDone(tun[r]).remote = tun[r].remote
    <3>1. CASE tun[r].state = "open_state"
      BY <1>2, <3>1 DEF HandshakeDone, OpenDone, Tunnel, TunnelState, HandshakeStates
    <3>2. CASE tun[r].state = "auth_state"
      BY <1>2, <3>2 DEF HandshakeDone, AuthDone, Tunnel, TunnelState, HandshakeStates
    <3>3. CASE tun[r].state = "request_state"
      BY <1>2, <3>3 DEF HandshakeDone, RequestDone, Tunnel, TunnelState, HandshakeStates, AppStatus
    <3> QED BY <1>2, <3>1, <3>2, <3>3 DEF HandshakeStates
  <2> QED BY <1>1, <1>2, <1>7, <2>1, <2>2, KeepPointers DEF ListsOK
<1>8. p # NULL => p \in Socks
  BY <1>2 DEF Tunnel
<1>9. \/ p = NULL /\ Crash("null")
      \/ /\ p # NULL
         /\ \/ \E rest \in BOOLEAN : /\ sock' = [s EXCEPT ![p] = [@ EXCEPT !.rbuf = rest]]
                                      /\ UNCHANGED <<tun, waitList, fault>>
            \/ \E rest \in BOOLEAN : SockForceShutdown(k, [s EXCEPT ![p] = [@ EXCEPT !.rbuf = rest]])
            \/ \E rest \in BOOLEAN :
                 /\ sock' = [s EXCEPT ![p] = [@ EXCEPT !.rbuf = rest, !.wbuf = TRUE, !.mask = {"in", "out"}]]
                 /\ tun' = [tun EXCEPT ![r] = HandshakeDone(tun[r])]
                 /\ UNCHANGED <<waitList, fault>>
  BY <1>1 DEF Handshake
<1> HIDE DEF p, r
<1> QED BY <1>3, <1>5, <1>6, <1>7, <1>8, <1>9

LEMMA ConnectedKeeps ==
    ASSUME HeapInv, ListsOK, NEW k \in Socks, sock[k].alloc, NEW s, SameOwners(s),
           TunnelConnected(k, s)
    PROVE  HeapInv' /\ ListsOK'
<1> DEFINE t == tun[sock[k].tunnel]
           other == IF s[k].ispriv THEN t.remote ELSE t.priv
           mine == IF s[k].ispriv THEN t.priv ELSE t.remote
<1>1. CASE TunnelShutdown(k, s)
  BY <1>1, TunnelShutdownKeeps
<1>2. CASE Crash("null")
  BY <1>2 DEF Crash, HeapInv, ListsOK, SockInTunnel, NoDanglingSock
<1>3. CASE SameOwners(sock') /\ UNCHANGED <<tun, waitList, fault>>
  BY <1>3, KeepPointers DEF HeapInv, ListsOK
<1>4. t.priv \in Socks \cup {NULL} /\ t.remote \in Socks \cup {NULL} /\ s[k].tunnel = sock[k].tunnel
  BY DEF HeapInv, SockInTunnel, Tunnel, SameOwners
<1>5. mine # NULL /\ other # NULL => SameOwners(Relay(s, mine, other))
  BY <1>4, RelayOwners
<1> HIDE DEF t
<1> QED BY <1>1, <1>2, <1>3, <1>4, <1>5 DEF TunnelConnected, t

LEMMA WaittingKeeps ==
    ASSUME HeapInv, ListsOK, NEW k \in Socks, sock[k].alloc, NEW s, SameOwners(s),
           TunnelWaitting(k, s)
    PROVE  HeapInv' /\ ListsOK'
<1> DEFINE r == sock[k].tunnel
           q == tun[r].remote
<1>1. r \in Tunnels /\ s[k].tunnel = r /\ tun[r] \in Tunnel
  BY DEF HeapInv, SockInTunnel, SameOwners
<1>2. CASE sock' = s /\ UNCHANGED tun
  BY <1>2, KeepPointers DEF HeapInv, ListsOK, TunnelWaitting
<1>3. CASE /\ q \in Socks
           /\ sock' = [s EXCEPT ![q] = [@ EXCEPT !.wbuf = TRUE, !.rbuf = FALSE, !.mask = {"in", "out"}]]
           /\ tun' = [tun EXCEPT ![r].status = "tmptun_is_close"]
  <2>1. SameOwners(sock')
    BY <1>3, PageOwners
  <2>2. /\ tun' \in [Tunnels -> Tunnel]
        /\ \A t \in Tunnels : tun'[t].priv = tun[t].priv /\ tun'[t].remote = tun[t].remote
    BY <1>1, <1>3 DEF HeapInv, Tunnel, WaitStatus
  <2> QED BY <2>1, <2>2, KeepPointers DEF ListsOK, TunnelWaitting
<1> QED BY <1>1, <1>2, <1>3 DEF TunnelWaitting, Tunnel

LEMMA StateHandleKeeps ==
    ASSUME HeapInv, ListsOK, NEW k \in Socks, sock[k].alloc, NEW s, SameOwners(s),
           StateHandle(k, s)
    PROVE  HeapInv' /\ ListsOK'
<1>1. s[k].tunnel = sock[k].tunnel
  BY DEF SameOwners
<1> QED BY <1>1, HandshakeKeeps, ConnectedKeeps, WaittingKeeps DEF StateHandle

----------------------------------------------------------------------------
(* A remote socket changes hands: from a tunnel to a wait entry, from a    *)
(* wait entry to a tunnel, or from accept to either.                       *)

LEMMA MoveKeeps ==
    ASSUME HeapInv, NEW s, SameOwners(s), NEW k \in Socks, NEW w \in Tunnels,
           NEW b \in Sock, b.alloc, ~b.ispriv, b.tunnel = w,
           sock' = [s EXCEPT ![k] = b], tun' \in [Tunnels -> Tunnel],
           \A q \in Tunnels :
             /\ tun'[q].priv = tun[q].priv /\ tun[q].priv # k
             /\ \/ tun'[q].remote = NULL
                \/ tun'[q].remote = tun[q].remote /\ tun[q].remote # k
                \/ q = w /\ tun'[q].remote = k
    PROVE  HeapInv'
<1>1. sock' \in [Socks -> Sock] /\ sock'[k] = b
  BY DEF SameOwners
<1>2. \A j \in Socks \ {k} : /\ sock'[j].alloc = sock[j].alloc /\ sock'[j].ispriv = sock[j].ispriv
                             /\ sock'[j].tunnel = sock[j].tunnel
  BY DEF SameOwners
<1>3. SockInTunnel'
  BY <1>1, <1>2 DEF SockInTunnel, HeapInv
<1>4. NoDanglingSock'
  BY <1>1, <1>2 DEF NoDanglingSock, HeapInv, Tunnel
<1> QED BY <1>1, <1>3, <1>4 DEF HeapInv

LEMMA WaitObjType ==
    ASSUME ListsOK, NEW w \in WaitObj
    PROVE  w \in Tunnels /\ WaitListWith(w) \in Seq(Tunnels)
<1>1. CASE WaitFree # {}
  BY <1>1 DEF WaitObj, WaitListWith, WaitFree, First, ListsOK
<1>2. CASE WaitFree = {}
  <2>1. w \in Tunnels
    BY <1>2 DEF WaitObj
  <2> QED BY <1>2, <2>1 DEF WaitListWith, ListsOK
<1> QED BY <1>1, <1>2

LEMMA ParkedType ==
    ASSUME NEW t \in Tunnel, NEW k \in Socks, NEW status \in WaitStatus
    PROVE  /\ Parked(t, k, status) \in Tunnel
           /\ Parked(t, k, status).priv = t.priv /\ Parked(t, k, status).remote = k
  BY DEF Parked, Tunnel, TunnelState

LEMMA LetGoType ==
    ASSUME NEW t \in Tunnel, NEW status \in AppStatus \cup WaitStatus
    PROVE  /\ LetGo(t, status) \in Tunnel
           /\ LetGo(t, status).priv = t.priv /\ LetGo(t, status).remote = NULL
  BY DEF LetGo, Tunnel

\* tunnel_switch_handle moves an answered remote socket to a wait entry.
LEMMA SwitchKeeps ==
    ASSUME HeapInv, ListsOK, NEW k \in Socks, sock[k].alloc, NEW s, SameOwners(s),
           TunnelSwitch(k, s)
    PROVE  HeapInv' /\ ListsOK'
<1> DEFINE r == sock[k].tunnel
<1>1. r \in Tunnels /\ s[k].tunnel = r /\ s[k] \in Sock /\ s[k].alloc = sock[k].alloc
      /\ s[k].ispriv = sock[k].ispriv
  BY DEF HeapInv, SockInTunnel, SameOwners
<1>2. CASE Crash("null")
  BY <1>2 DEF Crash, HeapInv, ListsOK, SockInTunnel, NoDanglingSock
<1>3. CASE /\ \E m \in {{"in"}, {"in", "out"}} : sock' = [s EXCEPT ![k] = [@ EXCEPT !.mask = m]]
           /\ UNCHANGED <<tun, waitList, fault>>
  <2> PICK m \in {{"in"}, {"in", "out"}} : sock' = [s EXCEPT ![k] = [@ EXCEPT !.mask = m]]
    BY <1>3
  <2>1. SameOwners(sock')
    BY <1>3, MaskOwners
  <2> QED BY <1>3, <2>1, KeepPointers DEF HeapInv, ListsOK
<1>4. ASSUME k = tun[r].remote, NEW w \in WaitObj,
             tun' = [[tun EXCEPT ![r] = LetGo(@, "tunn_is_idle")]
                       EXCEPT ![w] = Parked(@, k, "tmptun_is_alive")],
             waitList' = WaitListWith(w),
             sock' = [s EXCEPT ![k] = [@ EXCEPT !.mask = {"in"}, !.tunnel = w]],
             UNCHANGED fault
      PROVE  HeapInv' /\ ListsOK'
  <2> DEFINE b == [s[k] EXCEPT !.mask = {"in"}, !.tunnel = w]
             t1 == [tun EXCEPT ![r] = LetGo(tun[r], "tunn_is_idle")]
  <2>1. w \in Tunnels /\ WaitListWith(w) \in Seq(Tunnels)
    BY WaitObjType
  <2>2. sock[k].alloc /\ ~sock[k].ispriv
    BY <1>1, <1>4 DEF HeapInv, NoDanglingSock
  <2>3. b \in Sock /\ b.alloc /\ ~b.ispriv /\ b.tunnel = w
    BY <1>1, <2>1, <2>2 DEF Sock
  <2>4. t1 \in [Tunnels -> Tunnel] /\ \A q \in Tunnels : t1[q].priv = tun[q].priv
        /\ (q # r => t1[q].remote = tun[q].remote) /\ t1[r].remote = NULL
    BY <1>1, LetGoType DEF HeapInv, AppStatus
  <2>5. tun' = [t1 EXCEPT ![w] = Parked(t1[w], k, "tmptun_is_alive")]
    BY <1>4
  <2> HIDE DEF t1
  <2>6. tun' \in [Tunnels -> Tunnel]
    BY <2>1, <2>4, <2>5, ParkedType DEF WaitStatus
  <2>7. \A q \in Tunnels : tun[q].priv # k /\ (tun[q].remote = k => q = r)
    BY <1>1, <2>2, OneOwner
  <2>8. \A q \in Tunnels : /\ tun'[q].priv = t1[q].priv
                           /\ tun'[q].remote = IF q = w THEN k ELSE t1[q].remote
    <3>1. t1[w] \in Tunnel /\ "tmptun_is_alive" \in WaitStatus
      BY <2>1, <2>4 DEF WaitStatus
    <3>2. tun'[w].priv = t1[w].priv /\ tun'[w].remote = k
      BY <2>1, <2>4, <2>5, <3>1, ParkedType
    <3>3. \A q \in Tunnels : q # w => tun'[q] = t1[q]
      BY <2>4, <2>5
    <3> QED BY <3>2, <3>3
  <2>9. \A q \in Tunnels :
          /\ tun'[q].priv = tun[q].priv /\ tun[q].priv # k
          /\ \/ tun'[q].remote = NULL
             \/ tun'[q].remote = tun[q].remote /\ tun[q].remote # k
             \/ q = w /\ tun'[q].remote = k
    BY <2>4, <2>7, <2>8
  <2>10. HeapInv'
    <3>1. sock' = [s EXCEPT ![k] = b]
      BY <1>4
    <3> HIDE DEF b
    <3> QED BY <2>1, <2>3, <2>6, <2>9, <3>1, MoveKeeps
  <2> QED BY <1>4, <2>1, <2>10 DEF ListsOK
<1>5. \/ Crash("null")
      \/ /\ \E m \in {{"in"}, {"in", "out"}} : sock' = [s EXCEPT ![k] = [@ EXCEPT !.mask = m]]
         /\ UNCHANGED <<tun, waitList, fault>>
      \/ /\ k = tun[r].remote
         /\ \E w \in WaitObj :
              /\ tun' = [[tun EXCEPT ![r] = LetGo(@, "tunn_is_idle")]
                           EXCEPT ![w] = Parked(@, k, "tmptun_is_alive")]
              /\ waitList' = WaitListWith(w)
              /\ sock' = [s EXCEPT ![k] = [@ EXCEPT !.mask = {"in"}, !.tunnel = w]]
         /\ UNCHANGED fault
  BY <1>1 DEF TunnelSwitch
<1> HIDE DEF r
<1> QED BY <1>2, <1>3, <1>4, <1>5

LEMMA AfterWriteKeeps ==
    ASSUME HeapInv, ListsOK, NEW k \in Socks, sock[k].alloc, NEW s, SameOwners(s),
           AfterWrite(k, s)
    PROVE  HeapInv' /\ ListsOK'
<1>1. CASE TunnelSwitch(k, s)
  BY <1>1, SwitchKeeps
<1>2. CASE /\ sock' = [s EXCEPT ![k] = [@ EXCEPT !.mask = IF s[k].wbuf THEN {"in", "out"} ELSE {"in"}]]
           /\ UNCHANGED <<tun, waitList, fault>>
  <2>1. SameOwners(sock')
    BY <1>2, MaskOwners
  <2> QED BY <1>2, <2>1, KeepPointers DEF HeapInv, ListsOK
<1> QED BY <1>1, <1>2 DEF AfterWrite

----------------------------------------------------------------------------
(* The steps of the event loop.                                            *)

LEMMA SelfOwners ==
    ASSUME HeapInv
    PROVE  SameOwners(sock)
  BY DEF HeapInv, SameOwners

LEMMA ConsumeKeeps ==
    ASSUME LoopOK, NEW src, NEW ev, Consume(src, ev), UNCHANGED <<appList, dials>>
    PROVE  LoopOK'
  BY DEF LoopOK, Consume

LEMMA CrashKeeps ==
    ASSUME HeapInv, ListsOK, NEW f \in {"null", "freed"}, Crash(f)
    PROVE  HeapInv' /\ ListsOK'
  BY DEF Crash, HeapInv, ListsOK, SockInTunnel, NoDanglingSock

LEMMA NewSockType ==
    ASSUME NEW r \in Tunnels, NEW ispriv \in BOOLEAN
    PROVE  /\ NewSock(r, ispriv) \in Sock
           /\ NewSock(r, ispriv).alloc /\ NewSock(r, ispriv).ispriv = ispriv
           /\ NewSock(r, ispriv).tunnel = r
  BY DEF NewSock, NoSock, Sock

LEMMA ReadOwners ==
    ASSUME HeapInv, NEW k \in Socks
    PROVE  SameOwners([sock EXCEPT ![k] = [@ EXCEPT !.rx = FALSE, !.rbuf = TRUE]])
<1> DEFINE b == [sock[k] EXCEPT !.rx = FALSE, !.rbuf = TRUE]
<1>1. sock[k] \in Sock
  BY DEF HeapInv
<1>2. b \in Sock /\ b.alloc = sock[k].alloc /\ b.ispriv = sock[k].ispriv /\ b.tunnel = sock[k].tunnel
  BY <1>1 DEF Sock
<1> HIDE DEF b
<1>3. SameOwners([sock EXCEPT ![k] = b])
  BY <1>2, SelfOwners, PointOwners
<1> QED BY <1>3 DEF b

LEMMA WbufOwners ==
    ASSUME HeapInv, NEW k \in Socks, NEW x \in BOOLEAN
    PROVE  SameOwners([sock EXCEPT ![k] = [@ EXCEPT !.wbuf = x]])
<1> DEFINE b == [sock[k] EXCEPT !.wbuf = x]
<1>1. sock[k] \in Sock
  BY DEF HeapInv
<1>2. b \in Sock /\ b.alloc = sock[k].alloc /\ b.ispriv = sock[k].ispriv /\ b.tunnel = sock[k].tunnel
  BY <1>1 DEF Sock
<1> HIDE DEF b
<1>3. SameOwners([sock EXCEPT ![k] = b])
  BY <1>2, SelfOwners, PointOwners
<1> QED BY <1>3 DEF b

LEMMA ReadStep ==
    ASSUME IInv, NEW k \in Socks, ReadHandle(k)
    PROVE  IInv'
<1>1. HeapInv /\ ListsOK /\ LoopOK /\ sock[k].alloc
  BY DEF IInv, ReadHandle
<1>2. LoopOK'
  BY <1>1, ConsumeKeeps DEF ReadHandle
<1> SUFFICES HeapInv' /\ ListsOK'
  BY <1>2 DEF IInv
<1>3. CASE StateHandle(k, [sock EXCEPT ![k] = [@ EXCEPT !.rx = FALSE, !.rbuf = TRUE]])
  BY <1>1, <1>3, ReadOwners, StateHandleKeeps
<1>4. CASE StateHandle(k, sock)
  BY <1>1, <1>4, SelfOwners, StateHandleKeeps
<1>5. CASE SockShutdown(k, sock)
  BY <1>1, <1>5, SelfOwners, SockShutdownKeeps
<1> QED BY <1>3, <1>4, <1>5 DEF ReadHandle

LEMMA WriteStep ==
    ASSUME IInv, NEW k \in Socks, WriteHandle(k)
    PROVE  IInv'
<1>1. HeapInv /\ ListsOK /\ LoopOK /\ sock[k].alloc
  BY DEF IInv, WriteHandle
<1>2. LoopOK'
  BY <1>1, ConsumeKeeps DEF WriteHandle
<1> SUFFICES HeapInv' /\ ListsOK'
  BY <1>2 DEF IInv
<1>3. CASE SockForceShutdown(k, sock)
  BY <1>1, <1>3, SelfOwners, ForceKeeps DEF SockForceShutdown, ListsOK
<1>4. CASE AfterWrite(k, sock)
  BY <1>1, <1>4, SelfOwners, AfterWriteKeeps
<1>5. CASE \E rest \in BOOLEAN : AfterWrite(k, [sock EXCEPT ![k] = [@ EXCEPT !.wbuf = rest]])
  BY <1>1, <1>5, WbufOwners, AfterWriteKeeps
<1> QED BY <1>3, <1>4, <1>5 DEF WriteHandle

LEMMA StaleStep ==
    ASSUME IInv, NEW k \in Socks, StaleEvent(k)
    PROVE  IInv'
  BY ConsumeKeeps, CrashKeeps DEF StaleEvent, IInv

\* A socket just accepted belongs to no tunnel yet.
LEMMA Unowned ==
    ASSUME HeapInv, NEW k \in Socks, ~sock[k].alloc, NEW q \in Tunnels
    PROVE  tun[q].priv # k /\ tun[q].remote # k
  BY OneOwner

\* accept takes one of the connections that were reported.
LEMMA AcceptDials ==
    ASSUME LoopOK, NEW l \in Listeners, Consume(l, "in"),
           dials' = [dials EXCEPT ![l] = @ - 1], appList' \in Seq(Tunnels)
    PROVE  LoopOK'
<1>1. dials[l] \in Nat /\ dials[l] > 0
  BY DEF LoopOK, Consume
<1>2. dials' \in [Listeners -> Nat]
  BY <1>1 DEF LoopOK
<1>3. \A m \in Listeners : [src |-> m, ev |-> "in"] \in batch' =>
                             [src |-> m, ev |-> "in"] \in batch /\ m # l
  BY DEF Consume
<1>4. \A m \in Listeners : [src |-> m, ev |-> "in"] \in batch' => dials'[m] > 0
  BY <1>3 DEF LoopOK
<1> QED BY <1>2, <1>4 DEF LoopOK, Consume

LEMMA AcceptPrivStep ==
    ASSUME IInv, AcceptPriv
    PROVE  IInv'
<1>1. HeapInv /\ ListsOK /\ LoopOK /\ ListsOK'
  BY DEF IInv, AcceptPriv, ListsOK
<1>2. PICK k \in Socks, r \in Tunnels :
        /\ ~sock[k].alloc
        /\ ReusePriv(r, k) \/ NewPriv(r, k)
        /\ sock' = [sock EXCEPT ![k] = NewSock(r, TRUE)]
  BY DEF AcceptPriv
<1>3. tun \in [Tunnels -> Tunnel] /\ sock \in [Socks -> Sock]
  BY <1>1 DEF HeapInv
<1>4. /\ tun' \in [Tunnels -> Tunnel] /\ tun'[r].priv = k /\ tun'[r].remote \in {NULL, tun[r].remote}
      /\ \A q \in Tunnels \ {r} : tun'[q] = tun[q]
      /\ appList' \in Seq(Tunnels)
  <2>1. CASE ReusePriv(r, k)
    <3> DEFINE t == [tun[r] EXCEPT !.state = "open_state", !.status = "tunn_is_run", !.priv = k]
    <3>1. tun[r] \in Tunnel
      BY <1>3
    <3>2. t \in Tunnel /\ t.priv = k /\ t.remote = tun[r].remote
      BY <3>1 DEF Tunnel, TunnelState, HandshakeStates, AppStatus
    <3>3. tun' = [tun EXCEPT ![r] = t] /\ appList' = appList
      BY <2>1 DEF ReusePriv
    <3> HIDE DEF t
    <3> QED BY <1>1, <1>3, <3>2, <3>3 DEF LoopOK
  <2>2. CASE NewPriv(r, k)
    <3> DEFINE t == [ZeroTunnel EXCEPT !.priv = k]
    <3>1. t \in Tunnel /\ t.priv = k /\ t.remote = NULL
      BY DEF ZeroTunnel, Tunnel, TunnelState, HandshakeStates, AppStatus
    <3>2. tun' = [tun EXCEPT ![r] = t] /\ appList' = <<r>> \o appList
      BY <2>2 DEF NewPriv
    <3> HIDE DEF t
    <3> QED BY <1>1, <1>3, <3>1, <3>2 DEF LoopOK
  <2> QED BY <1>2, <2>1, <2>2
<1>5. LoopOK'
  <2>1. "listenfd" \in Listeners
    BY DEF Listeners
  <2> QED BY <1>1, <1>4, <2>1, AcceptDials DEF AcceptPriv
<1>6. /\ sock' \in [Socks -> Sock] /\ sock'[k].alloc /\ sock'[k].ispriv /\ sock'[k].tunnel = r
      /\ \A j \in Socks \ {k} : sock'[j] = sock[j]
  BY <1>2, <1>3, NewSockType
<1>7. \A q \in Tunnels : tun[q].priv # k /\ tun[q].remote # k
  BY <1>1, <1>2, Unowned
<1>8. SockInTunnel'
  BY <1>1, <1>6 DEF SockInTunnel, HeapInv
<1>9. NoDanglingSock'
  BY <1>1, <1>3, <1>4, <1>6, <1>7 DEF NoDanglingSock, HeapInv, Tunnel
<1> QED BY <1>1, <1>4, <1>5, <1>6, <1>8, <1>9 DEF IInv, HeapInv

LEMMA FirstIn ==
    ASSUME NEW S, NEW i \in First(S)
    PROVE  i \in S
  BY DEF First

LEMMA AcceptRemoteStep ==
    ASSUME IInv, AcceptRemote
    PROVE  IInv'
<1>1. HeapInv /\ ListsOK /\ LoopOK
  BY DEF IInv
<1>2. LoopOK'
  <2>1. "rmtfd" \in Listeners /\ appList' \in Seq(Tunnels)
    BY <1>1 DEF Listeners, AcceptRemote, LoopOK
  <2> QED BY <1>1, <2>1, AcceptDials DEF AcceptRemote
<1>3. PICK k \in Socks :
        /\ ~sock[k].alloc
        /\ \/ \E r \in AppListFnd("tunn_is_idle") : BindRemote(r, k)
           \/ \E w \in WaitObj : ParkRemote(w, k)
  BY DEF AcceptRemote
<1>4. \A q \in Tunnels : tun[q].priv # k /\ tun[q].remote # k
  BY <1>1, <1>3, Unowned
<1>5. tun \in [Tunnels -> Tunnel] /\ SameOwners(sock)
  BY <1>1, SelfOwners DEF HeapInv
<1>6. ASSUME NEW r \in Tunnels, NEW t \in Tunnel, t.priv = tun[r].priv, t.remote = k,
             tun' = [tun EXCEPT ![r] = t], sock' = [sock EXCEPT ![k] = NewSock(r, FALSE)]
      PROVE  HeapInv'
  <2> DEFINE b == NewSock(r, FALSE)
  <2>1. b \in Sock /\ b.alloc /\ ~b.ispriv /\ b.tunnel = r
    BY NewSockType
  <2> HIDE DEF b
  <2>2. tun' \in [Tunnels -> Tunnel] /\ tun'[r] = t /\ \A q \in Tunnels \ {r} : tun'[q] = tun[q]
    BY <1>5, <1>6
  <2>3. \A q \in Tunnels :
          /\ tun'[q].priv = tun[q].priv /\ tun[q].priv # k
          /\ \/ tun'[q].remote = NULL
             \/ tun'[q].remote = tun[q].remote /\ tun[q].remote # k
             \/ q = r /\ tun'[q].remote = k
    BY <1>4, <1>6, <2>2
  <2>4. sock' = [sock EXCEPT ![k] = b]
    BY <1>6 DEF b
  <2> QED BY <1>1, <1>5, <2>1, <2>2, <2>3, <2>4, MoveKeeps
<1>7. ASSUME NEW r \in AppListFnd("tunn_is_idle"), BindRemote(r, k)
      PROVE  HeapInv' /\ ListsOK'
  <2>1. r \in Tunnels /\ tun[r] \in Tunnel
    <3>1. r \in Tunnels
      <4>1. PICK i \in First(AppMatch("tunn_is_idle")) : r = appList[i]
        BY <1>7 DEF AppListFnd
      <4>2. i \in DOMAIN appList
        BY <4>1, FirstIn DEF AppMatch
      <4> QED BY <1>1, <4>1, <4>2 DEF LoopOK
    <3> QED BY <1>5, <3>1
  <2>2. CASE Crash("null")
    BY <1>1, <2>2, CrashKeeps
  <2>3. CASE ~Crash("null")
    <3> DEFINE t == [tun[r] EXCEPT !.status = "tunn_is_run", !.state = "connected_state", !.remote = k]
    <3>1. t \in Tunnel /\ t.priv = tun[r].priv /\ t.remote = k
      BY <2>1 DEF Tunnel, TunnelState, AppStatus
    <3>2. tun' = [tun EXCEPT ![r] = t] /\ sock' = [sock EXCEPT ![k] = NewSock(r, FALSE)]
      BY <1>7, <2>3 DEF BindRemote
    <3> HIDE DEF t
    <3>3. HeapInv'
      BY <1>6, <2>1, <3>1, <3>2
    <3> QED BY <1>1, <1>7, <2>3, <3>3 DEF BindRemote, ListsOK
  <2> QED BY <2>2, <2>3
<1>8. ASSUME NEW w \in WaitObj, ParkRemote(w, k)
      PROVE  HeapInv' /\ ListsOK'
  <2> DEFINE t == Parked(tun[w], k, "tmptun_is_wait")
  <2>1. w \in Tunnels /\ WaitListWith(w) \in Seq(Tunnels) /\ tun[w] \in Tunnel
    BY <1>1, <1>5, WaitObjType
  <2>2. t \in Tunnel /\ t.priv = tun[w].priv /\ t.remote = k
    <3>1. "tmptun_is_wait" \in WaitStatus
      BY DEF WaitStatus
    <3> QED BY <2>1, <3>1, ParkedType
  <2>3. tun' = [tun EXCEPT ![w] = t] /\ sock' = [sock EXCEPT ![k] = NewSock(w, FALSE)]
    BY <1>8 DEF ParkRemote
  <2> HIDE DEF t
  <2>4. HeapInv'
    BY <1>6, <2>1, <2>2, <2>3
  <2> QED BY <1>1, <1>8, <2>1, <2>4 DEF ParkRemote, ListsOK
<1> QED BY <1>2, <1>3, <1>7, <1>8 DEF IInv

LEMMA AcceptFailsStep ==
    ASSUME IInv, NEW l \in Listeners, AcceptFails(l)
    PROVE  IInv'
  BY DEF AcceptFails, IInv, LoopOK, ListsOK, HeapInv, SockInTunnel, NoDanglingSock, Event

LEMMA UnchangedHeap ==
    ASSUME HeapInv, ListsOK, UNCHANGED <<tun, sock, waitList, fault>>
    PROVE  HeapInv' /\ ListsOK'
  BY DEF ListsOK, HeapInv, SockInTunnel, NoDanglingSock

LEMMA EpollWaitStep ==
    ASSUME IInv, EpollWait
    PROVE  IInv'
<1>1. HeapInv' /\ ListsOK'
  BY UnchangedHeap DEF EpollWait, IInv
<1>2. batch' \subseteq MustReport \cup MayReport
  <2>1. PICK more \in SUBSET MayReport :
          batch' \in IF Cardinality(MustReport \cup more) <= MaxEvents THEN {MustReport \cup more}
                     ELSE kSubset(MaxEvents, MustReport \cup more)
    BY DEF EpollWait
  <2>2. batch' \subseteq MustReport \cup more
    BY <2>1 DEF kSubset
  <2> QED BY <2>2
<1>3. \A e \in MustReport \cup MayReport :
        /\ e \in Event
        /\ \A l \in Listeners : e = [src |-> l, ev |-> "in"] => dials[l] > 0
  BY ListenersAssumption DEF MustReport, MayReport, Event, Listeners
<1>4. LoopOK'
  BY <1>2, <1>3 DEF EpollWait, IInv, LoopOK
<1> QED BY <1>1, <1>4 DEF IInv

LEMMA PairSkipStep ==
    ASSUME IInv, PairSkip
    PROVE  IInv'
<1>1. HeapInv' /\ ListsOK'
  BY UnchangedHeap DEF PairSkip, IInv
<1>2. LoopOK'
  BY DEF PairSkip, IInv, LoopOK
<1> QED BY <1>1, <1>2 DEF IInv

LEMMA PairingDoneStep ==
    ASSUME IInv, PairingDone
    PROVE  IInv'
<1>1. HeapInv' /\ ListsOK'
  BY UnchangedHeap DEF PairingDone, IInv
<1>2. LoopOK'
  BY DEF PairingDone, IInv, LoopOK
<1> QED BY <1>1, <1>2 DEF IInv

\* What the kernel learns of a peer is no business of the tunnels.
LEMMA PeerStep ==
    ASSUME IInv, NEW k \in Socks, PeerSend(k) \/ PeerFin(k) \/ PeerReset(k)
    PROVE  IInv'
<1>1. UNCHANGED <<tun, appList, waitList, dials, batch, pc, scan, fault>>
  BY DEF PeerSend, PeerFin, PeerReset, Peer
<1>2. SameOwners(sock')
  <2>1. sock \in [Socks -> Sock]
    BY DEF IInv, HeapInv
  <2>2. ASSUME NEW b \in Sock, b.alloc = sock[k].alloc, b.ispriv = sock[k].ispriv,
               b.tunnel = sock[k].tunnel, sock' = [sock EXCEPT ![k] = b]
        PROVE  SameOwners(sock')
    BY <2>1, <2>2 DEF SameOwners
  <2>3. CASE sock' = [sock EXCEPT ![k] = [@ EXCEPT !.rx = TRUE]]
    <3> DEFINE b == [sock[k] EXCEPT !.rx = TRUE]
    <3>1. b \in Sock /\ b.alloc = sock[k].alloc /\ b.ispriv = sock[k].ispriv /\ b.tunnel = sock[k].tunnel
      BY <2>1 DEF Sock
    <3>2. sock' = [sock EXCEPT ![k] = b]
      BY <2>3
    <3> HIDE DEF b
    <3> QED BY <2>2, <3>1, <3>2
  <2>4. CASE \E x \in {"fin", "rst"} : sock' = [sock EXCEPT ![k] = [@ EXCEPT !.peer = x]]
    <3> PICK x \in {"fin", "rst"} : sock' = [sock EXCEPT ![k] = [@ EXCEPT !.peer = x]]
      BY <2>4
    <3> DEFINE b == [sock[k] EXCEPT !.peer = x]
    <3>1. b \in Sock /\ b.alloc = sock[k].alloc /\ b.ispriv = sock[k].ispriv /\ b.tunnel = sock[k].tunnel
      BY <2>1 DEF Sock
    <3>2. sock' = [sock EXCEPT ![k] = b]
      OBVIOUS
    <3> HIDE DEF b
    <3> QED BY <2>2, <3>1, <3>2
  <2> QED BY <2>3, <2>4 DEF PeerSend, PeerFin, PeerReset
<1>3. HeapInv'
  BY <1>1, <1>2, KeepPointers DEF IInv, HeapInv
<1> QED BY <1>1, <1>3 DEF IInv, ListsOK, LoopOK

\* waitLinePairing moves a parked remote socket to an idle tunnel.
\* PairBind starts at an idle tunnel of appList.
LEMMA BindAt ==
    ASSUME LoopOK, PairBind
    PROVE  /\ scan \in DOMAIN appList
           /\ AtIdle /\ UNCHANGED <<appList, waitList, dials, batch, pc, fault>> /\ scan' = scan + 1
<1>1. AtIdle /\ UNCHANGED <<appList, waitList, dials, batch, pc, fault>> /\ scan' = scan + 1
  BY Zenon DEF PairBind
<1>2. appList \in Seq(Tunnels) /\ scan \in Nat \ {0}
  BY DEF LoopOK
<1>3. scan <= Len(appList)
  BY ONLY <1>1 DEF AtIdle
<1>4. scan \in DOMAIN appList
  BY ONLY <1>2, <1>3
<1> QED
  BY <1>1, <1>4

LEMMA PairBindStep ==
    ASSUME IInv, PairBind
    PROVE  IInv'
<1>1. HeapInv /\ ListsOK /\ LoopOK
  BY DEF IInv
<1> DEFINE r == appList[scan]
<1>2. PICK i \in First(WaitPending) :
        LET w == waitList[i]
            k == tun[w].remote
            p == tun[r].priv
        IN  /\ tun' = [[tun EXCEPT ![w] = LetGo(@, "tmptun_is_free")]
                         EXCEPT ![r] = [@ EXCEPT !.status = "tunn_is_run", !.remote = k]]
            /\ sock' = IF p # NULL /\ sock[k].rbuf
                       THEN [Relay(sock, k, p) EXCEPT ![k] = [@ EXCEPT !.tunnel = r]]
                       ELSE [sock EXCEPT ![k] = [@ EXCEPT !.tunnel = r]]
  BY DEF PairBind
<1> DEFINE w == waitList[i]
           k == tun[w].remote
           p == tun[r].priv
           t1 == [tun EXCEPT ![w] = LetGo(tun[w], "tmptun_is_free")]
           t2 == [t1[r] EXCEPT !.status = "tunn_is_run", !.remote = k]
           s == IF p # NULL /\ sock[k].rbuf THEN Relay(sock, k, p) ELSE sock
           b == [s[k] EXCEPT !.tunnel = r]
<1>3. r \in Tunnels /\ w \in Tunnels
  <2>1. i \in DOMAIN waitList
    BY FirstIn DEF WaitPending
  <2>2. scan \in DOMAIN appList
    BY <1>1, BindAt
  <2> QED BY <1>1, <2>1, <2>2 DEF LoopOK, ListsOK
<1>4. tun \in [Tunnels -> Tunnel] /\ tun[w] \in Tunnel /\ tun[r] \in Tunnel
      /\ k \in Socks \cup {NULL} /\ p \in Socks \cup {NULL}
  BY <1>1, <1>3 DEF HeapInv, Tunnel
<1>5. tun' = [t1 EXCEPT ![r] = t2]
  BY <1>2
<1>6. sock' = [s EXCEPT ![k] = b]
  BY <1>2
<1>7. SameOwners(s)
  <2> HIDE DEF k, p, r
  <2> QED BY <1>1, <1>4, SelfOwners, RelayOwners
<1>8. t1 \in [Tunnels -> Tunnel] /\ t1[w].remote = NULL
      /\ \A q \in Tunnels : t1[q].priv = tun[q].priv /\ (q # w => t1[q] = tun[q])
  <2>1. /\ LetGo(tun[w], "tmptun_is_free") \in Tunnel
        /\ LetGo(tun[w], "tmptun_is_free").priv = tun[w].priv
        /\ LetGo(tun[w], "tmptun_is_free").remote = NULL
    BY <1>4, LetGoType DEF WaitStatus
  <2> QED BY <1>3, <1>4, <2>1
<1>9. k \in Socks => /\ b \in Sock
                     /\ b.alloc = s[k].alloc /\ b.ispriv = s[k].ispriv /\ b.tunnel = r
  <2> HIDE DEF s, r, k
  <2>1. k \in Socks => s[k] \in Sock
    BY <1>7 DEF SameOwners
  <2> QED BY <1>3, <2>1 DEF Sock
<1>14. ListsOK' /\ LoopOK'
  <2>1. UNCHANGED <<appList, waitList, dials, batch, pc, fault>> /\ scan' = scan + 1
    BY <1>1, BindAt
  <2> QED
    BY ONLY <1>1, <2>1 DEF ListsOK, LoopOK
<1> SUFFICES HeapInv'
  BY <1>14 DEF IInv
<1> HIDE DEF t1, s, b, k, w, p, r
<1>10. t2 \in Tunnel /\ t2.priv = tun[r].priv /\ t2.remote = k
  <2>1. t1[r] \in Tunnel /\ t1[r].priv = tun[r].priv
    BY <1>3, <1>8
  <2> QED BY <1>4, <2>1 DEF Tunnel, AppStatus
<1> HIDE DEF t2
<1>11. /\ tun' \in [Tunnels -> Tunnel]
       /\ \A q \in Tunnels : /\ tun'[q].priv = tun[q].priv
                             /\ tun'[q].remote = IF q = r THEN k ELSE IF q = w THEN NULL ELSE tun[q].remote
  BY <1>3, <1>5, <1>8, <1>10
<1>12. CASE k \in Socks
  <2>1. sock[k].alloc /\ ~sock[k].ispriv /\ \A q \in Tunnels : tun[q].remote = k => q = w
    BY <1>1, <1>3, <1>12, OneOwner DEF k, HeapInv, NoDanglingSock
  <2>2. \A q \in Tunnels : tun[q].priv # k
    BY <1>1, <1>12, <2>1, OneOwner
  <2>3. b \in Sock /\ b.alloc /\ ~b.ispriv /\ b.tunnel = r
    BY <1>7, <1>9, <1>12, <2>1 DEF SameOwners
  <2>4. \A q \in Tunnels :
          /\ tun'[q].priv = tun[q].priv /\ tun[q].priv # k
          /\ \/ tun'[q].remote = NULL
             \/ tun'[q].remote = tun[q].remote /\ tun[q].remote # k
             \/ q = r /\ tun'[q].remote = k
    BY <1>11, <2>1, <2>2
  <2> QED BY <1>1, <1>3, <1>6, <1>7, <1>11, <1>12, <2>3, <2>4, MoveKeeps, ZenonT(30)
<1>13. CASE k = NULL
  <2>1. sock' = Released(s, {})
    BY <1>6, <1>7, <1>13 DEF Released, SameOwners
  <2>2. \A q \in Tunnels : /\ tun'[q].priv = tun[q].priv
                           /\ tun'[q].remote \in {NULL, tun[q].remote}
    BY <1>11, <1>13
  <2>3. \A q \in Tunnels :
          /\ tun'[q].priv = NULL \/ (tun'[q].priv = tun[q].priv /\ tun[q].priv \notin {})
          /\ tun'[q].remote = NULL \/ (tun'[q].remote = tun[q].remote /\ tun[q].remote \notin {})
    BY <2>2
  <2> QED BY <1>1, <1>7, <1>11, <2>1, <2>3, ReleaseKeeps
<1> QED BY <1>4, <1>12, <1>13

----------------------------------------------------------------------------

LEMMA InitIInv ==
    ASSUME Init
    PROVE  IInv
<1>1. ZeroTunnel \in Tunnel /\ ZeroTunnel.priv = NULL /\ ZeroTunnel.remote = NULL
  BY DEF ZeroTunnel, Tunnel, TunnelState, HandshakeStates, AppStatus
<1>2. NoSock \in Sock /\ ~NoSock.alloc
  BY DEF NoSock, Sock
<1>3. HeapInv
  BY <1>1, <1>2 DEF Init, HeapInv, SockInTunnel, NoDanglingSock
<1>4. ListsOK
  BY DEF Init, ListsOK
<1>5. LoopOK
  BY DEF Init, LoopOK, Listeners, Event
<1> QED BY <1>3, <1>4, <1>5 DEF IInv

LEMMA NextIInv ==
    ASSUME IInv, [Next]_vars
    PROVE  IInv'
<1>1. CASE EpollWait
  BY <1>1, EpollWaitStep
<1>2. CASE AcceptPriv
  BY <1>2, AcceptPrivStep
<1>3. CASE AcceptRemote
  BY <1>3, AcceptRemoteStep
<1>4. CASE PairSkip
  BY <1>4, PairSkipStep
<1>5. CASE PairBind
  BY <1>5, PairBindStep
<1>6. CASE PairingDone
  BY <1>6, PairingDoneStep
<1>7. ASSUME NEW l \in Listeners, AcceptFails(l)
      PROVE  IInv'
  BY <1>7, AcceptFailsStep
<1>8. ASSUME NEW k \in Socks, ReadHandle(k)
      PROVE  IInv'
  BY <1>8, ReadStep
<1>9. ASSUME NEW k \in Socks, WriteHandle(k)
      PROVE  IInv'
  BY <1>9, WriteStep
<1>10. ASSUME NEW k \in Socks, StaleEvent(k)
       PROVE  IInv'
  BY <1>10, StaleStep
<1>11. ASSUME NEW k \in Socks, PeerSend(k) \/ PeerFin(k) \/ PeerReset(k)
       PROVE  IInv'
  BY <1>11, PeerStep
<1>12. CASE UNCHANGED vars
  <2>1. HeapInv' /\ ListsOK'
    BY <1>12, UnchangedHeap DEF vars, IInv
  <2>2. LoopOK'
    BY <1>12 DEF vars, IInv, LoopOK
  <2> QED BY <2>1, <2>2 DEF IInv
<1> QED BY <1>1, <1>2, <1>3, <1>4, <1>5, <1>6, <1>7, <1>8, <1>9, <1>10, <1>11, <1>12 DEF Next, Loop

\* Every variable of the server keeps its type, whatever the number of sockets, tunnels
\* and connections and whatever the peers do.
THEOREM TypeCorrect == Spec => []TypeOK
<1>1. Init => IInv
  BY InitIInv
<1>2. IInv /\ [Next]_vars => IInv'
  BY NextIInv
<1>3. IInv => TypeOK
  BY DEF IInv, HeapInv, ListsOK, LoopOK, TypeOK
<1> QED BY <1>1, <1>2, <1>3, PTL DEF Spec

\* sock_release, tunnel_switch_handle and waitLinePairing never leave a tunnel pointing
\* to a sock_t that was freed, or to one that belongs to another tunnel.
THEOREM NoDangling == Spec => []NoDanglingSock
<1>1. Init => IInv
  BY InitIInv
<1>2. IInv /\ [Next]_vars => IInv'
  BY NextIInv
<1>3. IInv => NoDanglingSock
  BY DEF IInv, HeapInv
<1> QED BY <1>1, <1>2, <1>3, PTL DEF Spec

----------------------------------------------------------------------------
(* The pool of tunnels.  The tunnels of the two lists never mix, wait      *)
(* entries own their sockets and are recycled, and parked clients are      *)
(* quiet.                                                                  *)

InApp(r) == \E i \in DOMAIN appList : appList[i] = r
InWait(r) == \E i \in DOMAIN waitList : waitList[i] = r

\* A tunnel of appList: never a waiting one, and without its ends once it is free.
AppT(t) == /\ t.state # "tunnel_waitting" /\ t.status \in AppStatus
           /\ t.status = "tunn_is_free" => t.priv = NULL /\ t.remote = NULL

\* A tunnel of waitList: it has a client exactly until it is free.
WaitT(t) == /\ t.state = "tunnel_waitting" /\ t.priv = NULL /\ t.status \in WaitStatus
            /\ t.remote = NULL <=> t.status = "tmptun_is_free"

\* Nothing is being written to the socket x of block q, and no event of the batch b will
\* be taken for the end of a write.
Silent(x) == ~x.wbuf /\ "out" \notin x.mask
OutEvent(q) == [src |-> q, ev |-> "out"]

\* The client in use by a tunnel: once connected, what it sends is relayed by the handler
\* that reads it; before, nothing is written to it.
RunOK(t, s, b) ==
    t.status = "tunn_is_run" /\ t.remote # NULL =>
      \/ t.state = "connected_state" /\ ~s[t.remote].rbuf
      \/ t.state # "connected_state" /\ Silent(s[t.remote]) /\ OutEvent(t.remote) \notin b

\* A parked client: what it sends is cleared by the handler that reads it; until the fixed
\* page is written, nothing is.
ParkedOK(t, s, b) ==
    t.remote # NULL =>
      /\ ~s[t.remote].rbuf
      /\ t.status # "tmptun_is_close" =>
           Silent(s[t.remote]) /\ (s[t.remote].half => OutEvent(t.remote) \notin b)

\* A private socket is the end of a tunnel of appList; a client belongs to one, even if it
\* is no longer its end, or is the client of a wait entry.
SockOK(k) ==
    IF sock[k].ispriv THEN InApp(sock[k].tunnel) /\ tun[sock[k].tunnel].priv = k
    ELSE InApp(sock[k].tunnel) \/ (InWait(sock[k].tunnel) /\ tun[sock[k].tunnel].remote = k)

ListsApart == /\ \A r \in Tunnels : ~(InApp(r) /\ InWait(r))
              /\ \A r \in Tunnels : InApp(r) \/ InWait(r) => r < Fresh
              /\ \A i, j \in DOMAIN waitList : waitList[i] = waitList[j] => i = j

TunnelsOK == \A r \in Tunnels :
               /\ InApp(r) => AppT(tun[r]) /\ RunOK(tun[r], sock, batch)
               /\ InWait(r) => WaitT(tun[r]) /\ ParkedOK(tun[r], sock, batch)
               /\ ~InApp(r) /\ ~InWait(r) => tun[r].priv = NULL

SocksOK == \A k \in Socks : sock[k].alloc => SockOK(k)

PoolInv == ListsApart /\ TunnelsOK /\ SocksOK

----------------------------------------------------------------------------
(* A handler changes one tunnel and the sockets that belong to it.         *)

\* What the handlers of an event keep: the lists, the other tunnels, the other sockets.
Near(r) == /\ UNCHANGED <<appList, waitList>> /\ batch' \subseteq batch
           /\ \A x \in Tunnels : x # r => tun'[x] = tun[x]
           /\ \A j \in Socks : sock[j].alloc /\ sock[j].tunnel # r => sock'[j] = sock[j]
           /\ \A j \in Socks : sock'[j].alloc => /\ sock[j].alloc
                                                 /\ sock'[j].ispriv = sock[j].ispriv
                                                 /\ sock'[j].tunnel = sock[j].tunnel

LEMMA OtherTunnels ==
    ASSUME HeapInv, TunnelsOK, NEW r \in Tunnels, Near(r), NEW x \in Tunnels, x # r
    PROVE  /\ InApp(x)' => AppT(tun'[x]) /\ RunOK(tun'[x], sock', batch')
           /\ InWait(x)' => WaitT(tun'[x]) /\ ParkedOK(tun'[x], sock', batch')
           /\ ~InApp(x)' /\ ~InWait(x)' => tun'[x].priv = NULL
<1>1. tun'[x] = tun[x] /\ (InApp(x)' <=> InApp(x)) /\ (InWait(x)' <=> InWait(x))
  BY DEF Near, InApp, InWait
<1>2. tun[x].remote # NULL => tun[x].remote \in Socks /\ sock'[tun[x].remote] = sock[tun[x].remote]
  BY DEF Near, HeapInv, NoDanglingSock, Tunnel
<1>3. \A e : e \notin batch => e \notin batch'
  BY DEF Near
<1>4. RunOK(tun[x], sock, batch) => RunOK(tun'[x], sock', batch')
  BY <1>1, <1>2, <1>3 DEF RunOK
<1>5. ParkedOK(tun[x], sock, batch) => ParkedOK(tun'[x], sock', batch')
  BY <1>1, <1>2, <1>3 DEF ParkedOK
<1> QED
  BY <1>1, <1>4, <1>5 DEF TunnelsOK

LEMMA NearLists ==
    ASSUME PoolInv, NEW r, Near(r)
    PROVE  ListsApart'
  BY DEF PoolInv, ListsApart, Near, InApp, InWait, Fresh

\* Every other socket keeps its tunnel, and the tunnel its ends.
LEMMA OtherSocks ==
    ASSUME HeapInv, SocksOK, NEW r \in Tunnels, Near(r),
           NEW j \in Socks, sock'[j].alloc, sock[j].tunnel # r
    PROVE  SockOK(j)'
<1>1. sock[j].alloc /\ sock'[j] = sock[j] /\ sock[j].tunnel \in Tunnels
  BY DEF Near, HeapInv, SockInTunnel
<1>2. tun'[sock[j].tunnel] = tun[sock[j].tunnel]
  BY <1>1 DEF Near
<1> QED
  BY <1>1, <1>2 DEF SocksOK, SockOK, Near, InApp, InWait

LEMMA LocalApp ==
    ASSUME HeapInv, PoolInv, NEW r \in Tunnels, InApp(r), Near(r),
           AppT(tun'[r]), RunOK(tun'[r], sock', batch'),
           \A j \in Socks : sock'[j].alloc /\ sock'[j].ispriv /\ sock[j].tunnel = r => tun'[r].priv = j
    PROVE  PoolInv'
<1>1. InApp(r)' /\ ~InWait(r)'
  BY DEF PoolInv, ListsApart, Near, InApp, InWait
<1>2. TunnelsOK'
  BY <1>1, OtherTunnels DEF PoolInv, TunnelsOK
<1>3. SocksOK'
  <2> SUFFICES ASSUME NEW j \in Socks, sock'[j].alloc
               PROVE  SockOK(j)'
    BY DEF SocksOK
  <2>1. CASE sock[j].tunnel = r
    BY <1>1, <2>1 DEF Near, SockOK
  <2>2. CASE sock[j].tunnel # r
    BY <2>2, OtherSocks DEF PoolInv
  <2> QED
    BY <2>1, <2>2
<1> QED
  BY <1>2, <1>3, NearLists DEF PoolInv

LEMMA LocalWait ==
    ASSUME HeapInv, PoolInv, NEW r \in Tunnels, InWait(r), Near(r),
           WaitT(tun'[r]), ParkedOK(tun'[r], sock', batch'),
           \A j \in Socks : sock'[j].alloc /\ sock[j].tunnel = r => tun'[r].remote = j
    PROVE  PoolInv'
<1>1. InWait(r)' /\ ~InApp(r)'
  BY DEF PoolInv, ListsApart, Near, InApp, InWait
<1>2. TunnelsOK'
  BY <1>1, OtherTunnels DEF PoolInv, TunnelsOK
<1>3. SocksOK'
  <2> SUFFICES ASSUME NEW j \in Socks, sock'[j].alloc
               PROVE  SockOK(j)'
    BY DEF SocksOK
  <2>1. CASE sock[j].tunnel = r
    <3>1. ~sock[j].ispriv
      <4>1. ~InApp(r) /\ sock[j].alloc
        BY DEF PoolInv, ListsApart, Near
      <4> QED
        BY <4>1, <2>1 DEF PoolInv, SocksOK, SockOK
    <3> QED
      BY <1>1, <2>1, <3>1 DEF Near, SockOK
  <2>2. CASE sock[j].tunnel # r
    BY <2>2, OtherSocks DEF PoolInv
  <2> QED
    BY <2>1, <2>2
<1> QED
  BY <1>2, <1>3, NearLists DEF PoolInv


----------------------------------------------------------------------------
(* The handlers of one event, for a socket of a tunnel of appList ...      *)

\* s is sock but for the sockets of tunnel r.
Around(r, s) == SameOwners(s) /\ \A j \in Socks : sock[j].tunnel # r => s[j] = sock[j]

\* What a handler leaves alone besides the sockets.
OneTunnel(r) == /\ UNCHANGED <<appList, waitList>> /\ batch' \subseteq batch
                /\ \A x \in Tunnels : x # r => tun'[x] = tun[x]

\* s is sock but for the bytes read from k and its state.
ReadOf(k, s) == /\ SameOwners(s)
                /\ \A j \in Socks : j # k => s[j] = sock[j]
                /\ s[k].wbuf = sock[k].wbuf /\ s[k].mask = sock[k].mask

LEMMA ReadAround ==
    ASSUME NEW k \in Socks, NEW s, ReadOf(k, s)
    PROVE  Around(sock[k].tunnel, s) /\ SameOwners(s)
  BY DEF ReadOf, Around

LEMMA NearKept ==
    ASSUME NEW r, OneTunnel(r), Around(r, sock')
    PROVE  Near(r)
  BY DEF OneTunnel, Around, Near, SameOwners

LEMMA NearReleased ==
    ASSUME NEW r, OneTunnel(r), NEW s, Around(r, s), NEW ks, sock' = Released(s, ks),
           \A j \in Socks : j \in ks => sock[j].tunnel = r
    PROVE  Near(r)
<1>1. \A j \in Socks : sock'[j] = IF j \in ks THEN NoSock ELSE s[j]
  BY DEF Released
<1>2. ~NoSock.alloc
  BY DEF NoSock
<1>3. \A j \in Socks : sock[j].tunnel # r => sock'[j] = sock[j]
  BY <1>1 DEF Around
<1>4. \A j \in Socks : sock'[j].alloc => /\ sock[j].alloc
                                         /\ sock'[j].ispriv = sock[j].ispriv
                                         /\ sock'[j].tunnel = sock[j].tunnel
  BY <1>1, <1>2 DEF Around, SameOwners
<1> QED
  BY <1>3, <1>4 DEF Near, OneTunnel

\* A step that frees no socket and keeps the ends of the tunnel.
LEMMA KeptApp ==
    ASSUME HeapInv, PoolInv, NEW r \in Tunnels, InApp(r), OneTunnel(r), Around(r, sock'),
           tun'[r].priv = tun[r].priv, AppT(tun'[r]), RunOK(tun'[r], sock', batch')
    PROVE  PoolInv'
<1>1. \A j \in Socks : sock'[j].alloc /\ sock'[j].ispriv /\ sock[j].tunnel = r => tun'[r].priv = j
  BY DEF Around, SameOwners, PoolInv, SocksOK, SockOK
<1> QED
  BY <1>1, NearKept, LocalApp

\* A step that changes no tunnel and no socket.
LEMMA NothingMoved ==
    ASSUME HeapInv, PoolInv, UNCHANGED <<tun, sock, appList, waitList>>, batch' \subseteq batch
    PROVE  PoolInv'
<1>1. ListsApart' /\ SocksOK'
  BY DEF PoolInv, ListsApart, SocksOK, SockOK, InApp, InWait, Fresh
<1>2. ASSUME NEW r \in Tunnels
      PROVE  /\ RunOK(tun[r], sock, batch) => RunOK(tun'[r], sock', batch')
             /\ ParkedOK(tun[r], sock, batch) => ParkedOK(tun'[r], sock', batch')
  BY DEF RunOK, ParkedOK
<1>3. TunnelsOK'
  BY <1>2 DEF PoolInv, TunnelsOK, InApp, InWait
<1> QED
  BY <1>1, <1>3 DEF PoolInv

LEMMA ForceApp ==
    ASSUME HeapInv, PoolInv, NEW k \in Socks, sock[k].alloc, InApp(sock[k].tunnel),
           NEW s, Around(sock[k].tunnel, s),
           \A j \in Socks : j # k /\ ~sock[j].ispriv => s[j] = sock[j],
           SockForceShutdown(k, s), UNCHANGED appList, batch' \subseteq batch
    PROVE  PoolInv'
<1> DEFINE r == sock[k].tunnel
           t == tun[r]
           u == ForcedT(t, k, sock[k].ispriv)
<1>1. r \in Tunnels /\ s[k].tunnel = r /\ s[k].ispriv = sock[k].ispriv /\ sock[k].ispriv \in BOOLEAN
  BY DEF HeapInv, SockInTunnel, Around, SameOwners, Sock
<1>2. tun \in [Tunnels -> Tunnel] /\ t \in Tunnel /\ AppT(t) /\ RunOK(t, sock, batch)
  BY <1>1 DEF HeapInv, PoolInv, TunnelsOK
<1>3. tun' = [tun EXCEPT ![r] = u] /\ sock' = Released(s, {k}) /\ UNCHANGED waitList
  BY <1>1 DEF SockForceShutdown
<1>4. tun'[r] = u /\ OneTunnel(r)
  BY <1>1, <1>2, <1>3 DEF OneTunnel
<1>5. Near(r)
  BY <1>3, <1>4, NearReleased
<1>6. /\ u.state = t.state
      /\ u.status = IF t.remote = k THEN "tunn_is_idle" ELSE t.status
      /\ u.priv = IF sock[k].ispriv THEN NULL ELSE t.priv
      /\ u.remote = IF t.remote = k \/ ~sock[k].ispriv THEN NULL ELSE t.remote
  BY <1>2 DEF ForcedT, Tunnel, AppT, AppStatus
<1> HIDE DEF r, t, u
<1>7. AppT(u)
  BY <1>2, <1>6 DEF AppT, AppStatus
<1>8. RunOK(u, sock', batch')
  <2> SUFFICES ASSUME u.status = "tunn_is_run", u.remote # NULL
               PROVE  \/ u.state = "connected_state" /\ ~sock'[u.remote].rbuf
                      \/ u.state # "connected_state" /\ Silent(sock'[u.remote]) /\ OutEvent(u.remote) \notin batch'
    BY DEF RunOK
  <2>1. u.remote = t.remote /\ t.remote # k /\ t.status = "tunn_is_run" /\ t.remote # NULL
    BY <1>6
  <2>2. t.remote \in Socks /\ ~sock[t.remote].ispriv
    BY <1>1, <1>2, <2>1 DEF Tunnel, HeapInv, NoDanglingSock, t, r
  <2>3. sock'[t.remote] = sock[t.remote]
    BY <1>3, <2>1, <2>2 DEF Released
  <2> QED
    BY <1>2, <1>6, <2>1, <2>3 DEF RunOK
<1>9. ASSUME NEW j \in Socks, sock'[j].alloc, sock'[j].ispriv, sock[j].tunnel = r
      PROVE  u.priv = j
  <2>1. j # k
    BY <1>3, <1>9 DEF Released, NoSock
  <2>2. sock[j].alloc /\ sock[j].ispriv
    BY <1>5, <1>9 DEF Near
  <2>3. t.priv = j /\ (sock[k].ispriv => t.priv = k)
    BY <1>9, <2>2 DEF PoolInv, SocksOK, SockOK, t, r
  <2> QED
    BY <1>6, <2>1, <2>3
<1>10. InApp(r) /\ r \in Tunnels
  BY <1>1 DEF r
<1> QED
  BY <1>4, <1>5, <1>7, <1>8, <1>9, <1>10, LocalApp

LEMMA CloseApp ==
    ASSUME HeapInv, PoolInv, NEW k \in Socks, sock[k].alloc, InApp(sock[k].tunnel),
           NEW s, ReadOf(k, s), CloseSock(k, s), UNCHANGED appList, batch' \subseteq batch
    PROVE  PoolInv'
<1> DEFINE r == sock[k].tunnel
           t == tun[r]
           q == ForcedT(t, k, TRUE).remote
<1>1. r \in Tunnels /\ s[k].tunnel = r /\ s[k].ispriv = sock[k].ispriv
  BY DEF HeapInv, SockInTunnel, ReadOf, SameOwners
<1>2. tun \in [Tunnels -> Tunnel] /\ t \in Tunnel /\ AppT(t) /\ RunOK(t, sock, batch)
  BY <1>1 DEF HeapInv, PoolInv, TunnelsOK
<1>3. Around(r, s) /\ UNCHANGED waitList
  BY ReadAround DEF CloseSock
<1>4. \A j \in Socks : sock[j].alloc /\ sock[j].ispriv /\ sock[j].tunnel = r => t.priv = j
  BY DEF PoolInv, SocksOK, SockOK
<1>5. CASE /\ k = t.priv
           /\ tun' = [tun EXCEPT ![r] = PrivShutT(t, k)]
           /\ sock' = Released(s, {k, q})
  <2>1. tun'[r] = PrivShutT(t, k) /\ OneTunnel(r)
    BY <1>1, <1>2, <1>3, <1>5 DEF OneTunnel
  <2>2. tun'[r].priv = NULL /\ tun'[r].remote = NULL /\ tun'[r].state = t.state
    BY <1>2, <2>1, PrivShutType
  <2>3. tun'[r].status \in AppStatus
    <3> DEFINE f == ForcedT(t, k, TRUE)
               t1 == [f EXCEPT !.status = "tunn_is_free", !.priv = NULL]
    <3>1. f \in Tunnel
      BY <1>2, ForcedType
    <3> HIDE DEF f
    <3>2. t1 \in Tunnel /\ t1.status = "tunn_is_free"
      BY <3>1 DEF Tunnel, AppStatus
    <3>3. tun'[r] = IF t1.remote = NULL THEN t1 ELSE ForcedT(t1, t1.remote, FALSE)
      BY <2>1 DEF PrivShutT, f
    <3> HIDE DEF t1
    <3>4. ForcedT(t1, t1.remote, FALSE).status = "tunn_is_idle"
      BY <3>2 DEF ForcedT, Tunnel
    <3> QED
      BY <3>2, <3>3, <3>4 DEF AppStatus
  <2>4. q \in {NULL, t.remote}
    BY <1>2, ForcedType
  <2>5. \A j \in Socks : j \in {k, q} => sock[j].tunnel = r
    <3> SUFFICES ASSUME NEW j \in Socks, j = t.remote
                 PROVE  sock[j].tunnel = r
      BY <2>4
    <3> QED
      BY <1>1, OneOwner
  <2>6. Near(r)
    BY <1>3, <1>5, <2>1, <2>5, NearReleased
  <2>7. ~sock'[k].alloc
    BY <1>5 DEF Released, NoSock
  <2>8. AppT(tun'[r]) /\ RunOK(tun'[r], sock', batch')
    BY <1>2, <2>2, <2>3 DEF AppT, RunOK
  <2>9. \A j \in Socks : sock'[j].alloc /\ sock'[j].ispriv /\ sock[j].tunnel = r => tun'[r].priv = j
    BY <1>4, <1>5, <2>6, <2>7 DEF Near
  <2> QED
    BY <1>1, <2>6, <2>8, <2>9, LocalApp
<1>6. CASE /\ k # t.priv /\ k = t.remote /\ t.state = "connected_state"
           /\ tun' = [tun EXCEPT ![r] = RemoteShutT(t, k)]
           /\ sock' = Released(s, {k})
  <2>1. tun'[r] = RemoteShutT(t, k) /\ OneTunnel(r)
    BY <1>1, <1>2, <1>3, <1>6 DEF OneTunnel
  <2>2. tun'[r].priv = t.priv /\ tun'[r].remote = NULL /\ tun'[r].state = t.state
    BY <1>2, <2>1, RemoteShutType
  <2>3. tun'[r].status = "tunn_is_idle"
    <3>1. ForcedT(t, k, FALSE) \in Tunnel
      BY <1>2, ForcedType
    <3> QED
      BY <1>6, <2>1, <3>1, ZenonT(30) DEF RemoteShutT, Tunnel
  <2>4. Near(r)
    BY <1>3, <1>6, <2>1, NearReleased
  <2>5. AppT(tun'[r]) /\ RunOK(tun'[r], sock', batch')
    BY <1>2, <2>2, <2>3 DEF AppT, RunOK, AppStatus
  <2>6. \A j \in Socks : sock'[j].alloc /\ sock'[j].ispriv /\ sock[j].tunnel = r => tun'[r].priv = j
    BY <1>4, <2>2, <2>4 DEF Near
  <2> QED
    BY <1>1, <2>4, <2>5, <2>6, LocalApp
<1>7. CASE k # t.priv /\ ~(k = t.remote /\ t.state = "connected_state") /\ sock' = s /\ UNCHANGED tun
  <2>1. OneTunnel(r) /\ tun'[r].priv = t.priv /\ AppT(tun'[r])
    BY <1>2, <1>3, <1>7 DEF OneTunnel
  <2>2. RunOK(t, s, batch')
    <3>1. CASE t.remote = k
      BY <1>2, <1>7, <3>1 DEF RunOK, ReadOf, Silent
    <3>2. CASE t.remote # k
      <4>1. t.remote # NULL => s[t.remote] = sock[t.remote]
        BY <1>2, <3>2 DEF Tunnel, ReadOf
      <4> QED
        BY <1>2, <4>1 DEF RunOK
    <3> QED
      BY <3>1, <3>2
  <2> QED
    BY <1>1, <1>3, <1>7, <2>1, <2>2, KeptApp
<1>8. t.status # "tmptun_is_close" /\ t.state # "tunnel_waitting"
  BY <1>2 DEF AppT, AppStatus
<1> QED
  BY <1>1, <1>5, <1>6, <1>7, <1>8 DEF CloseSock

LEMMA ShutApp ==
    ASSUME HeapInv, PoolInv, NEW k \in Socks, sock[k].alloc, InApp(sock[k].tunnel),
           NEW s, ReadOf(k, s), s = sock \/ tun[sock[k].tunnel].remote # k,
           SockShutdown(k, s), UNCHANGED appList, batch' \subseteq batch
    PROVE  PoolInv'
<1> DEFINE r == sock[k].tunnel
           t == tun[r]
<1>1. r \in Tunnels /\ s[k].tunnel = r /\ SameOwners(s)
  BY DEF HeapInv, SockInTunnel, ReadOf, SameOwners
<1>2. tun \in [Tunnels -> Tunnel] /\ t \in Tunnel /\ AppT(t) /\ RunOK(t, sock, batch)
  BY <1>1 DEF HeapInv, PoolInv, TunnelsOK
<1>3. CASE Crash("null")
  BY <1>3, NothingMoved DEF Crash
<1>4. CASE /\ s[k].wbuf \/ (t.state = "connected_state" /\ k = t.remote)
           /\ sock' = [s EXCEPT ![k] = [@ EXCEPT !.half = TRUE, !.wbuf = TRUE, !.mask = {"out"}]]
           /\ UNCHANGED <<tun, waitList>>
  <2>1. SameOwners(sock')
    BY <1>1, <1>4, HalfOwners
  <2>2. s[k] \in Sock /\ \A j \in Socks : j # k => sock'[j] = sock[j]
    BY <1>1, <1>4 DEF ReadOf, SameOwners
  <2>3. sock'[k].rbuf = s[k].rbuf
    BY <1>1, <1>4, <2>2 DEF Sock, SameOwners
  <2>4. Around(r, sock') /\ OneTunnel(r)
    BY <1>4, <2>1, <2>2 DEF Around, OneTunnel
  <2>5. RunOK(t, sock', batch')
    <3>1. CASE t.remote = k
      <4>1. s = sock
        BY <3>1
      <4> QED
        BY <1>2, <1>4, <2>3, <3>1, <4>1 DEF RunOK, Silent
    <3>2. CASE t.remote # k
      <4>1. t.remote # NULL => sock'[t.remote] = sock[t.remote]
        BY <1>2, <2>2, <3>2 DEF Tunnel
      <4> QED
        BY <1>2, <4>1 DEF RunOK
    <3> QED
      BY <3>1, <3>2
  <2> QED
    BY <1>1, <1>2, <1>4, <2>4, <2>5, KeptApp
<1>5. CASE CloseSock(k, [s EXCEPT ![k] = [@ EXCEPT !.half = TRUE]])
  <2> DEFINE b == [s[k] EXCEPT !.half = TRUE]
  <2>1. s[k] \in Sock
    BY <1>1 DEF SameOwners
  <2>2. /\ b \in Sock /\ b.alloc = s[k].alloc /\ b.ispriv = s[k].ispriv /\ b.tunnel = s[k].tunnel
        /\ b.wbuf = s[k].wbuf /\ b.mask = s[k].mask
    BY <2>1 DEF Sock
  <2>3. CloseSock(k, [s EXCEPT ![k] = b])
    BY <1>5
  <2> HIDE DEF b
  <2>4. ReadOf(k, [s EXCEPT ![k] = b])
    BY <1>1, <2>2, PointOwners DEF ReadOf, SameOwners
  <2> QED
    BY <2>3, <2>4, CloseApp
<1> QED
  BY <1>1, <1>3, <1>4, <1>5 DEF SockShutdown

\* Outside connected_state a client in use stays silent while its buffers to write and its
\* mask are left alone.
LEMMA StillSilent ==
    ASSUME NEW t \in Tunnel, NEW u, RunOK(t, sock, batch), t.state # "connected_state",
           u.remote = t.remote,
           u.status = "tunn_is_run" => t.status = "tunn_is_run" /\ u.state # "connected_state",
           \A j \in Socks : j = t.remote => sock'[j].wbuf = sock[j].wbuf /\ sock'[j].mask = sock[j].mask,
           batch' \subseteq batch
    PROVE  RunOK(u, sock', batch')
  BY DEF RunOK, Silent, Tunnel

LEMMA HandshakeApp ==
    ASSUME HeapInv, PoolInv, NEW k \in Socks, sock[k].alloc, InApp(sock[k].tunnel),
           NEW s, ReadOf(k, s), tun[sock[k].tunnel].state \in HandshakeStates, Handshake(k, s),
           UNCHANGED appList, batch' \subseteq batch
    PROVE  PoolInv'
<1> DEFINE r == sock[k].tunnel
           t == tun[r]
           p == t.priv
           u == HandshakeDone(t)
<1>1. r \in Tunnels /\ s[k].tunnel = r /\ SameOwners(s)
  BY DEF HeapInv, SockInTunnel, ReadOf, SameOwners
<1>2. tun \in [Tunnels -> Tunnel] /\ t \in Tunnel /\ AppT(t) /\ RunOK(t, sock, batch)
      /\ t.state \in HandshakeStates /\ t.state # "connected_state"
  BY <1>1 DEF HeapInv, PoolInv, TunnelsOK, HandshakeStates
<1>3. \A j \in Socks : s[j].wbuf = sock[j].wbuf /\ s[j].mask = sock[j].mask
  BY DEF ReadOf
<1>4. Around(r, s)
  BY ReadAround
<1>5. p # NULL => /\ p \in Socks /\ sock[p].tunnel = r /\ p # t.remote
                  /\ s[p] \in Sock
  BY <1>1, <1>2 DEF Tunnel, SameOwners, HeapInv, NoDanglingSock
<1>6. CASE Crash("null")
  BY <1>6, NothingMoved DEF Crash
<1>8. ASSUME p # NULL, NEW c, SameOwners(c), UNCHANGED waitList,
             \A j \in Socks : j # p => c[j] = s[j],
             sock' = c, NEW v, tun' = [tun EXCEPT ![r] = v],
             v.priv = t.priv, v.remote = t.remote, AppT(v),
             v.status = "tunn_is_run" => t.status = "tunn_is_run" /\ v.state # "connected_state"
      PROVE  PoolInv'
  <2>1. tun'[r] = v /\ OneTunnel(r)
    BY <1>1, <1>2, <1>8 DEF OneTunnel
  <2>2. Around(r, sock')
    BY <1>4, <1>5, <1>8 DEF Around
  <2>3. RunOK(v, sock', batch')
    BY <1>2, <1>3, <1>5, <1>8, StillSilent
  <2> QED
    BY <1>1, <1>8, <2>1, <2>2, <2>3, KeptApp
<1>9. ASSUME p # NULL, NEW rest \in BOOLEAN, sock' = [s EXCEPT ![p] = [@ EXCEPT !.rbuf = rest]],
             UNCHANGED <<tun, waitList, fault>>
      PROVE  PoolInv'
  <2> DEFINE c == [s EXCEPT ![p] = [@ EXCEPT !.rbuf = rest]]
  <2>1. SameOwners(c)
    <3> HIDE DEF p
    <3> QED
      BY <1>1, <1>5, <1>9, RbufOwners
  <2>2. \A j \in Socks : j # p => c[j] = s[j]
    BY <1>1 DEF SameOwners
  <2>3. tun' = [tun EXCEPT ![r] = t] /\ sock' = c
    BY <1>1, <1>2, <1>9
  <2> HIDE DEF c, p, t, r
  <2> QED
    BY <1>2, <1>8, <1>9, <2>1, <2>2, <2>3
<1>10. ASSUME p # NULL, NEW rest \in BOOLEAN,
              SockForceShutdown(k, [s EXCEPT ![p] = [@ EXCEPT !.rbuf = rest]])
       PROVE  PoolInv'
  <2> DEFINE c == [s EXCEPT ![p] = [@ EXCEPT !.rbuf = rest]]
  <2>1. SameOwners(c)
    <3> HIDE DEF p
    <3> QED
      BY <1>1, <1>5, <1>10, RbufOwners
  <2>2. \A j \in Socks : j # p => c[j] = s[j]
    BY <1>1 DEF SameOwners
  <2>3. sock[p].ispriv
    BY <1>1, <1>5, <1>10 DEF HeapInv, NoDanglingSock
  <2>4. SockForceShutdown(k, c)
    BY <1>10
  <2> HIDE DEF c, p
  <2>5. Around(sock[k].tunnel, c)
    BY <1>4, <1>5, <1>10, <2>1, <2>2 DEF Around
  <2>6. \A j \in Socks : j # k /\ ~sock[j].ispriv => c[j] = sock[j]
    BY <2>2, <2>3 DEF ReadOf
  <2> QED
    BY <2>4, <2>5, <2>6, ForceApp
<1>11. ASSUME p # NULL, NEW rest \in BOOLEAN,
              sock' = [s EXCEPT ![p] = [@ EXCEPT !.rbuf = rest, !.wbuf = TRUE, !.mask = {"in", "out"}]],
              tun' = [tun EXCEPT ![r] = HandshakeDone(t)], UNCHANGED <<waitList, fault>>
       PROVE  PoolInv'
  <2> DEFINE c == [s EXCEPT ![p] = [@ EXCEPT !.rbuf = rest, !.wbuf = TRUE, !.mask = {"in", "out"}]]
  <2>1. SameOwners(c)
    <3> HIDE DEF p
    <3> QED
      BY <1>1, <1>5, <1>11, ReplyOwners
  <2>2. \A j \in Socks : j # p => c[j] = s[j]
    BY <1>1 DEF SameOwners
  <2>3. /\ u.priv = t.priv /\ u.remote = t.remote /\ AppT(u)
        /\ u.status = "tunn_is_run" => t.status = "tunn_is_run" /\ u.state # "connected_state"
    <3>1. CASE t.state = "open_state"
      BY <1>2, <3>1 DEF HandshakeDone, OpenDone, Tunnel, AppT
    <3>2. CASE t.state = "auth_state"
      BY <1>2, <3>2 DEF HandshakeDone, AuthDone, Tunnel, AppT
    <3>3. CASE t.state = "request_state"
      BY <1>2, <3>3 DEF HandshakeDone, RequestDone, Tunnel, AppT, AppStatus
    <3> QED
      BY <1>2, <3>1, <3>2, <3>3 DEF HandshakeStates
  <2>4. sock' = c /\ tun' = [tun EXCEPT ![r] = u]
    BY <1>11
  <2> HIDE DEF c, p, t, r, u
  <2> QED
    BY <1>8, <1>11, <2>1, <2>2, <2>3, <2>4
<1>12. \/ Crash("null")
       \/ /\ p # NULL
          /\ \/ \E rest \in BOOLEAN : /\ sock' = [s EXCEPT ![p] = [@ EXCEPT !.rbuf = rest]]
                                      /\ UNCHANGED <<tun, waitList, fault>>
             \/ \E rest \in BOOLEAN : SockForceShutdown(k, [s EXCEPT ![p] = [@ EXCEPT !.rbuf = rest]])
             \/ \E rest \in BOOLEAN :
                  /\ sock' = [s EXCEPT ![p] = [@ EXCEPT !.rbuf = rest, !.wbuf = TRUE, !.mask = {"in", "out"}]]
                  /\ tun' = [tun EXCEPT ![r] = HandshakeDone(t)]
                  /\ UNCHANGED <<waitList, fault>>
  BY <1>1 DEF Handshake
<1> HIDE DEF p, t, r, u
<1> QED
  BY <1>6, <1>9, <1>10, <1>11, <1>12

\* What relaying does to the two sockets.
LEMMA RelayRbuf ==
    ASSUME NEW s, SameOwners(s), NEW from \in Socks, NEW to \in Socks, from # to
    PROVE  /\ ~Relay(s, from, to)[from].rbuf
           /\ Relay(s, from, to)[to].rbuf = s[to].rbuf
           /\ \A j \in Socks : j \notin {from, to} => Relay(s, from, to)[j] = s[j]
<1> DEFINE b == [s[to] EXCEPT !.wbuf = s[to].wbuf \/ s[from].rbuf, !.mask = {"in", "out"}]
           c == [s[from] EXCEPT !.rbuf = FALSE]
           s1 == [s EXCEPT ![to] = b]
<1>1. s \in [Socks -> Sock] /\ s[from] \in Sock /\ s[to] \in Sock
  BY DEF SameOwners
<1>2. b.rbuf = s[to].rbuf /\ ~c.rbuf
  BY <1>1 DEF Sock
<1>3. s1[from] = s[from] /\ DOMAIN s1 = Socks
  BY <1>1
<1>4. Relay(s, from, to) = [s1 EXCEPT ![from] = c]
  BY <1>3 DEF Relay
<1> HIDE DEF b, c
<1> QED
  BY <1>1, <1>2, <1>4

LEMMA ConnectedApp ==
    ASSUME HeapInv, PoolInv, NEW k \in Socks, sock[k].alloc, InApp(sock[k].tunnel),
           NEW s, ReadOf(k, s), tun[sock[k].tunnel].state = "connected_state", TunnelConnected(k, s),
           UNCHANGED appList, batch' \subseteq batch
    PROVE  PoolInv'
<1> DEFINE r == sock[k].tunnel
           t == tun[r]
           other == IF sock[k].ispriv THEN t.remote ELSE t.priv
           mine == IF sock[k].ispriv THEN t.priv ELSE t.remote
<1>1. r \in Tunnels /\ s[k].tunnel = r /\ SameOwners(s) /\ s[k].ispriv = sock[k].ispriv
  BY DEF HeapInv, SockInTunnel, ReadOf, SameOwners
<1>2. tun \in [Tunnels -> Tunnel] /\ t \in Tunnel /\ AppT(t) /\ RunOK(t, sock, batch)
  BY <1>1 DEF HeapInv, PoolInv, TunnelsOK
<1>3. Around(r, s)
  BY ReadAround
<1>4. /\ t.priv # NULL => t.priv \in Socks /\ sock[t.priv].ispriv /\ sock[t.priv].tunnel = r
      /\ t.remote # NULL => t.remote \in Socks /\ ~sock[t.remote].ispriv /\ sock[t.remote].tunnel = r
  BY <1>1, <1>2 DEF HeapInv, NoDanglingSock, Tunnel
<1>5. ASSUME NEW c, sock' = c, SameOwners(c), UNCHANGED <<tun, waitList, fault>>,
             \A j \in Socks : j \notin {t.priv, t.remote} => c[j] = s[j],
             t.remote # NULL => ~c[t.remote].rbuf \/ c[t.remote].rbuf = sock[t.remote].rbuf
      PROVE  PoolInv'
  <2>1. OneTunnel(r) /\ Around(r, sock')
    BY <1>3, <1>4, <1>5 DEF OneTunnel, Around
  <2>2. RunOK(t, sock', batch')
    BY <1>2, <1>5 DEF RunOK
  <2> QED
    BY <1>1, <1>2, <1>5, <2>1, <2>2, KeptApp
<1>6. CASE Crash("null")
  BY <1>6, NothingMoved DEF Crash
<1>7. CASE other = NULL /\ TunnelShutdown(k, s)
  <2>1. CASE k = t.remote
    <3>1. t.priv = NULL
      BY <1>4, <1>7, <2>1
    <3> QED
      BY <1>1, <1>6, <1>7, <2>1, <3>1 DEF TunnelShutdown, SockShutdown
  <2>2. CASE k = t.priv
    <3>1. t.remote # k
      BY <1>4, <2>2
    <3> QED
      BY <1>1, <1>7, <2>2, <3>1, ShutApp DEF TunnelShutdown
  <2>3. CASE k \notin {t.priv, t.remote}
    <3>1. sock' = s /\ UNCHANGED <<tun, waitList, fault>>
      BY <1>1, <1>7, <2>3 DEF TunnelShutdown
    <3>2. t.remote # NULL => s[t.remote].rbuf = sock[t.remote].rbuf
      BY <1>4, <2>3 DEF ReadOf
    <3> QED
      BY <1>1, <1>5, <3>1, <3>2
  <2> QED
    BY <2>1, <2>2, <2>3
<1>8. CASE ~s[k].rbuf /\ sock' = s /\ UNCHANGED <<tun, waitList, fault>>
  <2>1. t.remote # NULL => ~s[t.remote].rbuf \/ s[t.remote].rbuf = sock[t.remote].rbuf
    BY <1>4, <1>8 DEF ReadOf
  <2> QED
    BY <1>1, <1>5, <1>8, <2>1
<1>9. CASE /\ other # NULL /\ mine # NULL
           /\ sock' = Relay(s, mine, other) /\ UNCHANGED <<tun, waitList, fault>>
  <2>1. mine \in Socks /\ other \in Socks /\ mine # other /\ {mine, other} = {t.priv, t.remote}
    BY <1>4, <1>9
  <2> HIDE DEF mine, other
  <2>2. /\ ~sock'[mine].rbuf /\ sock'[other].rbuf = s[other].rbuf
        /\ \A j \in Socks : j \notin {mine, other} => sock'[j] = s[j]
        /\ SameOwners(sock')
    <3>1. mine \in Socks /\ other \in Socks /\ mine # other /\ SameOwners(s)
      BY ONLY <1>1, <2>1
    <3>2. sock' = Relay(s, mine, other)
      BY ONLY <1>9
    <3>3. /\ ~Relay(s, mine, other)[mine].rbuf /\ Relay(s, mine, other)[other].rbuf = s[other].rbuf
          /\ \A j \in Socks : j \notin {mine, other} => Relay(s, mine, other)[j] = s[j]
      BY ONLY <3>1, RelayRbuf, ZenonT(30)
    <3>4. SameOwners(Relay(s, mine, other))
      BY ONLY <3>1, RelayOwners, ZenonT(30)
    <3> QED
      BY ONLY <3>2, <3>3, <3>4, Zenon
  <2>3. sock[k].ispriv => t.remote # k /\ s[t.remote] = sock[t.remote]
    BY <1>4, <1>9, <2>1 DEF ReadOf, mine, other
  <2>4. ~sock'[t.remote].rbuf \/ sock'[t.remote].rbuf = sock[t.remote].rbuf
    BY <2>2, <2>3 DEF mine, other
  <2> QED
    BY <1>5, <1>9, <2>1, <2>2, <2>4
<1>10. \/ other = NULL /\ TunnelShutdown(k, s)
       \/ ~s[k].rbuf /\ sock' = s /\ UNCHANGED <<tun, waitList, fault>>
       \/ /\ other # NULL /\ mine # NULL
          /\ sock' = Relay(s, mine, other) /\ UNCHANGED <<tun, waitList, fault>>
       \/ Crash("null")
  BY <1>1 DEF TunnelConnected
<1> HIDE DEF mine, other, t, r
<1> QED
  BY <1>6, <1>7, <1>8, <1>9, <1>10

----------------------------------------------------------------------------
(* ... and for a socket of a wait entry.                                   *)

LEMMA EntryOf ==
    ASSUME HeapInv, PoolInv, NEW k \in Socks, sock[k].alloc, InWait(sock[k].tunnel)
    PROVE  LET r == sock[k].tunnel
           IN  /\ r \in Tunnels /\ ~sock[k].ispriv /\ tun[r] \in Tunnel /\ tun[r].remote = k
               /\ WaitT(tun[r]) /\ ParkedOK(tun[r], sock, batch)
               /\ tun[r].status \in {"tmptun_is_wait", "tmptun_is_alive", "tmptun_is_close"}
               /\ \A j \in Socks : sock[j].alloc /\ sock[j].tunnel = r => j = k
<1> DEFINE r == sock[k].tunnel
<1>1. r \in Tunnels /\ tun[r] \in Tunnel
  BY DEF HeapInv, SockInTunnel
<1>2. ~InApp(r)
  BY <1>1 DEF PoolInv, ListsApart
<1>3. \A j \in Socks : sock[j].alloc /\ sock[j].tunnel = r => ~sock[j].ispriv /\ tun[r].remote = j
  BY <1>2 DEF PoolInv, SocksOK, SockOK
<1>4. WaitT(tun[r]) /\ ParkedOK(tun[r], sock, batch)
  BY <1>1 DEF PoolInv, TunnelsOK
<1>5. tun[r].remote = k /\ ~sock[k].ispriv
  BY <1>3
<1>6. tun[r].status \in {"tmptun_is_wait", "tmptun_is_alive", "tmptun_is_close"}
  BY <1>4, <1>5 DEF WaitT, WaitStatus
<1> QED
  BY <1>1, <1>3, <1>4, <1>5, <1>6

\* A step that keeps the client of the entry.
LEMMA KeptWait ==
    ASSUME HeapInv, PoolInv, NEW k \in Socks, sock[k].alloc, InWait(sock[k].tunnel),
           OneTunnel(sock[k].tunnel), Around(sock[k].tunnel, sock'),
           tun'[sock[k].tunnel].remote = k, WaitT(tun'[sock[k].tunnel]),
           ParkedOK(tun'[sock[k].tunnel], sock', batch')
    PROVE  PoolInv'
<1>1. \A j \in Socks : sock'[j].alloc => sock[j].alloc
  BY DEF Around, SameOwners
<1> QED
  BY <1>1, EntryOf, NearKept, LocalWait

\* A step that frees the entry with its client.
LEMMA FreedWait ==
    ASSUME HeapInv, PoolInv, NEW k \in Socks, sock[k].alloc, InWait(sock[k].tunnel),
           NEW s, ReadOf(k, s), OneTunnel(sock[k].tunnel), sock' = Released(s, {k}),
           WaitT(tun'[sock[k].tunnel]), tun'[sock[k].tunnel].remote = NULL
    PROVE  PoolInv'
<1> DEFINE r == sock[k].tunnel
<1>1. Near(r)
  BY ReadAround, NearReleased
<1>2. ~sock'[k].alloc
  BY DEF Released, NoSock
<1>3. \A j \in Socks : sock'[j].alloc /\ sock[j].tunnel = r => tun'[r].remote = j
  BY <1>1, <1>2, EntryOf DEF Near
<1>4. ParkedOK(tun'[r], sock', batch')
  BY DEF ParkedOK
<1> QED
  BY <1>1, <1>3, <1>4, EntryOf, LocalWait

LEMMA ForceWait ==
    ASSUME HeapInv, PoolInv, NEW k \in Socks, sock[k].alloc, InWait(sock[k].tunnel),
           tun[sock[k].tunnel].status = "tmptun_is_close",
           NEW s, ReadOf(k, s), SockForceShutdown(k, s), UNCHANGED appList, batch' \subseteq batch
    PROVE  PoolInv'
<1> DEFINE r == sock[k].tunnel
           t == tun[r]
           u == ForcedT(t, k, FALSE)
<1>1. /\ r \in Tunnels /\ t \in Tunnel /\ t.remote = k /\ WaitT(t) /\ t.status = "tmptun_is_close"
      /\ ~sock[k].ispriv /\ sock[k].ispriv \in BOOLEAN
  BY EntryOf DEF HeapInv, Sock
<1>2. s[k].tunnel = r /\ s[k].ispriv = FALSE
  BY <1>1 DEF ReadOf, SameOwners
<1>3. tun' = [tun EXCEPT ![r] = u] /\ sock' = Released(s, {k}) /\ OneTunnel(r)
  BY <1>1, <1>2 DEF SockForceShutdown, OneTunnel, HeapInv
<1>4. tun'[r] = u
  BY <1>1, <1>3 DEF HeapInv
<1>5. u.state = t.state /\ u.priv = t.priv /\ u.remote = NULL /\ u.status = "tmptun_is_free"
  BY <1>1 DEF ForcedT, Tunnel
<1>6. WaitT(u)
  BY <1>1, <1>5 DEF WaitT, WaitStatus
<1> QED
  BY <1>3, <1>4, <1>5, <1>6, FreedWait

LEMMA ShutWait ==
    ASSUME HeapInv, PoolInv, NEW k \in Socks, sock[k].alloc, InWait(sock[k].tunnel),
           SockShutdown(k, sock), UNCHANGED appList, batch' \subseteq batch
    PROVE  PoolInv'
<1> DEFINE r == sock[k].tunnel
           t == tun[r]
           s == [sock EXCEPT ![k] = [@ EXCEPT !.half = TRUE]]
<1>1. /\ r \in Tunnels /\ t \in Tunnel /\ t.remote = k /\ WaitT(t) /\ ParkedOK(t, sock, batch)
      /\ t.state = "tunnel_waitting" /\ t.priv = NULL /\ tun \in [Tunnels -> Tunnel]
      /\ sock \in [Socks -> Sock] /\ sock[k] \in Sock /\ SameOwners(sock)
  BY EntryOf, SelfOwners DEF WaitT, HeapInv
<1>2. CASE /\ sock[k].wbuf /\ UNCHANGED <<tun, waitList>>
           /\ sock' = [sock EXCEPT ![k] = [@ EXCEPT !.half = TRUE, !.wbuf = TRUE, !.mask = {"out"}]]
  <2>1. SameOwners(sock') /\ \A j \in Socks : j # k => sock'[j] = sock[j]
    BY <1>1, <1>2, HalfOwners
  <2>2. sock'[k].rbuf = sock[k].rbuf
    BY <1>1, <1>2 DEF Sock
  <2>3. t.status = "tmptun_is_close"
    BY <1>1, <1>2 DEF ParkedOK, Silent
  <2>4. ParkedOK(t, sock', batch')
    BY <1>1, <2>2, <2>3 DEF ParkedOK
  <2>5. OneTunnel(r) /\ Around(r, sock') /\ tun'[r] = t
    BY <1>2, <2>1 DEF OneTunnel, Around
  <2> QED
    BY <1>1, <2>4, <2>5, KeptWait
<1>3. CASE CloseSock(k, s)
  <2>1. ReadOf(k, s)
    <3> DEFINE b == [sock[k] EXCEPT !.half = TRUE]
    <3>1. /\ b \in Sock /\ b.alloc = sock[k].alloc /\ b.ispriv = sock[k].ispriv
          /\ b.tunnel = sock[k].tunnel /\ b.wbuf = sock[k].wbuf /\ b.mask = sock[k].mask
      BY <1>1 DEF Sock
    <3>2. s = [sock EXCEPT ![k] = b]
      OBVIOUS
    <3> HIDE DEF b, s
    <3> QED
      BY <1>1, <3>1, <3>2, PointOwners DEF ReadOf
  <2> HIDE DEF s
  <2>2. s[k].tunnel = r
    BY <2>1 DEF ReadOf, SameOwners
  <2>3. tun' = [tun EXCEPT ![r] = RemoteShutT(t, k)] /\ sock' = Released(s, {k}) /\ UNCHANGED waitList
    BY <1>1, <1>3, <2>2 DEF CloseSock
  <2>4. tun'[r] = RemoteShutT(t, k) /\ OneTunnel(r)
    BY <1>1, <2>3 DEF OneTunnel
  <2>5. tun'[r].priv = NULL /\ tun'[r].remote = NULL /\ tun'[r].state = "tunnel_waitting"
    BY <1>1, <2>4, RemoteShutType
  <2>6. tun'[r].status = "tmptun_is_free"
    <3>1. ForcedT(t, k, FALSE) \in Tunnel
      BY <1>1, ForcedType
    <3> QED
      BY <1>1, <2>4, <3>1 DEF RemoteShutT, Tunnel
  <2>7. WaitT(tun'[r])
    BY <2>5, <2>6 DEF WaitT, WaitStatus
  <2> QED
    BY <2>1, <2>3, <2>4, <2>5, <2>7, FreedWait
<1>4. ~(t.state = "connected_state")
  BY <1>1
<1>5. \/ /\ sock[k].wbuf /\ UNCHANGED <<tun, waitList>>
         /\ sock' = [sock EXCEPT ![k] = [@ EXCEPT !.half = TRUE, !.wbuf = TRUE, !.mask = {"out"}]]
      \/ CloseSock(k, s)
  BY <1>4 DEF SockShutdown
<1> QED
  BY <1>2, <1>3, <1>5

LEMMA WaittingWait ==
    ASSUME HeapInv, PoolInv, NEW k \in Socks, sock[k].alloc, InWait(sock[k].tunnel),
           NEW s, ReadOf(k, s), TunnelWaitting(k, s), UNCHANGED appList, batch' \subseteq batch
    PROVE  PoolInv'
<1> DEFINE r == sock[k].tunnel
           t == tun[r]
<1>1. r \in Tunnels /\ t \in Tunnel /\ t.remote = k /\ WaitT(t) /\ tun \in [Tunnels -> Tunnel]
  BY EntryOf DEF HeapInv
<1>2. s[k].tunnel = r /\ SameOwners(s) /\ s[k] \in Sock /\ s \in [Socks -> Sock]
  BY DEF ReadOf, SameOwners
<1>3. /\ sock' = [s EXCEPT ![k] = [@ EXCEPT !.wbuf = TRUE, !.rbuf = FALSE, !.mask = {"in", "out"}]]
      /\ tun' = [tun EXCEPT ![r] = [t EXCEPT !.status = "tmptun_is_close"]]
      /\ UNCHANGED waitList
  BY <1>1, <1>2 DEF TunnelWaitting
<1>4. SameOwners(sock') /\ ~sock'[k].rbuf /\ \A j \in Socks : j # k => sock'[j] = s[j]
  <2>1. SameOwners(sock')
    BY <1>2, <1>3, PageOwners
  <2> QED
    BY <1>2, <1>3, <2>1 DEF Sock
<1>5. OneTunnel(r) /\ Around(r, sock')
  BY <1>1, <1>3, <1>4 DEF OneTunnel, Around, ReadOf
<1>6. tun'[r] = [t EXCEPT !.status = "tmptun_is_close"]
  BY <1>1, <1>3
<1>7. tun'[r].remote = k /\ WaitT(tun'[r]) /\ tun'[r].status = "tmptun_is_close"
  BY <1>1, <1>6 DEF WaitT, WaitStatus, Tunnel
<1>8. ParkedOK(tun'[r], sock', batch')
  BY <1>4, <1>7 DEF ParkedOK
<1> QED
  BY <1>5, <1>7, <1>8, KeptWait

----------------------------------------------------------------------------
(* A client is parked: its entry is a free one, or a new one.              *)

LEMMA FrontOf ==
    ASSUME NEW l \in Seq(Tunnels), NEW w \in Tunnels
    PROVE  LET m == <<w>> \o l
           IN  /\ m \in Seq(Tunnels) /\ Len(m) = Len(l) + 1
               /\ \A i \in DOMAIN m : m[i] = IF i = 1 THEN w ELSE l[i - 1]
               /\ \A i \in DOMAIN m : i = 1 \/ i - 1 \in DOMAIN l
               /\ 1 \in DOMAIN m /\ \A i \in DOMAIN l : i + 1 \in DOMAIN m /\ m[i + 1] = l[i]
  OBVIOUS

LEMMA EntryTaken ==
    ASSUME HeapInv, ListsOK, LoopOK, PoolInv, NEW w \in WaitObj,
           UNCHANGED appList, waitList' = WaitListWith(w)
    PROVE  /\ w \in Tunnels /\ ~InApp(w) /\ tun[w].priv = NULL
           /\ InWait(w) => tun[w].remote = NULL
           /\ \A x : InApp(x)' <=> InApp(x)
           /\ \A x : InWait(x)' <=> InWait(x) \/ x = w
           /\ ListsApart'
<1>1. w \in Tunnels /\ \A x : InApp(x)' <=> InApp(x)
  BY WaitObjType DEF InApp
<1>2. CASE WaitFree # {}
  <2>1. PICK i \in First(WaitFree) : w = waitList[i]
    BY <1>2 DEF WaitObj
  <2>2. i \in DOMAIN waitList /\ tun[w].status = "tmptun_is_free"
    BY <2>1, FirstIn DEF WaitFree
  <2>3. InWait(w) /\ waitList' = waitList
    BY <1>2, <2>1, <2>2 DEF InWait, WaitListWith
  <2>4. ~InApp(w) /\ WaitT(tun[w])
    BY <1>1, <2>3 DEF PoolInv, ListsApart, TunnelsOK
  <2>5. \A x : InWait(x)' <=> InWait(x)
    BY <2>3 DEF InWait
  <2>6. ListsApart'
    BY <1>1, <2>3, <2>5 DEF PoolInv, ListsApart, Fresh
  <2> QED
    BY <1>1, <2>2, <2>3, <2>4, <2>5, <2>6 DEF WaitT
<1>3. CASE WaitFree = {}
  <2>1. w = Fresh /\ waitList' = <<w>> \o waitList
    BY <1>3 DEF WaitObj, WaitListWith
  <2>2. Len(appList) \in Nat /\ Len(waitList) \in Nat /\ waitList \in Seq(Tunnels)
    BY DEF ListsOK, LoopOK
  <2>3. ~(w < Fresh) /\ Fresh \in Nat
    BY <2>1, <2>2 DEF Fresh
  <2>4. ~InApp(w) /\ ~InWait(w)
    BY <1>1, <2>3 DEF PoolInv, ListsApart
  <2>5. tun[w].priv = NULL
    BY <1>1, <2>4 DEF PoolInv, TunnelsOK
  <2>6. \A x : InWait(x)' <=> InWait(x) \/ x = w
    <3> DEFINE m == waitList'
    <3>1. /\ \A i \in DOMAIN m : m[i] = IF i = 1 THEN w ELSE waitList[i - 1]
          /\ \A i \in DOMAIN m : i = 1 \/ i - 1 \in DOMAIN waitList
          /\ 1 \in DOMAIN m /\ \A i \in DOMAIN waitList : i + 1 \in DOMAIN m /\ m[i + 1] = waitList[i]
      BY <1>1, <2>1, <2>2, FrontOf
    <3> SUFFICES ASSUME NEW x
                 PROVE  (\E i \in DOMAIN m : m[i] = x) <=> InWait(x) \/ x = w
      BY DEF InWait
    <3> HIDE DEF m
    <3>2. ASSUME NEW i \in DOMAIN m, m[i] = x
          PROVE  InWait(x) \/ x = w
      BY <3>1, <3>2 DEF InWait
    <3>3. InWait(x) => \E i \in DOMAIN m : m[i] = x
      BY <3>1 DEF InWait
    <3>4. x = w => \E i \in DOMAIN m : m[i] = x
      BY <3>1
    <3> QED
      BY <3>2, <3>3, <3>4
  <2>7. Fresh' = Fresh + 1
    <3>1. Len(waitList') = Len(waitList) + 1
      BY <1>1, <2>1, <2>2, FrontOf
    <3>2. Fresh' = Len(appList) + Len(waitList') + 1
      BY DEF Fresh
    <3> QED
      BY <2>2, <3>1, <3>2 DEF Fresh
  <2>8. \A x \in Tunnels : InApp(x)' \/ InWait(x)' => x < Fresh'
    <3> SUFFICES ASSUME NEW x \in Tunnels, InApp(x) \/ InWait(x) \/ x = w
                 PROVE  x < Fresh + 1
      BY <1>1, <2>6, <2>7
    <3>1. x \in Nat /\ (InApp(x) \/ InWait(x) => x < Fresh)
      BY DEF PoolInv, ListsApart, Tunnels
    <3> QED
      BY <2>1, <2>3, <3>1
  <2>9. \A i, j \in DOMAIN waitList' : waitList'[i] = waitList'[j] => i = j
    <3> SUFFICES ASSUME NEW i \in DOMAIN waitList', NEW j \in DOMAIN waitList', waitList'[i] = waitList'[j]
                 PROVE  i = j
      OBVIOUS
    <3>1. /\ waitList'[i] = IF i = 1 THEN w ELSE waitList[i - 1]
          /\ waitList'[j] = IF j = 1 THEN w ELSE waitList[j - 1]
          /\ i = 1 \/ i - 1 \in DOMAIN waitList
          /\ j = 1 \/ j - 1 \in DOMAIN waitList
      BY <1>1, <2>1, <2>2, FrontOf
    <3>2. \A n \in DOMAIN waitList : waitList[n] # w
      BY <2>4 DEF InWait
    <3>3. i \in Nat /\ j \in Nat
      BY <1>1, <2>1, <2>2
    <3>4. \A m, n \in DOMAIN waitList : waitList[m] = waitList[n] => m = n
      BY DEF PoolInv, ListsApart
    <3>5. CASE i # 1 /\ j # 1
      <4>1. i - 1 = j - 1
        BY <3>1, <3>4, <3>5
      <4> QED
        BY <3>3, <4>1
    <3> QED
      BY <3>1, <3>2, <3>5
  <2>10. ListsApart'
    BY <1>1, <2>4, <2>6, <2>8, <2>9 DEF PoolInv, ListsApart
  <2> QED
    BY <1>1, <2>4, <2>5, <2>6, <2>10
<1> QED
  BY <1>2, <1>3

LEMMA ParkKeeps ==
    ASSUME HeapInv, ListsOK, LoopOK, PoolInv, NEW w \in WaitObj,
           UNCHANGED appList, waitList' = WaitListWith(w), batch' \subseteq batch,
           NEW k \in Socks, \A j \in Socks : j # k => sock'[j] = sock[j],
           ~sock'[k].ispriv, sock'[k].tunnel = w, ~sock'[k].rbuf,
           Silent(sock'[k]), sock'[k].half => OutEvent(k) \notin batch',
           tun'[w].remote = k, WaitT(tun'[w]),
           \A x \in Tunnels : x # w =>
             \/ tun'[x] = tun[x] /\ tun[x].remote # k
             \/ InApp(x) /\ AppT(tun'[x]) /\ tun'[x].priv = tun[x].priv /\ tun'[x].remote = NULL
    PROVE  PoolInv'
<1>1. /\ w \in Tunnels /\ ~InApp(w) /\ tun[w].priv = NULL
      /\ InWait(w) => tun[w].remote = NULL
      /\ \A x : InApp(x)' <=> InApp(x)
      /\ \A x : InWait(x)' <=> InWait(x) \/ x = w
      /\ ListsApart'
  BY EntryTaken
<1>2. ASSUME NEW x \in Tunnels
      PROVE  /\ InApp(x)' => AppT(tun'[x]) /\ RunOK(tun'[x], sock', batch')
             /\ InWait(x)' => WaitT(tun'[x]) /\ ParkedOK(tun'[x], sock', batch')
             /\ ~InApp(x)' /\ ~InWait(x)' => tun'[x].priv = NULL
  <2>1. CASE x = w
    BY <1>1, <2>1 DEF ParkedOK
  <2>2. CASE x # w /\ tun'[x] = tun[x] /\ tun[x].remote # k
    <3>1. tun[x].remote # NULL => sock'[tun[x].remote] = sock[tun[x].remote]
      BY <2>2 DEF HeapInv, Tunnel
    <3>2. RunOK(tun[x], sock, batch) => RunOK(tun'[x], sock', batch')
      BY <2>2, <3>1 DEF RunOK
    <3>3. ParkedOK(tun[x], sock, batch) => ParkedOK(tun'[x], sock', batch')
      BY <2>2, <3>1 DEF ParkedOK
    <3> QED
      BY <1>1, <2>2, <3>2, <3>3 DEF PoolInv, TunnelsOK
  <2>3. CASE x # w /\ InApp(x) /\ AppT(tun'[x]) /\ tun'[x].remote = NULL
    <3>1. ~InWait(x)
      BY <2>3 DEF PoolInv, ListsApart
    <3> QED
      BY <1>1, <2>3, <3>1 DEF RunOK
  <2> QED
    BY <2>1, <2>2, <2>3
<1>3. ASSUME NEW j \in Socks, sock'[j].alloc
      PROVE  SockOK(j)'
  <2>1. CASE j = k
    BY <1>1, <2>1 DEF SockOK
  <2>2. CASE j # k
    <3>1. sock'[j] = sock[j] /\ sock[j].alloc /\ SockOK(j) /\ sock[j].tunnel \in Tunnels
      BY <1>3, <2>2 DEF PoolInv, SocksOK, HeapInv, SockInTunnel
    <3>2. CASE sock[j].ispriv
      <4>1. sock[j].tunnel # w
        BY <1>1, <3>1, <3>2 DEF SockOK
      <4> QED
        BY <1>1, <3>1, <3>2, <4>1 DEF SockOK
    <3>3. CASE ~sock[j].ispriv /\ InApp(sock[j].tunnel)
      BY <1>1, <3>1, <3>3 DEF SockOK
    <3>4. CASE ~sock[j].ispriv /\ ~InApp(sock[j].tunnel)
      <4>1. InWait(sock[j].tunnel) /\ tun[sock[j].tunnel].remote = j /\ sock[j].tunnel # w
        BY <1>1, <3>1, <3>4 DEF SockOK
      <4>2. tun'[sock[j].tunnel] = tun[sock[j].tunnel]
        BY <3>1, <3>4, <4>1
      <4> QED
        BY <1>1, <3>1, <3>4, <4>1, <4>2 DEF SockOK
    <3> QED
      BY <3>2, <3>3, <3>4
  <2> QED
    BY <2>1, <2>2
<1> QED
  BY <1>1, <1>2, <1>3 DEF PoolInv, TunnelsOK, SocksOK

----------------------------------------------------------------------------
(* The steps of the event loop.                                            *)

LEMMA OwnerListed ==
    ASSUME HeapInv, PoolInv, NEW k \in Socks, sock[k].alloc
    PROVE  InApp(sock[k].tunnel) \/ InWait(sock[k].tunnel)
  BY DEF PoolInv, SocksOK, SockOK

LEMMA ReadReadOf ==
    ASSUME HeapInv, NEW k \in Socks
    PROVE  /\ ReadOf(k, [sock EXCEPT ![k] = [@ EXCEPT !.rx = FALSE, !.rbuf = TRUE]])
           /\ ReadOf(k, sock)
<1> DEFINE b == [sock[k] EXCEPT !.rx = FALSE, !.rbuf = TRUE]
<1>1. sock \in [Socks -> Sock] /\ sock[k] \in Sock /\ SameOwners(sock)
  BY SelfOwners DEF HeapInv
<1>2. b.wbuf = sock[k].wbuf /\ b.mask = sock[k].mask
  BY <1>1 DEF Sock
<1>3. SameOwners([sock EXCEPT ![k] = b])
  BY ReadOwners
<1> HIDE DEF b
<1>4. ReadOf(k, [sock EXCEPT ![k] = b])
  BY <1>1, <1>2, <1>3 DEF ReadOf
<1> QED
  BY <1>1, <1>4 DEF ReadOf, b

LEMMA StatePool ==
    ASSUME HeapInv, PoolInv, NEW k \in Socks, sock[k].alloc, NEW s, ReadOf(k, s),
           StateHandle(k, s), UNCHANGED appList, batch' \subseteq batch
    PROVE  PoolInv'
<1> DEFINE r == sock[k].tunnel
<1>1. r \in Tunnels /\ s[k].tunnel = r
  BY DEF HeapInv, SockInTunnel, ReadOf, SameOwners
<1>2. CASE InApp(r)
  <2>1. tun[r].state # "tunnel_waitting"
    BY <1>1, <1>2 DEF PoolInv, TunnelsOK, AppT
  <2> QED
    BY <1>1, <1>2, <2>1, HandshakeApp, ConnectedApp DEF StateHandle
<1>3. CASE InWait(r)
  <2>1. tun[r].state = "tunnel_waitting"
    BY <1>1, <1>3 DEF PoolInv, TunnelsOK, WaitT
  <2> QED
    BY <1>1, <1>3, <2>1, WaittingWait DEF StateHandle, HandshakeStates
<1> QED
  BY <1>2, <1>3, OwnerListed

LEMMA ReadPool ==
    ASSUME IInv, PoolInv, NEW k \in Socks, ReadHandle(k)
    PROVE  PoolInv'
<1>1. HeapInv /\ sock[k].alloc /\ UNCHANGED appList /\ batch' \subseteq batch
  BY DEF IInv, ReadHandle, Consume
<1>2. CASE StateHandle(k, [sock EXCEPT ![k] = [@ EXCEPT !.rx = FALSE, !.rbuf = TRUE]])
  BY <1>1, <1>2, ReadReadOf, StatePool
<1>3. CASE StateHandle(k, sock)
  BY <1>1, <1>3, ReadReadOf, StatePool
<1>4. CASE SockShutdown(k, sock)
  BY <1>1, <1>4, ReadReadOf, OwnerListed, ShutApp, ShutWait
<1> QED
  BY <1>2, <1>3, <1>4 DEF ReadHandle

\* The sockets after a write to k that leaves bytes or not, and the mask that follows.
Wrote(k, x) == [sock EXCEPT ![k] = [@ EXCEPT !.wbuf = x]]
Masked(s, k, m) == [s EXCEPT ![k] = [@ EXCEPT !.mask = m]]

LEMMA WrittenBuf ==
    ASSUME HeapInv, NEW k \in Socks, NEW x \in BOOLEAN,
           NEW s, s = Wrote(k, x)
    PROVE  /\ SameOwners(s) /\ s[k] \in Sock /\ s \in [Socks -> Sock]
           /\ \A j \in Socks : j # k => s[j] = sock[j]
           /\ s[k].wbuf = x /\ s[k].rbuf = sock[k].rbuf /\ s[k].half = sock[k].half
<1>1. sock \in [Socks -> Sock] /\ sock[k] \in Sock
  BY DEF HeapInv
<1>2. SameOwners(s)
  BY WbufOwners DEF Wrote
<1> QED
  BY <1>1, <1>2 DEF Sock, SameOwners, Wrote

LEMMA WrittenSock ==
    ASSUME HeapInv, NEW k \in Socks, NEW x \in BOOLEAN, NEW m \in SUBSET {"in", "out"},
           NEW s, s = Wrote(k, x),
           NEW c, c = Masked(s, k, m)
    PROVE  /\ SameOwners(c) /\ \A j \in Socks : j # k => c[j] = sock[j]
           /\ c[k].wbuf = x /\ c[k].rbuf = sock[k].rbuf /\ c[k].mask = m /\ c[k].half = sock[k].half
<1>1. /\ SameOwners(s) /\ s[k] \in Sock /\ s \in [Socks -> Sock]
      /\ \A j \in Socks : j # k => s[j] = sock[j]
      /\ s[k].wbuf = x /\ s[k].rbuf = sock[k].rbuf /\ s[k].half = sock[k].half
  BY WrittenBuf
<1>2. SameOwners(c)
  BY <1>1, MaskOwners DEF Masked
<1>3. c[k] = [s[k] EXCEPT !.mask = m] /\ \A j \in Socks : j # k => c[j] = s[j]
  BY <1>1 DEF Masked
<1>4. c[k].wbuf = s[k].wbuf /\ c[k].rbuf = s[k].rbuf /\ c[k].mask = m /\ c[k].half = s[k].half
  BY <1>1, <1>3 DEF Sock
<1> QED
  BY <1>1, <1>2, <1>3, <1>4

LEMMA MaskApp ==
    ASSUME HeapInv, PoolInv, NEW k \in Socks, sock[k].alloc, InApp(sock[k].tunnel),
           OutEvent(k) \in batch, NEW x \in BOOLEAN, NEW m \in SUBSET {"in", "out"},
           NEW s, s = Wrote(k, x), sock' = Masked(s, k, m),
           UNCHANGED <<tun, appList, waitList>>, batch' \subseteq batch
    PROVE  PoolInv'
<1> DEFINE r == sock[k].tunnel
           t == tun[r]
<1>1. r \in Tunnels /\ t \in Tunnel /\ AppT(t) /\ RunOK(t, sock, batch)
  BY DEF HeapInv, SockInTunnel, PoolInv, TunnelsOK
<1>2. SameOwners(sock') /\ (\A j \in Socks : j # k => sock'[j] = sock[j]) /\ sock'[k].rbuf = sock[k].rbuf
  BY WrittenSock
<1>3. OneTunnel(r) /\ Around(r, sock')
  BY <1>2 DEF OneTunnel, Around
<1>4. RunOK(t, sock', batch')
  <2>1. CASE t.remote = k
    BY <1>1, <1>2, <2>1 DEF RunOK
  <2>2. CASE t.remote # k
    <3>1. t.remote # NULL => sock'[t.remote] = sock[t.remote]
      BY <1>1, <1>2, <2>2 DEF Tunnel
    <3> QED
      BY <1>1, <3>1 DEF RunOK
  <2> QED
    BY <2>1, <2>2
<1> QED
  BY <1>1, <1>3, <1>4, KeptApp

LEMMA SwitchPool ==
    ASSUME IInv, PoolInv, NEW k \in Socks, sock[k].alloc, InApp(sock[k].tunnel),
           OutEvent(k) \in batch, NEW x \in BOOLEAN, NEW s, s = Wrote(k, x),
           tun[sock[k].tunnel].status = "tunn_is_run", TunnelSwitch(k, s),
           UNCHANGED appList, batch' = batch \ {OutEvent(k)}
    PROVE  PoolInv'
<1> DEFINE r == sock[k].tunnel
           t == tun[r]
<1>1. HeapInv /\ ListsOK /\ LoopOK
  BY DEF IInv
<1>2. r \in Tunnels /\ t \in Tunnel /\ AppT(t) /\ RunOK(t, sock, batch) /\ tun \in [Tunnels -> Tunnel]
  BY <1>1 DEF HeapInv, SockInTunnel, PoolInv, TunnelsOK
<1>3. s[k].tunnel = r /\ s[k] \in Sock /\ s[k].wbuf = x /\ s[k].rbuf = sock[k].rbuf /\ SameOwners(s)
      /\ \A j \in Socks : j # k => s[j] = sock[j]
  <2>1. s[k].tunnel = r
    BY <1>1, WrittenBuf DEF SameOwners
  <2> QED
    BY <1>1, <2>1, WrittenBuf
<1>4. CASE Crash("null")
  BY <1>1, <1>4, NothingMoved DEF Crash
<1>5. CASE /\ sock' = Masked(s, k, {"in"}) \/ sock' = Masked(s, k, {"in", "out"})
           /\ UNCHANGED <<tun, waitList>>
  BY <1>1, <1>5, MaskApp
<1>6. ASSUME ~s[k].wbuf, k = t.remote, NEW w \in WaitObj,
             tun' = [[tun EXCEPT ![r] = LetGo(@, "tunn_is_idle")]
                       EXCEPT ![w] = Parked(@, k, "tmptun_is_alive")],
             waitList' = WaitListWith(w),
             sock' = [s EXCEPT ![k] = [@ EXCEPT !.mask = {"in"}, !.tunnel = w]]
      PROVE  PoolInv'
  <2> DEFINE u == LetGo(t, "tunn_is_idle")
             v == Parked(tun[w], k, "tmptun_is_alive")
  <2>1. w \in Tunnels /\ ~InApp(w) /\ tun[w].priv = NULL /\ tun[w] \in Tunnel
    BY <1>1, <1>2, EntryTaken, <1>6
  <2>2. w # r
    BY <2>1
  <2>3. tun'[r] = u /\ tun'[w] = v /\ \A q \in Tunnels : q \notin {r, w} => tun'[q] = tun[q]
    BY <1>2, <1>6, <2>1, <2>2
  <2>4. AppT(u) /\ u.priv = t.priv /\ u.remote = NULL
    BY <1>2 DEF LetGo, AppT, Tunnel, AppStatus
  <2>5. WaitT(v) /\ v.remote = k
    BY <2>1 DEF Parked, WaitT, Tunnel, WaitStatus
  <2>6. /\ \A j \in Socks : j # k => sock'[j] = sock[j]
        /\ ~sock'[k].ispriv /\ sock'[k].tunnel = w /\ ~sock'[k].rbuf /\ Silent(sock'[k])
    <3>1. ~s[k].rbuf /\ ~s[k].ispriv
      BY <1>1, <1>2, <1>3, <1>6 DEF RunOK, HeapInv, NoDanglingSock, SameOwners
    <3>2. sock'[k] = [s[k] EXCEPT !.mask = {"in"}, !.tunnel = w] /\ \A j \in Socks : j # k => sock'[j] = s[j]
      BY <1>3, <1>6 DEF SameOwners
    <3>3. ~sock'[k].ispriv /\ sock'[k].tunnel = w /\ ~sock'[k].rbuf /\ ~sock'[k].wbuf /\ sock'[k].mask = {"in"}
      <4>1. /\ sock'[k].ispriv = s[k].ispriv /\ sock'[k].tunnel = w
            /\ sock'[k].rbuf = s[k].rbuf /\ sock'[k].wbuf = s[k].wbuf /\ sock'[k].mask = {"in"}
        <5> HIDE DEF t, r
        <5> QED
          BY ONLY <1>3, <3>2 DEF Sock
      <4> QED
        BY <1>3, <1>6, <3>1, <4>1
    <3> QED
      BY <1>3, <3>2, <3>3 DEF Silent
  <2>7. \A q \in Tunnels : q # w =>
             \/ tun'[q] = tun[q] /\ tun[q].remote # k
             \/ InApp(q) /\ AppT(tun'[q]) /\ tun'[q].priv = tun[q].priv /\ tun'[q].remote = NULL
    <3> SUFFICES ASSUME NEW q \in Tunnels, q # w
                 PROVE  \/ tun'[q] = tun[q] /\ tun[q].remote # k
                        \/ InApp(q) /\ AppT(tun'[q]) /\ tun'[q].priv = tun[q].priv /\ tun'[q].remote = NULL
      OBVIOUS
    <3>1. CASE q = r
      BY <2>3, <2>4, <3>1
    <3>2. CASE q # r
      BY <1>1, <2>3, <3>2, OneOwner
    <3> QED
      BY <3>1, <3>2
  <2> HIDE DEF u, v
  <2> QED
    BY <1>1, <1>6, <2>3, <2>5, <2>6, <2>7, ParkKeeps
<1>7. \/ Crash("null")
      \/ /\ sock' = Masked(s, k, {"in"}) \/ sock' = Masked(s, k, {"in", "out"})
         /\ UNCHANGED <<tun, waitList>>
      \/ /\ ~s[k].wbuf /\ k = t.remote
         /\ \E w \in WaitObj :
              /\ tun' = [[tun EXCEPT ![r] = LetGo(@, "tunn_is_idle")]
                           EXCEPT ![w] = Parked(@, k, "tmptun_is_alive")]
              /\ waitList' = WaitListWith(w)
              /\ sock' = [s EXCEPT ![k] = [@ EXCEPT !.mask = {"in"}, !.tunnel = w]]
  <2>1. s[k].tunnel = sock[k].tunnel
    BY <1>3
  <2> QED
    BY ONLY <2>1, TunnelSwitch(k, s) DEF TunnelSwitch, Masked
<1> HIDE DEF r, t
<1> QED
  BY <1>4, <1>5, <1>6, <1>7

LEMMA AfterWritePool ==
    ASSUME IInv, PoolInv, NEW k \in Socks, sock[k].alloc,
           OutEvent(k) \in batch, NEW x \in BOOLEAN, x => sock[k].wbuf,
           NEW s, s = Wrote(k, x), AfterWrite(k, s),
           UNCHANGED appList, batch' = batch \ {OutEvent(k)}
    PROVE  PoolInv'
<1> DEFINE r == sock[k].tunnel
           t == tun[r]
<1>1. HeapInv
  BY DEF IInv
<1>2. s[k].tunnel = r /\ s[k].wbuf = x
  <2>1. s[k].tunnel = r
    BY <1>1, WrittenBuf DEF SameOwners
  <2> QED
    BY <1>1, <2>1, WrittenBuf
<1>3. CASE t.status = "tunn_is_run" /\ TunnelSwitch(k, s)
  <2>1. InApp(r)
    BY <1>1, <1>3, EntryOf, OwnerListed
  <2> QED
    BY <1>3, <2>1, SwitchPool
<1>4. ASSUME NEW m \in {{"in"}, {"in", "out"}}, ~x => m = {"in"}, sock' = Masked(s, k, m),
             UNCHANGED <<tun, waitList>>
      PROVE  PoolInv'
  <2>1. CASE InApp(r)
    BY <1>1, <1>4, <2>1, MaskApp
  <2>2. CASE InWait(r)
    <3>1. /\ t.remote = k /\ WaitT(t) /\ ParkedOK(t, sock, batch)
      BY <1>1, <2>2, EntryOf
    <3>2. /\ SameOwners(sock') /\ \A j \in Socks : j # k => sock'[j] = sock[j]
          /\ sock'[k].wbuf = x /\ sock'[k].rbuf = sock[k].rbuf /\ sock'[k].mask = m
      BY <1>1, <1>4, WrittenSock
    <3>3. t.status # "tmptun_is_close" => ~x
      BY <3>1 DEF ParkedOK, Silent
    <3>4. ParkedOK(t, sock', batch')
      BY <1>4, <3>1, <3>2, <3>3 DEF ParkedOK, Silent
    <3>5. OneTunnel(r) /\ Around(r, sock')
      BY <1>4, <3>2 DEF OneTunnel, Around
    <3> QED
      BY <1>1, <1>4, <2>2, <3>1, <3>4, <3>5, KeptWait
  <2> QED
    BY <1>1, <2>1, <2>2, OwnerListed
<1>5. CASE /\ sock' = [s EXCEPT ![k] = [@ EXCEPT !.mask = IF s[k].wbuf THEN {"in", "out"} ELSE {"in"}]]
           /\ UNCHANGED <<tun, waitList>>
  <2> DEFINE m == IF s[k].wbuf THEN {"in", "out"} ELSE {"in"}
  <2>1. m \in {{"in"}, {"in", "out"}} /\ (~x => m = {"in"})
    BY <1>2
  <2>2. sock' = Masked(s, k, m)
    BY <1>5 DEF Masked
  <2> HIDE DEF m
  <2> QED
    BY <1>4, <1>5, <2>1, <2>2
<1> QED
  BY <1>2, <1>3, <1>5 DEF AfterWrite

LEMMA WritePool ==
    ASSUME IInv, PoolInv, NEW k \in Socks, WriteHandle(k)
    PROVE  PoolInv'
<1>1. /\ HeapInv /\ sock[k].alloc /\ UNCHANGED appList
      /\ OutEvent(k) \in batch /\ batch' = batch \ {OutEvent(k)} /\ batch' \subseteq batch
  BY DEF IInv, WriteHandle, Consume, OutEvent
<1>2. sock \in [Socks -> Sock] /\ sock[k] \in Sock
  BY <1>1 DEF HeapInv
<1>3. CASE /\ sock[k].wbuf \/ sock[k].half
           /\ SockForceShutdown(k, sock)
  <2>1. CASE InApp(sock[k].tunnel)
    BY <1>1, <1>3, <2>1, ReadReadOf, ReadAround, ForceApp DEF ReadOf
  <2>2. CASE InWait(sock[k].tunnel)
    <3>1. tun[sock[k].tunnel].status = "tmptun_is_close"
      BY <1>1, <1>3, <2>2, EntryOf DEF ParkedOK, Silent
    <3> QED
      BY <1>1, <1>3, <2>2, <3>1, ReadReadOf, ForceWait
  <2> QED
    BY <1>1, <2>1, <2>2, OwnerListed
<1>4. ASSUME NEW x \in BOOLEAN, sock[k].wbuf, AfterWrite(k, Wrote(k, x))
      PROVE  PoolInv'
  BY <1>1, <1>4, AfterWritePool
<1>5. CASE ~sock[k].wbuf /\ AfterWrite(k, sock)
  <2>1. sock = Wrote(k, FALSE)
    <3>1. sock[k] = [sock[k] EXCEPT !.wbuf = FALSE]
      BY <1>2, <1>5 DEF Sock
    <3> QED
      BY <1>2, <3>1 DEF Wrote
  <2> QED
    BY <1>1, <1>5, <2>1, AfterWritePool
<1> QED
  BY <1>3, <1>4, <1>5 DEF WriteHandle, Wrote

\* A tunnel that is found by its status is one of appList.
LEMMA FoundInApp ==
    ASSUME LoopOK, NEW status, NEW r \in AppListFnd(status)
    PROVE  r \in Tunnels /\ InApp(r) /\ tun[r].status = status
<1>1. PICK i \in First(AppMatch(status)) : r = appList[i]
  BY DEF AppListFnd
<1>2. i \in DOMAIN appList /\ tun[appList[i]].status = status
  BY FirstIn DEF AppMatch
<1> QED
  BY <1>1, <1>2 DEF InApp, LoopOK

\* A step that gives tunnel r a new socket, or one of another tunnel.
LEMMA GivenApp ==
    ASSUME HeapInv, PoolInv, NEW r \in Tunnels, UNCHANGED waitList, batch' \subseteq batch,
           \A x : InApp(x)' <=> InApp(x) \/ x = r, ~InWait(r), ListsApart',
           \A x \in Tunnels : x # r => tun'[x] = tun[x],
           NEW k \in Socks, ~sock[k].alloc, \A j \in Socks : j # k => sock'[j] = sock[j],
           sock'[k].tunnel = r, sock'[k].ispriv => tun'[r].priv = k,
           \A j \in Socks : sock[j].alloc /\ sock[j].ispriv /\ sock[j].tunnel = r => tun'[r].priv = j,
           AppT(tun'[r]), RunOK(tun'[r], sock', batch')
    PROVE  PoolInv'
<1>1. \A x : InWait(x)' <=> InWait(x)
  BY DEF InWait
<1>2. ASSUME NEW x \in Tunnels
      PROVE  /\ InApp(x)' => AppT(tun'[x]) /\ RunOK(tun'[x], sock', batch')
             /\ InWait(x)' => WaitT(tun'[x]) /\ ParkedOK(tun'[x], sock', batch')
             /\ ~InApp(x)' /\ ~InWait(x)' => tun'[x].priv = NULL
  <2>1. CASE x = r
    BY <1>1, <2>1
  <2>2. CASE x # r
    <3>1. tun[x].remote # NULL => sock'[tun[x].remote] = sock[tun[x].remote]
      BY Unowned DEF HeapInv, Tunnel
    <3>2. RunOK(tun[x], sock, batch) => RunOK(tun'[x], sock', batch')
      BY <2>2, <3>1 DEF RunOK
    <3>3. ParkedOK(tun[x], sock, batch) => ParkedOK(tun'[x], sock', batch')
      BY <2>2, <3>1 DEF ParkedOK
    <3> QED
      BY <1>1, <2>2, <3>2, <3>3 DEF PoolInv, TunnelsOK
  <2> QED
    BY <2>1, <2>2
<1>3. ASSUME NEW j \in Socks, sock'[j].alloc
      PROVE  SockOK(j)'
  <2>1. CASE j = k
    BY <1>1, <2>1 DEF SockOK
  <2>2. CASE j # k
    <3>1. sock'[j] = sock[j] /\ sock[j].alloc /\ SockOK(j) /\ sock[j].tunnel \in Tunnels
      BY <1>3, <2>2 DEF PoolInv, SocksOK, HeapInv, SockInTunnel
    <3>2. CASE sock[j].tunnel = r
      BY <3>1, <3>2 DEF SockOK
    <3>3. CASE sock[j].tunnel # r
      <4>1. tun'[sock[j].tunnel] = tun[sock[j].tunnel]
        BY <3>1, <3>3
      <4> QED
        BY <1>1, <3>1, <4>1 DEF SockOK
    <3> QED
      BY <3>2, <3>3
  <2> QED
    BY <2>1, <2>2
<1> QED
  BY <1>2, <1>3 DEF PoolInv, TunnelsOK, SocksOK

LEMMA NewSockFields ==
    ASSUME NEW r, NEW ispriv
    PROVE  /\ NewSock(r, ispriv).tunnel = r /\ NewSock(r, ispriv).ispriv = ispriv
           /\ ~NewSock(r, ispriv).rbuf /\ ~NewSock(r, ispriv).wbuf /\ ~NewSock(r, ispriv).half
           /\ NewSock(r, ispriv).mask = {"in"}
  BY DEF NewSock, NoSock

LEMMA AcceptPrivPool ==
    ASSUME IInv, PoolInv, AcceptPriv
    PROVE  PoolInv'
<1>1. HeapInv /\ ListsOK /\ LoopOK /\ UNCHANGED waitList /\ batch' \subseteq batch
  BY DEF IInv, AcceptPriv, Consume
<1>2. PICK k \in Socks, r \in Tunnels :
        /\ ~sock[k].alloc
        /\ \/ r \in AppListFnd("tunn_is_free") /\ ReusePriv(r, k)
           \/ r = Fresh /\ NewPriv(r, k)
        /\ sock' = [sock EXCEPT ![k] = NewSock(r, TRUE)]
  BY DEF AcceptPriv
<1>3. tun \in [Tunnels -> Tunnel] /\ sock \in [Socks -> Sock] /\ tun[r] \in Tunnel
  BY <1>1 DEF HeapInv
<1>4. (\A j \in Socks : j # k => sock'[j] = sock[j]) /\ sock'[k].tunnel = r
  <2> DEFINE b == NewSock(r, TRUE)
  <2>1. b.tunnel = r
    BY NewSockFields
  <2> HIDE DEF b
  <2> QED
    BY <1>2, <1>3, <2>1 DEF b
<1>5. CASE r \in AppListFnd("tunn_is_free") /\ ReusePriv(r, k)
  <2>1. InApp(r) /\ tun[r].status = "tunn_is_free"
    BY <1>1, <1>5, FoundInApp
  <2>2. tun[r].priv = NULL /\ tun[r].remote = NULL /\ ~InWait(r)
    BY <2>1 DEF PoolInv, TunnelsOK, AppT, ListsApart
  <2>3. /\ tun' = [tun EXCEPT ![r] = [tun[r] EXCEPT !.state = "open_state", !.status = "tunn_is_run",
                                                   !.priv = k]]
        /\ UNCHANGED appList
    BY <1>5 DEF ReusePriv
  <2>4. /\ tun'[r] = [tun[r] EXCEPT !.state = "open_state", !.status = "tunn_is_run", !.priv = k]
        /\ \A x \in Tunnels : x # r => tun'[x] = tun[x]
    BY <1>3, <2>3
  <2>5. /\ tun'[r].priv = k /\ tun'[r].remote = NULL /\ tun'[r].status = "tunn_is_run"
        /\ tun'[r].state = "open_state"
    BY <1>3, <2>2, <2>4 DEF Tunnel
  <2>6. AppT(tun'[r]) /\ RunOK(tun'[r], sock', batch')
    BY <2>5 DEF AppT, RunOK, AppStatus
  <2>7. ListsApart' /\ \A x : InApp(x)' <=> InApp(x) \/ x = r
    BY <1>1, <2>1, <2>3 DEF PoolInv, ListsApart, InApp, InWait, Fresh
  <2>8. \A j \in Socks : ~(sock[j].alloc /\ sock[j].ispriv /\ sock[j].tunnel = r)
    BY <2>2 DEF PoolInv, SocksOK, SockOK
  <2>9. \A x \in Tunnels : x # r => tun'[x] = tun[x]
    BY <2>4
  <2>10. \A j \in Socks : sock[j].alloc /\ sock[j].ispriv /\ sock[j].tunnel = r => tun'[r].priv = j
    BY <2>8
  <2> QED
    BY <1>1, <1>2, <1>4, <2>2, <2>5, <2>6, <2>7, <2>9, <2>10, GivenApp
<1>6. CASE r = Fresh /\ NewPriv(r, k)
  <2>1. tun' = [tun EXCEPT ![r] = [ZeroTunnel EXCEPT !.priv = k]] /\ appList' = <<r>> \o appList
    BY <1>6 DEF NewPriv
  <2>2. tun'[r] = [ZeroTunnel EXCEPT !.priv = k] /\ \A x \in Tunnels : x # r => tun'[x] = tun[x]
    BY <1>3, <2>1
  <2>3. /\ tun'[r].priv = k /\ tun'[r].remote = NULL /\ tun'[r].status = "tunn_is_idle"
        /\ tun'[r].state = "open_state"
    BY <2>2 DEF ZeroTunnel
  <2>4. AppT(tun'[r]) /\ RunOK(tun'[r], sock', batch')
    BY <2>3 DEF AppT, RunOK, AppStatus
  <2>5. Len(appList) \in Nat /\ Len(waitList) \in Nat /\ appList \in Seq(Tunnels)
    BY <1>1 DEF ListsOK, LoopOK
  <2>6. ~InApp(r) /\ ~InWait(r) /\ Fresh \in Nat
    BY <1>6, <2>5 DEF PoolInv, ListsApart, Fresh
  <2>7. \A x : InApp(x)' <=> InApp(x) \/ x = r
    <3> DEFINE m == appList'
    <3>1. /\ \A i \in DOMAIN m : m[i] = IF i = 1 THEN r ELSE appList[i - 1]
          /\ \A i \in DOMAIN m : i = 1 \/ i - 1 \in DOMAIN appList
          /\ 1 \in DOMAIN m /\ \A i \in DOMAIN appList : i + 1 \in DOMAIN m /\ m[i + 1] = appList[i]
      BY <2>1, <2>5, FrontOf
    <3> SUFFICES ASSUME NEW x
                 PROVE  (\E i \in DOMAIN m : m[i] = x) <=> InApp(x) \/ x = r
      BY DEF InApp
    <3> HIDE DEF m
    <3>2. ASSUME NEW i \in DOMAIN m, m[i] = x
          PROVE  InApp(x) \/ x = r
      BY <3>1, <3>2 DEF InApp
    <3>3. InApp(x) => \E i \in DOMAIN m : m[i] = x
      BY <3>1 DEF InApp
    <3>4. x = r => \E i \in DOMAIN m : m[i] = x
      BY <3>1
    <3> QED
      BY <3>2, <3>3, <3>4
  <2>8. Fresh' = Fresh + 1
    <3>1. Len(appList') = Len(appList) + 1
      BY <2>1, <2>5, FrontOf
    <3>2. Fresh' = Len(appList') + Len(waitList) + 1
      BY <1>1 DEF Fresh
    <3> QED
      BY <2>5, <3>1, <3>2 DEF Fresh
  <2>9. \A x \in Tunnels : InApp(x)' \/ InWait(x)' => x < Fresh'
    <3> SUFFICES ASSUME NEW x \in Tunnels, InApp(x) \/ InWait(x) \/ x = r
                 PROVE  x < Fresh + 1
      BY <1>1, <2>7, <2>8 DEF InWait
    <3>1. x \in Nat /\ (InApp(x) \/ InWait(x) => x < Fresh)
      BY DEF PoolInv, ListsApart, Tunnels
    <3> QED
      BY <1>6, <2>6, <3>1
  <2>10. ListsApart'
    BY <1>1, <2>6, <2>7, <2>9 DEF PoolInv, ListsApart, InWait
  <2>11. \A j \in Socks : ~(sock[j].alloc /\ sock[j].ispriv /\ sock[j].tunnel = r)
    BY <2>6 DEF PoolInv, SocksOK, SockOK
  <2>12. \A x \in Tunnels : x # r => tun'[x] = tun[x]
    BY <2>2
  <2>13. \A j \in Socks : sock[j].alloc /\ sock[j].ispriv /\ sock[j].tunnel = r => tun'[r].priv = j
    BY <2>11
  <2> QED
    BY <1>1, <1>2, <1>4, <2>3, <2>4, <2>6, <2>7, <2>10, <2>12, <2>13, GivenApp
<1> QED
  BY <1>2, <1>5, <1>6

LEMMA AcceptRemotePool ==
    ASSUME IInv, PoolInv, AcceptRemote
    PROVE  PoolInv'
<1>1. HeapInv /\ ListsOK /\ LoopOK /\ UNCHANGED appList /\ batch' \subseteq batch
  BY DEF IInv, AcceptRemote, Consume
<1>2. PICK k \in Socks :
        /\ ~sock[k].alloc
        /\ \/ \E r \in AppListFnd("tunn_is_idle") : BindRemote(r, k)
           \/ \E w \in WaitObj : ParkRemote(w, k)
  BY DEF AcceptRemote
<1>3. tun \in [Tunnels -> Tunnel] /\ sock \in [Socks -> Sock]
  BY <1>1 DEF HeapInv
<1>4. ASSUME NEW r, sock' = [sock EXCEPT ![k] = NewSock(r, FALSE)]
      PROVE  /\ \A j \in Socks : j # k => sock'[j] = sock[j]
             /\ sock'[k].tunnel = r /\ ~sock'[k].ispriv /\ ~sock'[k].rbuf /\ ~sock'[k].half
             /\ Silent(sock'[k])
  <2> DEFINE b == NewSock(r, FALSE)
  <2>1. b.tunnel = r /\ ~b.ispriv /\ ~b.rbuf /\ ~b.half /\ Silent(b)
    BY DEF NewSock, NoSock, Silent
  <2> HIDE DEF b
  <2>2. sock' = [sock EXCEPT ![k] = b]
    BY <1>4 DEF b
  <2> QED
    BY <1>3, <2>1, <2>2
<1>5. ASSUME NEW r \in AppListFnd("tunn_is_idle"), BindRemote(r, k)
      PROVE  PoolInv'
  <2>1. r \in Tunnels /\ InApp(r) /\ tun[r] \in Tunnel
    BY <1>1, <1>3, FoundInApp
  <2>2. CASE Crash("null")
    BY <1>1, <2>2, NothingMoved DEF Crash
  <2>3. CASE ~Crash("null")
    <3>1. /\ tun' = [tun EXCEPT ![r] = [tun[r] EXCEPT !.status = "tunn_is_run",
                                              !.state = "connected_state", !.remote = k]]
          /\ sock' = [sock EXCEPT ![k] = NewSock(r, FALSE)] /\ UNCHANGED waitList
      BY <1>5, <2>3 DEF BindRemote
    <3>2. /\ tun'[r] = [tun[r] EXCEPT !.status = "tunn_is_run", !.state = "connected_state", !.remote = k]
          /\ \A x \in Tunnels : x # r => tun'[x] = tun[x]
      BY <1>3, <2>1, <3>1
    <3>3. /\ tun'[r].priv = tun[r].priv /\ tun'[r].remote = k
          /\ tun'[r].status = "tunn_is_run" /\ tun'[r].state = "connected_state"
      BY <2>1, <3>2 DEF Tunnel
    <3>4. /\ \A j \in Socks : j # k => sock'[j] = sock[j]
          /\ sock'[k].tunnel = r /\ ~sock'[k].ispriv /\ ~sock'[k].rbuf
      BY <1>4, <3>1
    <3>5. AppT(tun'[r]) /\ RunOK(tun'[r], sock', batch')
      BY <3>3, <3>4 DEF AppT, RunOK, AppStatus
    <3>6. ~InWait(r) /\ ListsApart' /\ \A x : InApp(x)' <=> InApp(x) \/ x = r
      BY <1>1, <2>1, <3>1 DEF PoolInv, ListsApart, InApp, InWait, Fresh
    <3>7. \A j \in Socks : sock[j].alloc /\ sock[j].ispriv /\ sock[j].tunnel = r => tun'[r].priv = j
      BY <3>3 DEF PoolInv, SocksOK, SockOK
    <3> QED
      BY <1>1, <1>2, <2>1, <3>1, <3>2, <3>4, <3>5, <3>6, <3>7, GivenApp, ZenonT(30)
  <2> QED
    BY <2>2, <2>3
<1>6. ASSUME NEW w \in WaitObj, ParkRemote(w, k)
      PROVE  PoolInv'
  <2>1. /\ tun' = [tun EXCEPT ![w] = Parked(tun[w], k, "tmptun_is_wait")]
        /\ waitList' = WaitListWith(w) /\ sock' = [sock EXCEPT ![k] = NewSock(w, FALSE)]
    BY <1>6 DEF ParkRemote
  <2>2. w \in Tunnels /\ tun[w].priv = NULL /\ tun[w] \in Tunnel
    BY <1>1, <1>3, <2>1, EntryTaken
  <2>3. tun'[w] = Parked(tun[w], k, "tmptun_is_wait") /\ \A x \in Tunnels : x # w => tun'[x] = tun[x]
    BY <1>3, <2>1, <2>2
  <2>4. WaitT(tun'[w]) /\ tun'[w].remote = k
    BY <2>2, <2>3 DEF Parked, WaitT, Tunnel, WaitStatus
  <2>5. /\ \A j \in Socks : j # k => sock'[j] = sock[j]
        /\ sock'[k].tunnel = w /\ ~sock'[k].ispriv /\ ~sock'[k].rbuf /\ ~sock'[k].half
        /\ Silent(sock'[k])
    BY <1>4, <2>1
  <2>6. \A x \in Tunnels : tun[x].remote # k
    BY <1>1, <1>2, Unowned
  <2>7. \A x \in Tunnels : x # w => tun'[x] = tun[x] /\ tun[x].remote # k
    BY <2>3, <2>6
  <2>8. \A x \in Tunnels : x # w =>
             \/ tun'[x] = tun[x] /\ tun[x].remote # k
             \/ InApp(x) /\ AppT(tun'[x]) /\ tun'[x].priv = tun[x].priv /\ tun'[x].remote = NULL
    BY <2>7
  <2>9. sock'[k].half => OutEvent(k) \notin batch'
    BY <2>5
  <2>10. waitList' = WaitListWith(w)
    BY <2>1
  <2> QED
    BY <1>1, <2>4, <2>5, <2>8, <2>9, <2>10, ParkKeeps
<1> QED
  BY <1>2, <1>5, <1>6

LEMMA PairPool ==
    ASSUME IInv, PoolInv, batch = {}, PairBind
    PROVE  PoolInv'
<1>1. HeapInv /\ ListsOK /\ LoopOK /\ UNCHANGED <<appList, waitList, batch>>
  BY DEF IInv, PairBind
<1> DEFINE r == appList[scan]
<1>2. r \in Tunnels /\ InApp(r) /\ tun[r].status = "tunn_is_idle"
  <2>1. scan \in DOMAIN appList
    BY <1>1, BindAt
  <2> QED
    <3>1. AtIdle
      BY <1>1, BindAt
    <3> QED
      BY ONLY <1>1, <2>1, <3>1 DEF LoopOK, InApp, AtIdle
<1>3. PICK i \in First(WaitPending) :
        LET w == waitList[i]
            k == tun[w].remote
            p == tun[r].priv
        IN  /\ tun' = [[tun EXCEPT ![w] = LetGo(@, "tmptun_is_free")]
                         EXCEPT ![r] = [@ EXCEPT !.status = "tunn_is_run", !.remote = k]]
            /\ sock' = IF p # NULL /\ sock[k].rbuf
                       THEN [Relay(sock, k, p) EXCEPT ![k] = [@ EXCEPT !.tunnel = r]]
                       ELSE [sock EXCEPT ![k] = [@ EXCEPT !.tunnel = r]]
  BY DEF PairBind
<1> DEFINE w == waitList[i]
           k == tun[w].remote
<1>4. w \in Tunnels /\ InWait(w) /\ IsPending(tun[w])
  <2>1. i \in DOMAIN waitList /\ IsPending(tun[w])
    BY FirstIn DEF WaitPending
  <2> QED
    BY <1>1, <2>1 DEF ListsOK, InWait
<1>5. WaitT(tun[w]) /\ ParkedOK(tun[w], sock, batch) /\ w # r /\ ~InApp(w) /\ ~InWait(r)
  BY <1>2, <1>4 DEF PoolInv, TunnelsOK, ListsApart
<1>6. k \in Socks /\ sock[k].alloc /\ ~sock[k].ispriv
  BY <1>1, <1>4, <1>5 DEF IsPending, WaitT, HeapInv, NoDanglingSock, Tunnel
<1>7. ~sock[k].rbuf /\ Silent(sock[k])
  BY <1>4, <1>5, <1>6 DEF ParkedOK, IsPending
<1>8. tun \in [Tunnels -> Tunnel] /\ sock \in [Socks -> Sock] /\ tun[w] \in Tunnel /\ tun[r] \in Tunnel
      /\ sock[k] \in Sock
  BY <1>1, <1>2, <1>4, <1>6 DEF HeapInv
<1>9. /\ tun' = [[tun EXCEPT ![w] = LetGo(@, "tmptun_is_free")]
                   EXCEPT ![r] = [@ EXCEPT !.status = "tunn_is_run", !.remote = k]]
      /\ sock' = [sock EXCEPT ![k] = [sock[k] EXCEPT !.tunnel = r]]
  BY <1>3, <1>7
<1> HIDE DEF r, w, k
<1>10. /\ tun'[w] = LetGo(tun[w], "tmptun_is_free")
       /\ tun'[r] = [tun[r] EXCEPT !.status = "tunn_is_run", !.remote = k]
       /\ \A x \in Tunnels : x \notin {w, r} => tun'[x] = tun[x]
  BY <1>2, <1>4, <1>5, <1>8, <1>9
<1>11. /\ sock'[k] = [sock[k] EXCEPT !.tunnel = r]
       /\ \A j \in Socks : j # k => sock'[j] = sock[j]
  BY <1>6, <1>8, <1>9
<1>12. /\ tun'[w].priv = tun[w].priv /\ tun'[w].remote = NULL /\ tun'[w].status = "tmptun_is_free"
       /\ tun'[w].state = tun[w].state
       /\ tun'[r].priv = tun[r].priv /\ tun'[r].remote = k /\ tun'[r].status = "tunn_is_run"
       /\ tun'[r].state = tun[r].state
  BY <1>8, <1>10 DEF LetGo, Tunnel
<1>13. ~sock'[k].ispriv /\ sock'[k].tunnel = r /\ ~sock'[k].rbuf /\ Silent(sock'[k])
  <2>1. /\ sock'[k].ispriv = sock[k].ispriv /\ sock'[k].tunnel = r /\ sock'[k].rbuf = sock[k].rbuf
        /\ sock'[k].wbuf = sock[k].wbuf /\ sock'[k].mask = sock[k].mask
    BY <1>8, <1>11 DEF Sock
  <2> QED
    BY <1>6, <1>7, <2>1 DEF Silent
<1>14. WaitT(tun'[w]) /\ ParkedOK(tun'[w], sock', batch')
  BY <1>5, <1>12 DEF WaitT, ParkedOK, WaitStatus
<1>15. AppT(tun'[r]) /\ RunOK(tun'[r], sock', batch')
  <2>1. AppT(tun[r])
    BY <1>2 DEF PoolInv, TunnelsOK
  <2>2. AppT(tun'[r])
    BY <1>12, <2>1 DEF AppT, AppStatus
  <2>3. OutEvent(k) \notin batch'
    BY <1>1
  <2> QED
    BY <1>12, <1>13, <2>2, <2>3 DEF RunOK
<1>16. (\A x : InApp(x)' <=> InApp(x)) /\ (\A x : InWait(x)' <=> InWait(x)) /\ ListsApart'
  BY <1>1 DEF PoolInv, ListsApart, InApp, InWait, Fresh
<1>17. ASSUME NEW x \in Tunnels
       PROVE  /\ InApp(x)' => AppT(tun'[x]) /\ RunOK(tun'[x], sock', batch')
              /\ InWait(x)' => WaitT(tun'[x]) /\ ParkedOK(tun'[x], sock', batch')
              /\ ~InApp(x)' /\ ~InWait(x)' => tun'[x].priv = NULL
  <2>1. CASE x = w
    BY <1>4, <1>5, <1>14, <1>16, <2>1
  <2>2. CASE x = r
    BY <1>2, <1>5, <1>15, <1>16, <2>2
  <2>3. CASE x \notin {w, r}
    <3>1. tun'[x] = tun[x]
      BY <1>10, <2>3
    <3>2. tun[x].remote # k
      BY <1>1, <1>4, <1>6, <2>3, OneOwner DEF k
    <3>3. tun[x].remote # NULL => sock'[tun[x].remote] = sock[tun[x].remote]
      BY <1>8, <1>11, <3>2 DEF Tunnel
    <3>4. RunOK(tun[x], sock, batch) => RunOK(tun'[x], sock', batch')
      BY <1>1, <3>1, <3>3 DEF RunOK
    <3>5. ParkedOK(tun[x], sock, batch) => ParkedOK(tun'[x], sock', batch')
      BY <1>1, <3>1, <3>3 DEF ParkedOK
    <3> QED
      BY <1>16, <3>1, <3>4, <3>5 DEF PoolInv, TunnelsOK
  <2> QED
    BY <2>1, <2>2, <2>3
<1>18. \A x \in Tunnels : tun'[x].priv = tun[x].priv
  BY <1>10, <1>12
<1>19. ASSUME NEW j \in Socks, sock'[j].alloc
       PROVE  SockOK(j)'
  <2>1. CASE j = k
    BY <1>2, <1>13, <1>16, <2>1 DEF SockOK
  <2>2. CASE j # k
    <3>1. sock'[j] = sock[j] /\ SockOK(j) /\ sock[j].tunnel \in Tunnels
      BY <1>1, <1>11, <1>19, <2>2 DEF PoolInv, SocksOK, HeapInv, SockInTunnel
    <3>2. CASE sock[j].ispriv
      BY <1>16, <1>18, <3>1, <3>2 DEF SockOK
    <3>3. CASE ~sock[j].ispriv /\ InApp(sock[j].tunnel)
      BY <1>16, <3>1, <3>3 DEF SockOK
    <3>4. CASE ~sock[j].ispriv /\ ~InApp(sock[j].tunnel)
      <4>1. InWait(sock[j].tunnel) /\ tun[sock[j].tunnel].remote = j
        BY <3>1, <3>4 DEF SockOK
      <4>2. sock[j].tunnel \notin {w, r}
        BY <1>5, <2>2, <4>1 DEF k
      <4>3. tun'[sock[j].tunnel] = tun[sock[j].tunnel]
        BY <1>10, <3>1, <4>2
      <4> QED
        BY <1>16, <3>1, <3>4, <4>1, <4>3 DEF SockOK
    <3> QED
      BY <3>2, <3>3, <3>4
  <2> QED
    BY <2>1, <2>2
<1> QED
  BY <1>16, <1>17, <1>19 DEF PoolInv, TunnelsOK, SocksOK

\* A step that changes the events of the batch, or what the kernel knows of a peer.
LEMMA OutsidePool ==
    ASSUME HeapInv, PoolInv, UNCHANGED <<tun, appList, waitList>>,
           \A j \in Socks : /\ sock'[j].alloc = sock[j].alloc /\ sock'[j].ispriv = sock[j].ispriv
                            /\ sock'[j].tunnel = sock[j].tunnel /\ sock'[j].half = sock[j].half
                            /\ sock'[j].rbuf = sock[j].rbuf /\ sock'[j].wbuf = sock[j].wbuf
                            /\ sock'[j].mask = sock[j].mask
                            /\ OutEvent(j) \in batch' => OutEvent(j) \in batch \/ "out" \in sock[j].mask
    PROVE  PoolInv'
<1>1. ListsApart' /\ SocksOK'
  BY DEF PoolInv, ListsApart, SocksOK, SockOK, InApp, InWait, Fresh
<1>2. ASSUME NEW r \in Tunnels
      PROVE  /\ RunOK(tun[r], sock, batch) => RunOK(tun'[r], sock', batch')
             /\ WaitT(tun[r]) /\ ParkedOK(tun[r], sock, batch) => ParkedOK(tun'[r], sock', batch')
  <2>1. tun[r].remote # NULL => tun[r].remote \in Socks
    BY DEF HeapInv, Tunnel
  <2> QED
    BY <2>1 DEF RunOK, ParkedOK, Silent
<1>3. TunnelsOK'
  BY <1>2 DEF PoolInv, TunnelsOK, InApp, InWait
<1> QED
  BY <1>1, <1>3 DEF PoolInv

LEMMA EpollPool ==
    ASSUME IInv, PoolInv, EpollWait
    PROVE  PoolInv'
<1>1. batch' \subseteq MustReport \cup MayReport
  <2>1. PICK more \in SUBSET MayReport :
          batch' \in IF Cardinality(MustReport \cup more) <= MaxEvents THEN {MustReport \cup more}
                     ELSE kSubset(MaxEvents, MustReport \cup more)
    BY DEF EpollWait
  <2>2. batch' \subseteq MustReport \cup more
    BY <2>1 DEF kSubset
  <2> QED
    BY <2>2
<1>2. \A j \in Socks : OutEvent(j) \in MustReport \cup MayReport => "out" \in sock[j].mask
  BY ListenersAssumption DEF MustReport, MayReport, OutEvent, OutReady, Listeners
<1>3. UNCHANGED <<tun, sock, appList, waitList>> /\ HeapInv
  BY DEF EpollWait, IInv
<1> QED
  BY <1>1, <1>2, <1>3, OutsidePool

LEMMA PeerPool ==
    ASSUME IInv, PoolInv, NEW k \in Socks, PeerSend(k) \/ PeerFin(k) \/ PeerReset(k)
    PROVE  PoolInv'
<1>1. HeapInv /\ UNCHANGED <<tun, appList, waitList, batch>>
  BY DEF PeerSend, PeerFin, PeerReset, Peer, IInv
<1>2. sock \in [Socks -> Sock] /\ sock[k] \in Sock
  BY <1>1 DEF HeapInv
<1>3. /\ \A j \in Socks : j # k => sock'[j] = sock[j]
      /\ \/ sock'[k] = [sock[k] EXCEPT !.rx = TRUE]
         \/ sock'[k] = [sock[k] EXCEPT !.peer = "fin"]
         \/ sock'[k] = [sock[k] EXCEPT !.peer = "rst"]
  BY <1>2 DEF PeerSend, PeerFin, PeerReset
<1>4. /\ sock'[k].alloc = sock[k].alloc /\ sock'[k].ispriv = sock[k].ispriv
      /\ sock'[k].tunnel = sock[k].tunnel /\ sock'[k].half = sock[k].half
      /\ sock'[k].rbuf = sock[k].rbuf /\ sock'[k].wbuf = sock[k].wbuf
      /\ sock'[k].mask = sock[k].mask
  BY <1>2, <1>3 DEF Sock
<1> QED
  BY <1>1, <1>3, <1>4, OutsidePool

----------------------------------------------------------------------------

\* Events are dispatched before the tunnels are paired.
BatchFirst == pc = "pairing" => batch = {}

PoolIInv == IInv /\ PoolInv /\ BatchFirst

LEMMA InitPool ==
    ASSUME Init
    PROVE  PoolIInv
<1>1. IInv
  BY InitIInv
<1>2. \A r : ~InApp(r) /\ ~InWait(r)
  BY DEF Init, InApp, InWait
<1>3. \A r \in Tunnels : tun[r].priv = NULL
  BY DEF Init, ZeroTunnel
<1>4. \A k \in Socks : ~sock[k].alloc
  BY DEF Init, NoSock
<1>5. ListsApart
  BY <1>2 DEF ListsApart, Init
<1>6. PoolInv
  BY <1>2, <1>3, <1>4, <1>5 DEF PoolInv, TunnelsOK, SocksOK
<1> QED
  BY <1>1, <1>6 DEF PoolIInv, BatchFirst, Init

LEMMA NextBatchFirst ==
    ASSUME BatchFirst, [Next]_vars
    PROVE  BatchFirst'
<1>1. ASSUME NEW src, NEW ev, Consume(src, ev)
      PROVE  BatchFirst'
  BY <1>1 DEF Consume, BatchFirst
<1>2. CASE AcceptPriv \/ AcceptRemote \/ \E k \in Socks : ReadHandle(k) \/ WriteHandle(k) \/ StaleEvent(k)
  BY <1>1, <1>2 DEF AcceptPriv, AcceptRemote, ReadHandle, WriteHandle, StaleEvent
<1>3. CASE EpollWait \/ PairSkip \/ PairBind \/ PairingDone \/ \E l \in Listeners : AcceptFails(l)
  BY <1>3 DEF EpollWait, PairSkip, PairBind, PairingDone, AcceptFails, BatchFirst
<1>4. CASE (\E k \in Socks : PeerSend(k) \/ PeerFin(k) \/ PeerReset(k)) \/ UNCHANGED vars
  BY <1>4 DEF PeerSend, PeerFin, PeerReset, Peer, vars, BatchFirst
<1> QED
  BY <1>2, <1>3, <1>4 DEF Next, Loop

LEMMA NextPool ==
    ASSUME PoolIInv, [Next]_vars
    PROVE  PoolIInv'
<1>1. IInv' /\ BatchFirst'
  BY NextIInv, NextBatchFirst DEF PoolIInv
<1>2. IInv /\ PoolInv /\ HeapInv
  BY DEF PoolIInv, IInv
<1> SUFFICES PoolInv'
  BY <1>1 DEF PoolIInv
<1>3. CASE EpollWait
  BY <1>2, <1>3, EpollPool
<1>4. CASE AcceptPriv
  BY <1>2, <1>4, AcceptPrivPool
<1>5. CASE AcceptRemote
  BY <1>2, <1>5, AcceptRemotePool
<1>6. CASE PairBind
  <2>1. batch = {}
    BY <1>6 DEF PairBind, Running, PoolIInv, BatchFirst
  <2> QED
    BY <1>2, <1>6, <2>1, PairPool
<1>7. CASE PairSkip \/ PairingDone \/ UNCHANGED vars
  BY <1>2, <1>7, NothingMoved DEF PairSkip, PairingDone, vars
<1>8. ASSUME NEW l \in Listeners, AcceptFails(l)
      PROVE  PoolInv'
  BY <1>2, <1>8, NothingMoved DEF AcceptFails
<1>9. ASSUME NEW k \in Socks, ReadHandle(k)
      PROVE  PoolInv'
  BY <1>2, <1>9, ReadPool
<1>10. ASSUME NEW k \in Socks, WriteHandle(k)
       PROVE  PoolInv'
  BY <1>2, <1>10, WritePool
<1>11. ASSUME NEW k \in Socks, StaleEvent(k)
       PROVE  PoolInv'
  BY <1>2, <1>11, NothingMoved DEF StaleEvent, Crash, Consume
<1>12. ASSUME NEW k \in Socks, PeerSend(k) \/ PeerFin(k) \/ PeerReset(k)
       PROVE  PoolInv'
  BY <1>2, <1>12, PeerPool
<1> QED
  BY <1>3, <1>4, <1>5, <1>6, <1>7, <1>8, <1>9, <1>10, <1>11, <1>12 DEF Next, Loop

LEMMA PoolAlways == Spec => []PoolIInv
<1>1. Init => PoolIInv
  BY InitPool
<1>2. PoolIInv /\ [Next]_vars => PoolIInv'
  BY NextPool
<1> QED
  BY <1>1, <1>2, PTL DEF Spec

\* A wait entry holds a client exactly until it is free: getWaitobjFrList never hands out
\* an entry in use, and waitCompare2 never dereferences a client that is gone.
THEOREM EntriesOwnRemote == Spec => []WaitEntriesOwnRemote
<1>1. PoolIInv => WaitEntriesOwnRemote
  <2> SUFFICES ASSUME PoolIInv, NEW i \in DOMAIN waitList
               PROVE  WaitT(tun[waitList[i]])
    BY DEF WaitEntriesOwnRemote, WaitT
  <2>1. waitList[i] \in Tunnels /\ InWait(waitList[i])
    BY DEF PoolIInv, IInv, ListsOK, InWait
  <2> QED
    BY <2>1 DEF PoolIInv, PoolInv, TunnelsOK
<1> QED
  BY <1>1, PoolAlways, PTL

\* No open private socket is ever lost: tunnel_create never gives its tunnel to another
\* connection while it is open.
THEOREM PrivateReachable == Spec => []PrivReachable
<1>1. PoolIInv => PrivReachable
  <2> SUFFICES ASSUME PoolIInv, NEW k \in Socks, sock[k].alloc, sock[k].ispriv
               PROVE  \E i \in DOMAIN appList : appList[i] = sock[k].tunnel /\ tun[appList[i]].priv = k
    BY DEF PrivReachable
  <2>1. InApp(sock[k].tunnel) /\ tun[sock[k].tunnel].priv = k
    BY DEF PoolIInv, PoolInv, SocksOK, SockOK
  <2> QED
    BY <2>1 DEF InApp
<1> QED
  BY <1>1, PoolAlways, PTL

\* What a parked client sends never stays in its buffer: the second disjunct of
\* waitCompare2 never accepts anyone.
THEOREM ParkedStayDrained == Spec => []ParkedDrained
<1>1. PoolIInv => ParkedDrained
  <2> SUFFICES ASSUME PoolIInv, NEW i \in DOMAIN waitList
               PROVE  ParkedOK(tun[waitList[i]], sock, batch)
    BY DEF ParkedDrained, ParkedOK
  <2>1. waitList[i] \in Tunnels /\ InWait(waitList[i])
    BY DEF PoolIInv, IInv, ListsOK, InWait
  <2> QED
    BY <2>1 DEF PoolIInv, PoolInv, TunnelsOK
<1> QED
  BY <1>1, PoolAlways, PTL

----------------------------------------------------------------------------
(* Wait entries are bounded: a new one is made only while every other one  *)
(* holds a client of its own.                                              *)

LEMMA RoomForOne ==
    ASSUME PoolIInv, WaitFree = {}, NEW k \in Socks,
           \A i \in DOMAIN waitList : tun[waitList[i]].remote # k
    PROVE  Len(waitList) + 1 <= Cardinality(Socks)
<1> DEFINE n == Len(waitList)
           f == [i \in 1..(n + 1) |-> IF i = n + 1 THEN k ELSE tun[waitList[i]].remote]
<1>1. n \in Nat /\ DOMAIN waitList = 1..n /\ \A i \in 1..n : waitList[i] \in Tunnels /\ InWait(waitList[i])
  BY DEF PoolIInv, IInv, ListsOK, InWait
<1>2. ASSUME NEW i \in 1..n
      PROVE  tun[waitList[i]].remote \in Socks /\ sock[tun[waitList[i]].remote].tunnel = waitList[i]
  <2>1. WaitT(tun[waitList[i]]) /\ tun[waitList[i]].status # "tmptun_is_free"
    BY <1>1 DEF WaitFree, PoolIInv, PoolInv, TunnelsOK
  <2>2. tun[waitList[i]].remote # NULL
    BY <2>1 DEF WaitT
  <2> QED
    BY <1>1, <2>2 DEF PoolIInv, IInv, HeapInv, NoDanglingSock, Tunnel
<1>3. f \in [1..(n + 1) -> Socks]
  BY <1>1, <1>2
<1>4. \A i \in 1..n : f[i] = tun[waitList[i]].remote /\ f[i] # k
  BY <1>1
<1>5. f[n + 1] = k
  BY <1>1
<1>6. ASSUME NEW i \in 1..(n + 1), NEW j \in 1..(n + 1), f[i] = f[j]
      PROVE  i = j
  <2>1. CASE i \in 1..n /\ j \in 1..n
    <3>1. tun[waitList[i]].remote = tun[waitList[j]].remote
      BY <1>4, <1>6, <2>1
    <3>2. waitList[i] = waitList[j]
      BY <1>2, <2>1, <3>1
    <3> QED
      BY <1>1, <2>1, <3>2 DEF PoolIInv, PoolInv, ListsApart
  <2>2. CASE i = n + 1 \/ j = n + 1
    <3> HIDE DEF f
    <3>1. ASSUME NEW m \in 1..(n + 1), f[m] = k
          PROVE  m = n + 1
      <4>1. m \in 1..n \/ m = n + 1
        BY <1>1
      <4> QED
        BY <1>4, <3>1, <4>1
    <3>2. f[i] = k /\ f[j] = k
      BY <1>5, <1>6, <2>2
    <3> QED
      BY <3>1, <3>2
  <2>3. \A m \in 1..(n + 1) : m \in 1..n \/ m = n + 1
    BY <1>1
  <2> QED
    BY <2>1, <2>2, <2>3
<1> HIDE DEF f
<1>7. f \in Injection(1..(n + 1), Socks)
  BY <1>3, <1>6 DEF Injection, IsInjective
<1>8. Cardinality(1..(n + 1)) <= Cardinality(Socks)
  BY <1>7, FS_Injection, FiniteAssumption
<1>9. Cardinality(1..(n + 1)) = n + 1
  BY <1>1, FS_Interval
<1> QED
  BY <1>8, <1>9

\* The list with the entry of a client that no other entry holds.
LEMMA EntryFits ==
    ASSUME PoolIInv, WaitListBounded, NEW k \in Socks, NEW w,
           \A i \in DOMAIN waitList : tun[waitList[i]].remote # k, waitList' = WaitListWith(w),
           w \in WaitObj
    PROVE  WaitListBounded'
<1>1. CASE WaitFree # {}
  BY <1>1 DEF WaitListWith, WaitListBounded
<1>2. CASE WaitFree = {}
  <2>1. w \in Tunnels /\ waitList \in Seq(Tunnels) /\ waitList' = <<w>> \o waitList
    BY <1>2, WaitObjType DEF WaitListWith, PoolIInv, IInv, ListsOK
  <2>2. Len(waitList') = Len(waitList) + 1
    BY <2>1, FrontOf
  <2> QED
    BY <1>2, <2>2, RoomForOne DEF WaitListBounded
<1> QED
  BY <1>1, <1>2

LEMMA SwitchBounded ==
    ASSUME PoolIInv, WaitListBounded, NEW k \in Socks, sock[k].alloc, NEW s, SameOwners(s),
           TunnelSwitch(k, s), tun[sock[k].tunnel].status = "tunn_is_run"
    PROVE  WaitListBounded'
<1> DEFINE r == sock[k].tunnel
<1>1. s[k].tunnel = r /\ r \in Tunnels /\ HeapInv
  BY DEF SameOwners, PoolIInv, IInv, HeapInv, SockInTunnel
<1>2. \/ UNCHANGED waitList
      \/ k = tun[r].remote /\ \E w \in WaitObj : waitList' = WaitListWith(w)
  BY <1>1 DEF TunnelSwitch, Crash
<1>3. ASSUME k = tun[r].remote, NEW i \in DOMAIN waitList
      PROVE  tun[waitList[i]].remote # k
  <2>1. waitList[i] \in Tunnels /\ InWait(waitList[i])
    BY DEF PoolIInv, IInv, ListsOK, InWait
  <2>2. tun[waitList[i]].status \in WaitStatus
    BY <2>1 DEF PoolIInv, PoolInv, TunnelsOK, WaitT
  <2>3. waitList[i] # r
    BY <2>2 DEF WaitStatus
  <2> QED
    BY <1>1, <1>3, <2>1, <2>3, OneOwner
<1> QED
  BY <1>2, <1>3, EntryFits DEF WaitListBounded

LEMMA NextBounded ==
    ASSUME PoolIInv, WaitListBounded, [Next]_vars
    PROVE  WaitListBounded'
<1> USE DEF WaitListBounded
<1>1. HeapInv /\ LoopOK
  BY DEF PoolIInv, IInv
<1>2. CASE AcceptRemote
  <2>1. PICK k \in Socks :
          /\ ~sock[k].alloc
          /\ \/ \E r \in AppListFnd("tunn_is_idle") : BindRemote(r, k)
             \/ \E w \in WaitObj : ParkRemote(w, k)
    BY <1>2 DEF AcceptRemote
  <2>2. \A i \in DOMAIN waitList : tun[waitList[i]].remote # k
    BY <1>1, <2>1, Unowned DEF PoolIInv, IInv, ListsOK
  <2>3. CASE \E w \in WaitObj : ParkRemote(w, k)
    BY <2>2, <2>3, EntryFits DEF ParkRemote
  <2>4. CASE \E r \in AppListFnd("tunn_is_idle") : BindRemote(r, k)
    BY <2>4 DEF BindRemote, Crash
  <2> QED
    BY <2>1, <2>3, <2>4
<1>3. ASSUME NEW k \in Socks, sock[k].alloc, NEW s, SameOwners(s), AfterWrite(k, s)
      PROVE  WaitListBounded'
  <2>1. s[k].tunnel = sock[k].tunnel
    BY <1>3 DEF SameOwners
  <2> QED
    BY <1>3, <2>1, SwitchBounded DEF AfterWrite
<1>4. ASSUME NEW k \in Socks, WriteHandle(k)
      PROVE  WaitListBounded'
  <2>1. CASE AfterWrite(k, sock)
    BY <1>1, <1>3, <1>4, <2>1, SelfOwners DEF WriteHandle
  <2>2. CASE \E rest \in BOOLEAN : AfterWrite(k, [sock EXCEPT ![k] = [@ EXCEPT !.wbuf = rest]])
    BY <1>1, <1>3, <1>4, <2>2, WbufOwners DEF WriteHandle
  <2>3. CASE SockForceShutdown(k, sock)
    BY <2>3 DEF SockForceShutdown
  <2> QED
    BY <1>4, <2>1, <2>2, <2>3 DEF WriteHandle
<1>5. ASSUME NEW k \in Socks, NEW s, SockShutdown(k, s)
      PROVE  UNCHANGED waitList
  BY <1>5 DEF SockShutdown, CloseSock, Crash
<1>6. ASSUME NEW k \in Socks, NEW s, StateHandle(k, s)
      PROVE  UNCHANGED waitList
  <2>1. CASE Handshake(k, s)
    BY <2>1 DEF Handshake, SockForceShutdown, Crash
  <2>2. CASE TunnelConnected(k, s)
    BY <1>5, <2>2 DEF TunnelConnected, TunnelShutdown, Crash
  <2>3. CASE TunnelWaitting(k, s)
    BY <2>3 DEF TunnelWaitting
  <2> QED
    BY <1>6, <2>1, <2>2, <2>3 DEF StateHandle
<1>7. ASSUME NEW k \in Socks, ReadHandle(k)
      PROVE  UNCHANGED waitList
  BY <1>5, <1>6, <1>7 DEF ReadHandle
<1>8. CASE EpollWait \/ AcceptPriv \/ PairSkip \/ PairBind \/ PairingDone
           \/ \E l \in Listeners : AcceptFails(l)
  BY <1>8 DEF EpollWait, AcceptPriv, PairSkip, PairBind, PairingDone, AcceptFails
<1>9. CASE \E k \in Socks : StaleEvent(k)
  BY <1>9 DEF StaleEvent, Crash
<1>10. CASE (\E k \in Socks : PeerSend(k) \/ PeerFin(k) \/ PeerReset(k)) \/ UNCHANGED vars
  BY <1>10 DEF PeerSend, PeerFin, PeerReset, Peer, vars
<1> QED
  BY <1>2, <1>4, <1>7, <1>8, <1>9, <1>10 DEF Next, Loop

\* getWaitobjFrList recycles: however many clients come and go, waitList is never longer
\* than the number of sockets that can be open at once.
THEOREM EntriesRecycled == Spec => []WaitListBounded
<1>1. Init => WaitListBounded
  <2>1. Cardinality(Socks) \in Nat
    BY FiniteAssumption, FS_CardinalityType
  <2> QED
    BY <2>1 DEF Init, WaitListBounded
<1>2. PoolIInv /\ WaitListBounded /\ [Next]_vars => WaitListBounded'
  BY NextBounded
<1> QED
  BY <1>1, <1>2, PoolAlways, PTL DEF Spec

-----------------------------------------------------------------------------
(* The loop.  A socket is watched for whatever its handler would do.       *)

\* A socket whose handler will run when there is something to do.  A client's is only asked
\* to write when there is something to write, or the end of a write would be seen too soon.
Armed(x) == /\ x.wbuf => "out" \in x.mask
            /\ "in" \in x.mask \/ (x.half /\ x.wbuf)
            /\ "out" \in x.mask => x.wbuf \/ x.ispriv

AllArmed(s) == \A j \in Socks : s[j].alloc => Armed(s[j])

\* One socket is rewritten, and the others keep what they have.
LEMMA OneArmed ==
    ASSUME NEW s, AllArmed(s), NEW c, NEW k, \A j \in Socks : j # k => c[j] = s[j],
           Armed(c[k])
    PROVE  AllArmed(c)
  BY DEF AllArmed

LEMMA ReleasedArmed ==
    ASSUME NEW s, AllArmed(s), NEW ks
    PROVE  AllArmed(Released(s, ks))
  BY DEF AllArmed, Released, NoSock

LEMMA CloseArmed ==
    ASSUME NEW k \in Socks, NEW s, AllArmed(s), CloseSock(k, s)
    PROVE  AllArmed(sock')
  BY ReleasedArmed DEF CloseSock

\* What is left to write is flushed before the socket is closed: it is only watched for that.
LEMMA ShutArmed ==
    ASSUME AllArmed(sock), NEW k \in Socks, NEW s, SameOwners(s), AllArmed(s), s[k].alloc,
           SockShutdown(k, s)
    PROVE  AllArmed(sock')
<1>1. s \in [Socks -> Sock] /\ s[k] \in Sock
  BY DEF SameOwners
<1>2. CASE Crash("null")
  BY <1>2 DEF Crash, AllArmed
<1>3. CASE sock' = [s EXCEPT ![k] = [@ EXCEPT !.half = TRUE, !.wbuf = TRUE, !.mask = {"out"}]]
  <2>1. /\ \A j \in Socks : j # k => sock'[j] = s[j]
        /\ sock'[k] = [s[k] EXCEPT !.half = TRUE, !.wbuf = TRUE, !.mask = {"out"}]
    BY <1>1, <1>3
  <2>2. Armed(sock'[k])
    BY <1>1, <2>1 DEF Armed, Sock
  <2> QED
    BY <2>1, <2>2, OneArmed
<1>4. CASE CloseSock(k, [s EXCEPT ![k] = [@ EXCEPT !.half = TRUE]])
  <2> DEFINE c == [s EXCEPT ![k] = [@ EXCEPT !.half = TRUE]]
  <2>1. c[k] = [s[k] EXCEPT !.half = TRUE] /\ \A j \in Socks : j # k => c[j] = s[j]
    BY <1>1
  <2>2. Armed(c[k])
    BY <1>1, <2>1 DEF Armed, Sock, AllArmed
  <2> HIDE DEF c
  <2>3. AllArmed(c)
    BY <2>1, <2>2, OneArmed
  <2>4. CloseSock(k, c)
    BY <1>4 DEF c
  <2> QED
    BY <2>3, <2>4, CloseArmed
<1> QED
  BY <1>2, <1>3, <1>4 DEF SockShutdown

LEMMA RelayArmed ==
    ASSUME NEW s, SameOwners(s), AllArmed(s), NEW from \in Socks, NEW to \in Socks, from # to,
           s[to].ispriv \/ s[from].rbuf
    PROVE  AllArmed(Relay(s, from, to))
<1> DEFINE b == [s[to] EXCEPT !.wbuf = s[to].wbuf \/ s[from].rbuf, !.mask = {"in", "out"}]
           c == [s[from] EXCEPT !.rbuf = FALSE]
           s1 == [s EXCEPT ![to] = b]
<1>1. s \in [Socks -> Sock] /\ s[from] \in Sock /\ s[to] \in Sock
  BY DEF SameOwners
<1>2. Armed(b)
  BY <1>1 DEF Sock, Armed
<1>3. s[from].alloc => Armed(c)
  BY <1>1 DEF Sock, Armed, AllArmed
<1>4. c.alloc = s[from].alloc
  BY <1>1 DEF Sock
<1>5. s1[from] = s[from] /\ DOMAIN s1 = Socks
  BY <1>1
<1>6. Relay(s, from, to) = [s1 EXCEPT ![from] = c]
  BY <1>5 DEF Relay
<1> HIDE DEF b, c
<1>7. /\ Relay(s, from, to)[from] = c /\ Relay(s, from, to)[to] = b
      /\ \A j \in Socks : j \notin {from, to} => Relay(s, from, to)[j] = s[j]
  BY <1>1, <1>6
<1> QED
  BY <1>2, <1>3, <1>4, <1>7 DEF AllArmed

LEMMA HandshakeArmed ==
    ASSUME HeapInv, AllArmed(sock), NEW k \in Socks, sock[k].alloc, NEW s, SameOwners(s), AllArmed(s),
           Handshake(k, s)
    PROVE  AllArmed(sock')
<1> DEFINE p == tun[sock[k].tunnel].priv
<1>1. s \in [Socks -> Sock] /\ s[k].tunnel = sock[k].tunnel
  BY DEF SameOwners
<1>2. p # NULL => p \in Socks /\ sock[p].alloc /\ s[p].alloc /\ s[p] \in Sock /\ s[p].ispriv
  BY DEF HeapInv, SockInTunnel, NoDanglingSock, Tunnel, SameOwners
<1>3. CASE Crash("null")
  BY <1>3 DEF Crash, AllArmed
<1>5. ASSUME p # NULL, NEW rest \in BOOLEAN, NEW c,
             \/ c = [s EXCEPT ![p] = [@ EXCEPT !.rbuf = rest]]
             \/ c = [s EXCEPT ![p] = [@ EXCEPT !.rbuf = rest, !.wbuf = TRUE, !.mask = {"in", "out"}]]
      PROVE  AllArmed(c)
  <2> HIDE DEF p
  <2>1. /\ \A j \in Socks : j # p => c[j] = s[j]
        /\ \/ c[p] = [s[p] EXCEPT !.rbuf = rest]
           \/ c[p] = [s[p] EXCEPT !.rbuf = rest, !.wbuf = TRUE, !.mask = {"in", "out"}]
    BY <1>1, <1>2, <1>5
  <2>2. Armed(c[p])
    <3>1. CASE c[p] = [s[p] EXCEPT !.rbuf = rest]
      <4>1. /\ c[p].wbuf = s[p].wbuf /\ c[p].mask = s[p].mask /\ c[p].half = s[p].half
            /\ c[p].ispriv = s[p].ispriv
        BY <1>2, <1>5, <3>1 DEF Sock
      <4> QED
        BY <1>2, <1>5, <4>1 DEF Armed, AllArmed
    <3>2. CASE c[p] = [s[p] EXCEPT !.rbuf = rest, !.wbuf = TRUE, !.mask = {"in", "out"}]
      <4>1. c[p].mask = {"in", "out"} /\ c[p].wbuf
        BY <1>2, <1>5, <3>2 DEF Sock
      <4> QED
        BY <4>1 DEF Armed
    <3> QED
      BY <2>1, <3>1, <3>2
  <2> QED
    BY <2>1, <2>2, OneArmed
<1>4. ASSUME p # NULL, NEW rest \in BOOLEAN,
             SockForceShutdown(k, [s EXCEPT ![p] = [@ EXCEPT !.rbuf = rest]])
      PROVE  AllArmed(sock')
  <2> DEFINE c == [s EXCEPT ![p] = [@ EXCEPT !.rbuf = rest]]
  <2>1. AllArmed(c)
    BY <1>4, <1>5
  <2> HIDE DEF c
  <2>2. AllArmed(Released(c, {k}))
    BY <2>1, ReleasedArmed
  <2> QED
    BY <1>4, <2>2 DEF SockForceShutdown, c
<1>6. \/ Crash("null")
      \/ /\ p # NULL
         /\ \/ \E rest \in BOOLEAN : sock' = [s EXCEPT ![p] = [@ EXCEPT !.rbuf = rest]]
            \/ \E rest \in BOOLEAN : SockForceShutdown(k, [s EXCEPT ![p] = [@ EXCEPT !.rbuf = rest]])
            \/ \E rest \in BOOLEAN :
                 sock' = [s EXCEPT ![p] = [@ EXCEPT !.rbuf = rest, !.wbuf = TRUE, !.mask = {"in", "out"}]]
  BY <1>1 DEF Handshake
<1> HIDE DEF p
<1> QED
  BY <1>3, <1>4, <1>5, <1>6

LEMMA ConnectedArmed ==
    ASSUME HeapInv, PoolInv, AllArmed(sock), NEW k \in Socks, sock[k].alloc, NEW s, SameOwners(s), AllArmed(s),
           TunnelConnected(k, s)
    PROVE  AllArmed(sock')
<1> DEFINE t == tun[sock[k].tunnel]
           other == IF sock[k].ispriv THEN t.remote ELSE t.priv
           mine == IF sock[k].ispriv THEN t.priv ELSE t.remote
<1>1. /\ s[k].tunnel = sock[k].tunnel /\ s[k].ispriv = sock[k].ispriv /\ s[k].alloc
  BY DEF SameOwners
<1>2. /\ sock[k].ispriv => t.priv = k
      /\ t.priv # NULL => t.priv \in Socks /\ sock[t.priv].ispriv
      /\ t.remote # NULL => t.remote \in Socks /\ ~sock[t.remote].ispriv
  BY DEF HeapInv, SockInTunnel, NoDanglingSock, Tunnel, PoolInv, SocksOK, SockOK
<1>3. mine # NULL /\ other # NULL =>
        /\ mine \in Socks /\ other \in Socks /\ mine # other
        /\ s[other].ispriv \/ mine = k
  BY <1>2 DEF SameOwners
<1>4. CASE Crash("null")
  BY <1>4 DEF Crash, AllArmed
<1>5. CASE TunnelShutdown(k, s)
  BY <1>1, <1>5, ShutArmed DEF TunnelShutdown
<1>6. \/ Crash("null") \/ TunnelShutdown(k, s) \/ sock' = s
      \/ s[k].rbuf /\ mine # NULL /\ other # NULL /\ sock' = Relay(s, mine, other)
  BY <1>1 DEF TunnelConnected
<1> HIDE DEF mine, other, t
<1> QED
  BY <1>3, <1>4, <1>5, <1>6, RelayArmed

LEMMA WaittingArmed ==
    ASSUME HeapInv, NEW k \in Socks, sock[k].alloc, NEW s, SameOwners(s), AllArmed(s),
           TunnelWaitting(k, s)
    PROVE  AllArmed(sock')
<1> DEFINE q == tun[sock[k].tunnel].remote
<1>1. s \in [Socks -> Sock] /\ s[k].tunnel = sock[k].tunnel
  BY DEF SameOwners
<1>2. q # NULL => q \in Socks /\ s[q] \in Sock
  BY DEF HeapInv, SockInTunnel, Tunnel, SameOwners
<1>3. ASSUME q # NULL,
             sock' = [s EXCEPT ![q] = [@ EXCEPT !.wbuf = TRUE, !.rbuf = FALSE, !.mask = {"in", "out"}]]
      PROVE  AllArmed(sock')
  <2> HIDE DEF q
  <2>1. /\ \A j \in Socks : j # q => sock'[j] = s[j]
        /\ sock'[q] = [s[q] EXCEPT !.wbuf = TRUE, !.rbuf = FALSE, !.mask = {"in", "out"}]
    BY <1>1, <1>2, <1>3
  <2>2. Armed(sock'[q])
    <3>1. sock'[q].mask = {"in", "out"} /\ sock'[q].wbuf
      <4>1. s[q] \in Sock
        BY <1>2, <1>3
      <4>2. sock'[q] = [s[q] EXCEPT !.wbuf = TRUE, !.rbuf = FALSE, !.mask = {"in", "out"}]
        BY <2>1
      <4> QED
        BY ONLY <4>1, <4>2 DEF Sock
    <3> QED
      BY <3>1 DEF Armed
  <2> QED
    BY <2>1, <2>2, OneArmed
<1>4. sock' = s \/ (q # NULL /\ sock' = [s EXCEPT ![q] = [@ EXCEPT !.wbuf = TRUE, !.rbuf = FALSE, !.mask = {"in", "out"}]])
  BY <1>1 DEF TunnelWaitting
<1> HIDE DEF q
<1> QED
  BY <1>3, <1>4

\* A write leaves the socket registered for what is left of it.
LEMMA AfterWriteArmed ==
    ASSUME AllArmed(sock), NEW k \in Socks, NEW s, SameOwners(s),
           \A j \in Socks : j # k => s[j] = sock[j], AfterWrite(k, s)
    PROVE  AllArmed(sock')
<1>1. s \in [Socks -> Sock] /\ s[k] \in Sock
  BY DEF SameOwners
<1>2. CASE Crash("null")
  BY <1>2 DEF Crash, AllArmed
<1>3. ASSUME \/ \E w : ~s[k].wbuf /\ sock' = [s EXCEPT ![k] = [@ EXCEPT !.mask = {"in"}, !.tunnel = w]]
             \/ ~s[k].wbuf /\ sock' = [s EXCEPT ![k] = [@ EXCEPT !.mask = {"in"}]]
             \/ s[k].wbuf /\ sock' = [s EXCEPT ![k] = [@ EXCEPT !.mask = {"in", "out"}]]
      PROVE  AllArmed(sock')
  <2>1. /\ \A j \in Socks : j # k => sock'[j] = s[j]
        /\ \/ \E w : ~s[k].wbuf /\ sock'[k] = [s[k] EXCEPT !.mask = {"in"}, !.tunnel = w]
           \/ ~s[k].wbuf /\ sock'[k] = [s[k] EXCEPT !.mask = {"in"}]
           \/ s[k].wbuf /\ sock'[k] = [s[k] EXCEPT !.mask = {"in", "out"}]
    BY <1>1, <1>3
  <2>2. sock'[k].wbuf = s[k].wbuf /\ ("in" \in sock'[k].mask) /\ (s[k].wbuf <=> "out" \in sock'[k].mask)
    <3>1. ASSUME NEW w, ~s[k].wbuf, sock'[k] = [s[k] EXCEPT !.mask = {"in"}, !.tunnel = w]
          PROVE  sock'[k].wbuf = s[k].wbuf /\ ("in" \in sock'[k].mask) /\ (s[k].wbuf <=> "out" \in sock'[k].mask)
      <4>1. sock'[k].wbuf = s[k].wbuf /\ sock'[k].mask = {"in"}
        BY <1>1, <3>1 DEF Sock
      <4> QED BY <3>1, <4>1
    <3>2. CASE sock'[k] = [s[k] EXCEPT !.mask = {"in"}] /\ ~s[k].wbuf
      <4>1. sock'[k].wbuf = s[k].wbuf /\ sock'[k].mask = {"in"}
        BY <1>1, <3>2 DEF Sock
      <4> QED BY <3>2, <4>1
    <3>3. CASE s[k].wbuf /\ sock'[k] = [s[k] EXCEPT !.mask = {"in", "out"}]
      <4>1. sock'[k].wbuf = s[k].wbuf /\ sock'[k].mask = {"in", "out"}
        BY <1>1, <3>3 DEF Sock
      <4> QED BY <3>3, <4>1
    <3> QED
      BY <2>1, <3>1, <3>2, <3>3
  <2>3. Armed(sock'[k]) /\ \A j \in Socks : j # k => sock'[j] = sock[j]
    BY <2>1, <2>2 DEF Armed
  <2> QED
    BY <2>3, OneArmed
<1>4. CASE TunnelSwitch(k, s)
  <2>1. \/ Crash("null")
        \/ \E w : ~s[k].wbuf /\ sock' = [s EXCEPT ![k] = [@ EXCEPT !.mask = {"in"}, !.tunnel = w]]
        \/ ~s[k].wbuf /\ sock' = [s EXCEPT ![k] = [@ EXCEPT !.mask = {"in"}]]
        \/ s[k].wbuf /\ sock' = [s EXCEPT ![k] = [@ EXCEPT !.mask = {"in", "out"}]]
    BY <1>4 DEF TunnelSwitch
  <2> QED
    BY <1>2, <1>3, <2>1
<1>5. CASE sock' = [s EXCEPT ![k] = [@ EXCEPT !.mask = IF s[k].wbuf THEN {"in", "out"} ELSE {"in"}]]
  <2>1. CASE s[k].wbuf
    BY <1>3, <1>5, <2>1
  <2>2. CASE ~s[k].wbuf
    BY <1>3, <1>5, <2>2
  <2> QED
    BY <2>1, <2>2
<1> QED
  BY <1>4, <1>5 DEF AfterWrite

LEMMA ReadArmed ==
    ASSUME IInv, PoolInv, AllArmed(sock), NEW k \in Socks, ReadHandle(k)
    PROVE  AllArmed(sock')
<1> DEFINE s == [sock EXCEPT ![k] = [@ EXCEPT !.rx = FALSE, !.rbuf = TRUE]]
<1>1. HeapInv /\ sock[k].alloc /\ SameOwners(sock) /\ SameOwners(s)
  BY SelfOwners, ReadOwners DEF IInv, ReadHandle
<1>2. sock \in [Socks -> Sock] /\ sock[k] \in Sock
  BY <1>1 DEF HeapInv
<1>3. AllArmed(s)
  <2>1. s[k] = [sock[k] EXCEPT !.rx = FALSE, !.rbuf = TRUE] /\ \A j \in Socks : j # k => s[j] = sock[j]
    BY <1>2
  <2> HIDE DEF s
  <2>2. /\ s[k].wbuf = sock[k].wbuf /\ s[k].mask = sock[k].mask /\ s[k].half = sock[k].half
        /\ s[k].ispriv = sock[k].ispriv
    BY <1>2, <2>1 DEF Sock
  <2>3. Armed(s[k])
    BY <1>1, <2>2 DEF Armed, AllArmed
  <2> QED
    BY <2>1, <2>3, OneArmed
<1>4. ASSUME NEW c, SameOwners(c), AllArmed(c), StateHandle(k, c)
      PROVE  AllArmed(sock')
  BY <1>1, <1>4, HandshakeArmed, ConnectedArmed, WaittingArmed DEF StateHandle
<1>5. CASE SockShutdown(k, sock)
  BY <1>1, <1>5, ShutArmed
<1>6. StateHandle(k, s) \/ StateHandle(k, sock) \/ SockShutdown(k, sock)
  BY DEF ReadHandle
<1> HIDE DEF s
<1> QED
  BY <1>1, <1>3, <1>4, <1>5, <1>6

LEMMA WriteArmed ==
    ASSUME IInv, AllArmed(sock), NEW k \in Socks, WriteHandle(k)
    PROVE  AllArmed(sock')
<1>1. HeapInv /\ SameOwners(sock) /\ sock \in [Socks -> Sock]
  BY SelfOwners DEF IInv, HeapInv
<1>2. CASE SockForceShutdown(k, sock)
  BY <1>2, ReleasedArmed DEF SockForceShutdown
<1>3. CASE AfterWrite(k, sock)
  BY <1>1, <1>3, AfterWriteArmed
<1>4. ASSUME NEW rest \in BOOLEAN, AfterWrite(k, [sock EXCEPT ![k] = [@ EXCEPT !.wbuf = rest]])
      PROVE  AllArmed(sock')
  <2> DEFINE s == [sock EXCEPT ![k] = [@ EXCEPT !.wbuf = rest]]
  <2>1. SameOwners(s) /\ \A j \in Socks : j # k => s[j] = sock[j]
    BY <1>1, WbufOwners
  <2> HIDE DEF s
  <2>2. AfterWrite(k, s)
    BY <1>4 DEF s
  <2> QED
    BY <2>1, <2>2, AfterWriteArmed
<1> QED
  BY <1>2, <1>3, <1>4 DEF WriteHandle

\* A client that is paired keeps its mask; the private socket is asked to write.
LEMMA PairArmed ==
    ASSUME IInv, AllArmed(sock), PairBind
    PROVE  AllArmed(sock')
<1> DEFINE r == appList[scan]
<1>1. HeapInv /\ ListsOK /\ LoopOK /\ SameOwners(sock)
  BY SelfOwners DEF IInv
<1>2. PICK i \in First(WaitPending) :
        LET k == tun[waitList[i]].remote
            p == tun[r].priv
        IN  sock' = IF p # NULL /\ sock[k].rbuf
                    THEN [Relay(sock, k, p) EXCEPT ![k] = [@ EXCEPT !.tunnel = r]]
                    ELSE [sock EXCEPT ![k] = [@ EXCEPT !.tunnel = r]]
  BY DEF PairBind
<1> DEFINE w == waitList[i]
           k == tun[w].remote
           p == tun[r].priv
           s == IF p # NULL /\ sock[k].rbuf THEN Relay(sock, k, p) ELSE sock
<1>3. r \in Tunnels /\ w \in Tunnels
  <2>1. i \in DOMAIN waitList
    BY FirstIn DEF WaitPending
  <2>2. scan \in DOMAIN appList
    BY <1>1, BindAt
  <2> QED BY <1>1, <2>1, <2>2 DEF LoopOK, ListsOK
<1>4. /\ k # NULL => k \in Socks /\ ~sock[k].ispriv /\ sock[k].alloc
      /\ p # NULL => p \in Socks /\ sock[p].ispriv
  BY <1>1, <1>3 DEF HeapInv, NoDanglingSock, Tunnel
<1>5. sock' = [s EXCEPT ![k] = [s[k] EXCEPT !.tunnel = r]]
  BY <1>2
<1> HIDE DEF k, p, w, r
<1>6. CASE k # NULL
  <2>1. SameOwners(s) /\ AllArmed(s)
    BY <1>1, <1>4, <1>6, RelayOwners, RelayArmed
  <2> HIDE DEF s
  <2>2. s[k] \in Sock /\ s[k].alloc
    BY <1>4, <1>6, <2>1 DEF SameOwners
  <2>3. sock'[k] = [s[k] EXCEPT !.tunnel = r] /\ \A j \in Socks : j # k => sock'[j] = s[j]
    BY <1>4, <1>5, <1>6, <2>1 DEF SameOwners
  <2>4. /\ sock'[k].wbuf = s[k].wbuf /\ sock'[k].mask = s[k].mask /\ sock'[k].half = s[k].half
        /\ sock'[k].ispriv = s[k].ispriv
    BY <2>2, <2>3 DEF Sock
  <2>5. Armed(sock'[k])
    BY <1>4, <1>6, <2>1, <2>2, <2>4 DEF Armed, AllArmed
  <2> QED
    BY <2>1, <2>3, <2>5, OneArmed
<1>7. CASE k = NULL
  <2>1. SameOwners(s) /\ \A j \in Socks : s[j].alloc => Armed(s[j])
    <3>1. CASE p # NULL /\ sock[k].rbuf
      <4> DEFINE b == [sock[p] EXCEPT !.wbuf = sock[p].wbuf \/ sock[k].rbuf, !.mask = {"in", "out"}]
                 s1 == [sock EXCEPT ![p] = b]
      <4>1. sock \in [Socks -> Sock] /\ sock[p] \in Sock
        BY <1>1, <1>4, <3>1 DEF HeapInv
      <4>2. b.mask = {"in", "out"} /\ b.ispriv
        BY <1>4, <3>1, <4>1 DEF Sock
      <4>3. Armed(b)
        BY <4>2 DEF Armed
      <4>4. s = s1
        BY <1>7, <3>1, <4>1 DEF Relay
      <4> HIDE DEF b
      <4>5. s[p] = b /\ \A j \in Socks : j # p => s[j] = sock[j]
        BY <1>4, <3>1, <4>1, <4>4
      <4> QED
        BY <1>1, <1>4, <3>1, <4>3, <4>5, RelayOwners DEF AllArmed
    <3> QED
      BY <1>1, <3>1 DEF AllArmed
  <2> HIDE DEF s
  <2>2. \A j \in Socks : sock'[j] = s[j]
    BY <1>5, <1>7, <2>1 DEF SameOwners
  <2> QED
    BY <2>1, <2>2 DEF AllArmed
<1> QED
  BY <1>6, <1>7

LEMMA AcceptArmed ==
    ASSUME IInv, AllArmed(sock), AcceptPriv \/ AcceptRemote
    PROVE  AllArmed(sock')
<1>1. \/ sock' = sock
      \/ \E k \in Socks : \E r, ispriv : sock' = [sock EXCEPT ![k] = NewSock(r, ispriv)]
  BY DEF AcceptPriv, AcceptRemote, BindRemote, ParkRemote, Crash
<1>2. ASSUME NEW k \in Socks, NEW r, NEW ispriv, sock' = [sock EXCEPT ![k] = NewSock(r, ispriv)]
      PROVE  AllArmed(sock')
  <2>1. Armed(NewSock(r, ispriv))
    BY DEF Armed, NewSock, NoSock
  <2>2. sock'[k] = NewSock(r, ispriv) /\ \A j \in Socks : j # k => sock'[j] = sock[j]
    BY <1>2 DEF IInv, HeapInv
  <2> QED
    BY <2>1, <2>2, OneArmed
<1> QED
  BY <1>1, <1>2

LEMMA PeerArmed ==
    ASSUME IInv, AllArmed(sock), NEW k \in Socks, PeerSend(k) \/ PeerFin(k) \/ PeerReset(k)
    PROVE  AllArmed(sock')
<1>1. sock \in [Socks -> Sock] /\ sock[k] \in Sock /\ sock[k].alloc
  BY DEF IInv, HeapInv, PeerSend, PeerFin, PeerReset, Peer
<1>2. /\ \A j \in Socks : j # k => sock'[j] = sock[j]
      /\ \/ sock'[k] = [sock[k] EXCEPT !.rx = TRUE]
         \/ sock'[k] = [sock[k] EXCEPT !.peer = "fin"]
         \/ sock'[k] = [sock[k] EXCEPT !.peer = "rst"]
  BY <1>1 DEF PeerSend, PeerFin, PeerReset
<1>3. /\ sock'[k].wbuf = sock[k].wbuf /\ sock'[k].mask = sock[k].mask /\ sock'[k].half = sock[k].half
      /\ sock'[k].ispriv = sock[k].ispriv
  BY <1>1, <1>2 DEF Sock
<1>4. Armed(sock'[k])
  BY <1>1, <1>3 DEF Armed, AllArmed
<1> QED
  BY <1>2, <1>4, OneArmed

LEMMA NextArmed ==
    ASSUME PoolIInv, AllArmed(sock), [Next]_vars
    PROVE  AllArmed(sock')
<1>1. IInv /\ PoolInv
  BY DEF PoolIInv
<1>2. CASE UNCHANGED sock
  BY <1>2 DEF AllArmed
<1>3. CASE \/ EpollWait \/ PairSkip \/ PairingDone \/ UNCHANGED vars
           \/ (\E l \in Listeners : AcceptFails(l)) \/ (\E k \in Socks : StaleEvent(k))
  BY <1>2, <1>3 DEF EpollWait, PairSkip, PairingDone, vars, AcceptFails, StaleEvent, Crash
<1> QED
  BY <1>1, <1>3, ReadArmed, WriteArmed, PairArmed, AcceptArmed, PeerArmed DEF Next, Loop

\* A socket with bytes to write is registered for EPOLLOUT, and one that is not registered
\* for EPOLLIN is half closed with bytes left: the loop never forgets a socket.
THEOREM AlwaysArmed == Spec => []EpollArmed
<1>1. Init => AllArmed(sock)
  BY DEF Init, AllArmed, NoSock
<1>2. PoolIInv /\ AllArmed(sock) /\ [Next]_vars => AllArmed(sock)'
  BY NextArmed
<1>3. AllArmed(sock) => EpollArmed
  BY DEF AllArmed, Armed, EpollArmed
<1> QED
  BY <1>1, <1>2, <1>3, PoolAlways, PTL DEF Spec

----------------------------------------------------------------------------
(* One walk of waitLinePairing is enough: what it has passed stays in use. *)

\* The walk has left no idle tunnel behind, and starts at the head of the list.
WalkOK == IF pc = "pairing"
          THEN \A i \in DOMAIN appList : i < scan => tun[appList[i]].status # "tunn_is_idle"
          ELSE scan = 1

LEMMA NextWalk ==
    ASSUME IInv, WalkOK, [Next]_vars
    PROVE  WalkOK'
<1>1. appList \in Seq(Tunnels) /\ scan \in Nat \ {0} /\ waitList \in Seq(Tunnels)
  BY DEF IInv, LoopOK, ListsOK
<1>2. ASSUME pc = "dispatch", UNCHANGED scan, appList' \in Seq(Tunnels)
      PROVE  WalkOK'
  BY <1>2 DEF WalkOK
<1>3. ASSUME NEW src, NEW ev, Consume(src, ev)
      PROVE  WalkOK'
  BY <1>2, <1>3, NextIInv DEF Consume, Running, IInv, LoopOK
<1>4. CASE AcceptPriv \/ AcceptRemote \/ \E k \in Socks : ReadHandle(k) \/ WriteHandle(k) \/ StaleEvent(k)
  BY <1>3, <1>4 DEF AcceptPriv, AcceptRemote, ReadHandle, WriteHandle, StaleEvent
<1>5. CASE \E l \in Listeners : AcceptFails(l)
  BY <1>1, <1>2, <1>5 DEF AcceptFails, Running
<1>6. CASE EpollWait \/ PairingDone
  BY <1>6 DEF EpollWait, PairingDone, Running, WalkOK
<1>7. CASE PairSkip
  <2> SUFFICES ASSUME NEW i \in DOMAIN appList, i < scan + 1
               PROVE  tun[appList[i]].status # "tunn_is_idle"
    BY <1>7 DEF PairSkip, Running, WalkOK
  <2>1. i < scan \/ i = scan
    BY <1>1
  <2> QED
    BY <1>7, <2>1 DEF PairSkip, AtIdle, Running, WalkOK
<1>8. CASE PairBind
  <2> DEFINE r == appList[scan]
  <2>1. PICK j \in First(WaitPending) :
          tun' = [[tun EXCEPT ![waitList[j]] = LetGo(@, "tmptun_is_free")]
                    EXCEPT ![r] = [@ EXCEPT !.status = "tunn_is_run", !.remote = tun[waitList[j]].remote]]
    BY <1>8 DEF PairBind
  <2> DEFINE w == waitList[j]
             k == tun[w].remote
             t1 == [tun EXCEPT ![w] = LetGo(tun[w], "tmptun_is_free")]
             u == [t1[r] EXCEPT !.status = "tunn_is_run", !.remote = k]
  <2>2. j \in DOMAIN waitList /\ scan \in DOMAIN appList
    <3>1. j \in DOMAIN waitList
      BY FirstIn DEF WaitPending
    <3>2. LoopOK
      BY DEF IInv
    <3> QED
      BY <1>8, <3>1, <3>2, BindAt
  <2>3. r \in Tunnels /\ w \in Tunnels /\ tun \in [Tunnels -> Tunnel]
    BY <1>1, <2>2 DEF IInv, HeapInv
  <2>4. t1 \in [Tunnels -> Tunnel] /\ t1[w].status = "tmptun_is_free"
        /\ \A q \in Tunnels : q # w => t1[q] = tun[q]
    <3>1. LetGo(tun[w], "tmptun_is_free") \in Tunnel
      BY <2>3, LetGoType DEF WaitStatus
    <3>2. LetGo(tun[w], "tmptun_is_free").status = "tmptun_is_free"
      BY <2>3 DEF LetGo, Tunnel
    <3> QED
      BY <2>3, <3>1, <3>2
  <2>5. tun' = [t1 EXCEPT ![r] = u]
    BY <2>1
  <2> HIDE DEF t1, w, k, r
  <2>6. u.status = "tunn_is_run"
    BY <2>3, <2>4 DEF Tunnel
  <2> HIDE DEF u
  <2>7. ASSUME NEW q \in Tunnels
        PROVE  tun'[q].status = IF q = r THEN "tunn_is_run" ELSE IF q = w THEN "tmptun_is_free" ELSE tun[q].status
    BY <2>3, <2>4, <2>5, <2>6
  <2> SUFFICES ASSUME NEW i \in DOMAIN appList, i < scan + 1
               PROVE  tun'[appList[i]].status # "tunn_is_idle"
    BY <1>8 DEF PairBind, Running, WalkOK
  <2>8. (i < scan \/ i = scan) /\ appList[i] \in Tunnels
    BY <1>1
  <2>9. i < scan => tun[appList[i]].status # "tunn_is_idle"
    BY <1>8 DEF PairBind, Running, WalkOK
  <2> QED
    BY <2>7, <2>8, <2>9 DEF r
<1>9. CASE (\E k \in Socks : PeerSend(k) \/ PeerFin(k) \/ PeerReset(k)) \/ UNCHANGED vars
  BY <1>9 DEF PeerSend, PeerFin, PeerReset, Peer, vars, WalkOK
<1> QED
  BY <1>4, <1>5, <1>6, <1>7, <1>8, <1>9 DEF Next, Loop

LEMMA NextPaired ==
    ASSUME IInv, WaitEntriesOwnRemote, WalkOK, NoIdleWhilePending, [Next]_vars
    PROVE  NoIdleWhilePending'
<1>1. appList \in Seq(Tunnels) /\ scan \in Nat \ {0}
  BY DEF IInv, LoopOK
<1>2. CASE pc' # "epoll_wait"
  BY <1>2 DEF NoIdleWhilePending
<1>3. CASE PairingDone
  <2> SUFFICES ASSUME NEW i \in DOMAIN appList, NEW j \in DOMAIN waitList,
                      tun[appList[i]].status = "tunn_is_idle", IsPending(tun[waitList[j]])
               PROVE  FALSE
    BY <1>3 DEF PairingDone, NoIdleWhilePending, IsPending
  <2>1. j \in WaitPending
    BY DEF WaitPending
  <2>2. scan > Len(appList)
    BY <1>3, <2>1 DEF PairingDone
  <2>3. i < scan
    BY <1>1, <2>2
  <2> QED
    BY <1>3, <2>3 DEF PairingDone, Running, WalkOK
<1>4. ASSUME NEW k \in Socks, PeerSend(k) \/ PeerFin(k) \/ PeerReset(k)
      PROVE  NoIdleWhilePending'
  <2>1. UNCHANGED <<tun, appList, waitList, pc, fault>>
    BY <1>4 DEF PeerSend, PeerFin, PeerReset, Peer
  <2>2. sock \in [Socks -> Sock] /\ sock[k] \in Sock
    BY DEF IInv, HeapInv
  <2>3. \A j \in Socks : sock'[j].rbuf = sock[j].rbuf
    <3>1. /\ \A j \in Socks : j # k => sock'[j] = sock[j]
          /\ \/ sock'[k] = [sock[k] EXCEPT !.rx = TRUE]
             \/ sock'[k] = [sock[k] EXCEPT !.peer = "fin"]
             \/ sock'[k] = [sock[k] EXCEPT !.peer = "rst"]
      BY <1>4, <2>2 DEF PeerSend, PeerFin, PeerReset
    <3>2. sock'[k].rbuf = sock[k].rbuf
      BY <2>2, <3>1 DEF Sock
    <3> QED
      BY <3>1, <3>2
  <2>4. ASSUME NEW j \in DOMAIN waitList, tun[waitList[j]].status = "tmptun_is_alive"
        PROVE  sock'[tun[waitList[j]].remote].rbuf = sock[tun[waitList[j]].remote].rbuf
    <3>1. waitList[j] \in Tunnels /\ tun[waitList[j]] \in Tunnel
      BY DEF IInv, ListsOK, HeapInv
    <3>2. tun[waitList[j]].remote \in Socks
      BY <2>4, <3>1 DEF WaitEntriesOwnRemote, Tunnel
    <3> QED
      BY <2>3, <3>2
  <2> QED
    BY <2>1, <2>4 DEF NoIdleWhilePending
<1>5. CASE UNCHANGED vars
  BY <1>5 DEF vars, NoIdleWhilePending
<1>6. ASSUME NEW src, NEW ev, Consume(src, ev)
      PROVE  pc' # "epoll_wait"
  BY <1>6 DEF Consume
<1>7. AcceptPriv \/ AcceptRemote \/ (\E k \in Socks : ReadHandle(k) \/ WriteHandle(k) \/ StaleEvent(k))
        => pc' # "epoll_wait"
  BY <1>6 DEF AcceptPriv, AcceptRemote, ReadHandle, WriteHandle, StaleEvent
<1>8. EpollWait \/ PairSkip \/ PairBind \/ (\E l \in Listeners : AcceptFails(l)) => pc' # "epoll_wait"
  BY DEF EpollWait, PairSkip, PairBind, AcceptFails, Running
<1> QED
  BY <1>2, <1>3, <1>4, <1>5, <1>7, <1>8 DEF Next, Loop

\* One walk of waitLinePairing is enough: when the loop waits again, no tunnel is idle while
\* a client is parked that it could serve.
THEOREM PairedInOneWalk == Spec => []NoIdleWhilePending
<1>1. Init => IInv /\ WalkOK /\ NoIdleWhilePending
  <2>1. ASSUME Init
        PROVE  WalkOK /\ NoIdleWhilePending
    BY <2>1 DEF Init, WalkOK, NoIdleWhilePending
  <2> QED
    BY <2>1, InitIInv
<1>2. IInv /\ WaitEntriesOwnRemote /\ WalkOK /\ NoIdleWhilePending /\ [Next]_vars => IInv' /\ WalkOK' /\ NoIdleWhilePending'
  BY NextIInv, NextWalk, NextPaired
<1> QED
  BY <1>1, <1>2, EntriesOwnRemote, PTL DEF Spec

----------------------------------------------------------------------------
(* What a handler frees.                                                   *)

\* A handler run for an event of k frees k, or a client together with k, its private end.
FreedWith(k) ==
    \A j \in Socks : sock[j].alloc /\ ~sock'[j].alloc =>
      j = k \/ (~sock[j].ispriv /\ tun[sock[j].tunnel].priv = k /\ ~sock'[k].alloc)

LEMMA OwnersFree ==
    ASSUME NEW k, SameOwners(sock')
    PROVE  FreedWith(k)
  BY DEF FreedWith, SameOwners

LEMMA CrashFrees ==
    ASSUME NEW k, NEW f, Crash(f)
    PROVE  FreedWith(k)
  BY DEF FreedWith, Crash

LEMMA ForceFrees ==
    ASSUME NEW k, NEW s, SameOwners(s), sock' = Released(s, {k})
    PROVE  FreedWith(k)
  BY DEF FreedWith, Released, SameOwners

\* Only the private end takes another socket with it: the remote one of its tunnel.
LEMMA CloseFrees ==
    ASSUME HeapInv, NEW k \in Socks, sock[k].alloc, NEW s, SameOwners(s), CloseSock(k, s)
    PROVE  FreedWith(k)
<1> DEFINE r == sock[k].tunnel
           t == tun[r]
           q == ForcedT(t, k, TRUE).remote
<1>1. r \in Tunnels /\ s[k].tunnel = r /\ t \in Tunnel
  BY DEF HeapInv, SockInTunnel, SameOwners
<1>2. CASE k = t.priv /\ sock' = Released(s, {k, q})
  <2>1. q \in {NULL, t.remote}
    BY <1>1, ForcedType
  <2> HIDE DEF q
  <2>2. SUFFICES ASSUME NEW j \in Socks, sock[j].alloc, ~sock'[j].alloc, j # k
                 PROVE  ~sock[j].ispriv /\ t = tun[sock[j].tunnel] /\ ~sock'[k].alloc
    BY <1>2 DEF FreedWith
  <2>3. j = q
    BY <1>2, <2>2 DEF Released, SameOwners
  <2>4. j = t.remote
    BY <2>1, <2>3
  <2>5. sock[j].tunnel = r /\ (sock[j].ispriv <=> t.priv = j)
    BY <1>1, <2>4, OneOwner
  <2>6. ~sock'[k].alloc
    BY <1>2 DEF Released, NoSock
  <2> QED
    BY <1>2, <2>2, <2>5, <2>6
<1>3. CASE sock' = Released(s, {k}) \/ sock' = s
  BY <1>3, ForceFrees, OwnersFree
<1>4. \/ k = t.priv /\ sock' = Released(s, {k, q})
      \/ sock' = Released(s, {k}) \/ sock' = s
  BY <1>1 DEF CloseSock
<1> QED
  BY <1>2, <1>3, <1>4

LEMMA ShutFrees ==
    ASSUME HeapInv, NEW k \in Socks, sock[k].alloc, NEW s, SameOwners(s), SockShutdown(k, s)
    PROVE  FreedWith(k)
<1>1. CASE CloseSock(k, [s EXCEPT ![k] = [@ EXCEPT !.half = TRUE]])
  <2> DEFINE b == [s[k] EXCEPT !.half = TRUE]
             c == [s EXCEPT ![k] = b]
  <2>1. s[k] \in Sock
    BY DEF SameOwners
  <2>2. b \in Sock /\ b.alloc = s[k].alloc /\ b.ispriv = s[k].ispriv /\ b.tunnel = s[k].tunnel
    BY <2>1 DEF Sock
  <2>3. CloseSock(k, c)
    BY <1>1
  <2> HIDE DEF b
  <2>4. SameOwners(c)
    BY <2>2, PointOwners
  <2> HIDE DEF c
  <2> QED
    BY <2>3, <2>4, CloseFrees
<1>2. CASE sock' = [s EXCEPT ![k] = [@ EXCEPT !.half = TRUE, !.wbuf = TRUE, !.mask = {"out"}]]
  BY <1>2, HalfOwners, OwnersFree
<1> QED
  BY <1>1, <1>2, CrashFrees DEF SockShutdown

LEMMA HandleFrees ==
    ASSUME HeapInv, NEW k \in Socks, sock[k].alloc, NEW s, SameOwners(s), StateHandle(k, s)
    PROVE  FreedWith(k)
<1> DEFINE r == sock[k].tunnel
           p == tun[r].priv
           q == tun[r].remote
<1>1. /\ s[k].tunnel = r /\ p \in Socks \cup {NULL} /\ q \in Socks \cup {NULL}
  BY DEF SameOwners, HeapInv, SockInTunnel, Tunnel
<1>2. CASE Handshake(k, s)
  <2>1. \/ Crash("null")
        \/ /\ p # NULL
           /\ \E rest \in BOOLEAN :
                \/ sock' = [s EXCEPT ![p] = [@ EXCEPT !.rbuf = rest]]
                \/ sock' = Released([s EXCEPT ![p] = [@ EXCEPT !.rbuf = rest]], {k})
                \/ sock' = [s EXCEPT ![p] = [@ EXCEPT !.rbuf = rest, !.wbuf = TRUE, !.mask = {"in", "out"}]]
    BY <1>1, <1>2 DEF Handshake, SockForceShutdown
  <2> HIDE DEF p
  <2>2. ASSUME p # NULL, NEW rest \in BOOLEAN, sock' = [s EXCEPT ![p] = [@ EXCEPT !.rbuf = rest]]
        PROVE  FreedWith(k)
    BY <1>1, <2>2, RbufOwners, OwnersFree
  <2>3. ASSUME p # NULL, NEW rest \in BOOLEAN,
               sock' = [s EXCEPT ![p] = [@ EXCEPT !.rbuf = rest, !.wbuf = TRUE, !.mask = {"in", "out"}]]
        PROVE  FreedWith(k)
    BY <1>1, <2>3, ReplyOwners, OwnersFree
  <2>4. ASSUME p # NULL, NEW rest \in BOOLEAN,
               sock' = Released([s EXCEPT ![p] = [@ EXCEPT !.rbuf = rest]], {k})
        PROVE  FreedWith(k)
    <3>1. SameOwners([s EXCEPT ![p] = [@ EXCEPT !.rbuf = rest]])
      BY <1>1, <2>4, RbufOwners
    <3> DEFINE c == [s EXCEPT ![p] = [@ EXCEPT !.rbuf = rest]]
    <3>2. SameOwners(c) /\ sock' = Released(c, {k})
      BY <2>4, <3>1
    <3> HIDE DEF c
    <3> QED
      BY <3>2, ForceFrees
  <2> QED
    BY <2>1, <2>2, <2>3, <2>4, CrashFrees
<1>3. CASE TunnelConnected(k, s)
  <2>1. SockShutdown(k, s) => FreedWith(k)
    BY ShutFrees
  <2>2. \/ Crash("null") \/ SockShutdown(k, s) \/ sock' = s
        \/ p # NULL /\ q # NULL /\ (sock' = Relay(s, p, q) \/ sock' = Relay(s, q, p))
    BY <1>1, <1>3 DEF TunnelConnected, TunnelShutdown
  <2> HIDE DEF p, q
  <2> QED
    BY <1>1, <2>1, <2>2, RelayOwners, OwnersFree, CrashFrees
<1>4. CASE TunnelWaitting(k, s)
  <2>1. \/ sock' = s
        \/ q # NULL /\ sock' = [s EXCEPT ![q] = [@ EXCEPT !.wbuf = TRUE, !.rbuf = FALSE, !.mask = {"in", "out"}]]
    BY <1>1, <1>4 DEF TunnelWaitting
  <2> HIDE DEF q
  <2>2. CASE sock' = s
    BY <2>2, OwnersFree
  <2>3. CASE q # NULL /\ sock' = [s EXCEPT ![q] = [@ EXCEPT !.wbuf = TRUE, !.rbuf = FALSE, !.mask = {"in", "out"}]]
    <3>1. q \in Socks
      BY <1>1, <2>3
    <3>2. SameOwners([s EXCEPT ![q] = [@ EXCEPT !.wbuf = TRUE, !.rbuf = FALSE, !.mask = {"in", "out"}]])
      BY <3>1, PageOwners
    <3> QED
      BY <2>3, <3>2, OwnersFree
  <2> QED
    BY <2>1, <2>2, <2>3
<1> QED
  BY <1>2, <1>3, <1>4 DEF StateHandle

LEMMA AfterWriteFrees ==
    ASSUME NEW k \in Socks, NEW s, SameOwners(s), AfterWrite(k, s)
    PROVE  FreedWith(k)
<1>1. ASSUME NEW m \in SUBSET {"in", "out"}, sock' = [s EXCEPT ![k] = [@ EXCEPT !.mask = m]]
      PROVE  FreedWith(k)
  BY <1>1, MaskOwners, OwnersFree
<1>2. ASSUME NEW w, sock' = [s EXCEPT ![k] = [@ EXCEPT !.mask = {"in"}, !.tunnel = w]]
      PROVE  FreedWith(k)
  <2>1. s \in [Socks -> Sock] /\ s[k] \in Sock
    BY DEF SameOwners
  <2>2. sock'[k] = [s[k] EXCEPT !.mask = {"in"}, !.tunnel = w] /\ \A j \in Socks : j # k => sock'[j] = s[j]
    BY <1>2, <2>1
  <2>3. sock'[k].alloc = s[k].alloc
    BY <2>1, <2>2 DEF Sock
  <2> QED
    BY <2>2, <2>3 DEF FreedWith, SameOwners
<1>3. \/ Crash("null")
      \/ \E m \in SUBSET {"in", "out"} : sock' = [s EXCEPT ![k] = [@ EXCEPT !.mask = m]]
      \/ \E w : sock' = [s EXCEPT ![k] = [@ EXCEPT !.mask = {"in"}, !.tunnel = w]]
  <2>1. CASE TunnelSwitch(k, s)
    <3>1. \/ Crash("null")
          \/ sock' = [s EXCEPT ![k] = [@ EXCEPT !.mask = {"in", "out"}]]
          \/ sock' = [s EXCEPT ![k] = [@ EXCEPT !.mask = {"in"}]]
          \/ \E w : sock' = [s EXCEPT ![k] = [@ EXCEPT !.mask = {"in"}, !.tunnel = w]]
      BY <2>1 DEF TunnelSwitch
    <3> QED
      BY <3>1
  <2>2. CASE sock' = [s EXCEPT ![k] = [@ EXCEPT !.mask = IF s[k].wbuf THEN {"in", "out"} ELSE {"in"}]]
    BY <2>2
  <2> QED
    BY <2>1, <2>2 DEF AfterWrite
<1> QED
  BY <1>1, <1>2, <1>3, CrashFrees

\* epoll reports a readable socket as readable, and any other as writable: one event each.
OneEvent == \A k \in Socks : ~([src |-> k, ev |-> "in"] \in batch /\ [src |-> k, ev |-> "out"] \in batch)

LEMMA NextOneEvent ==
    ASSUME OneEvent, [Next]_vars
    PROVE  OneEvent'
<1>1. CASE batch' \subseteq batch
  BY <1>1 DEF OneEvent
<1>2. CASE EpollWait
  <2>1. PICK more \in SUBSET MayReport :
          batch' \in IF Cardinality(MustReport \cup more) <= MaxEvents THEN {MustReport \cup more}
                     ELSE kSubset(MaxEvents, MustReport \cup more)
    BY <1>2 DEF EpollWait
  <2>2. batch' \subseteq MustReport \cup MayReport
    BY <2>1 DEF kSubset
  <2>3. \A k \in Socks : /\ [src |-> k, ev |-> "in"] \in MustReport \cup MayReport => InReady(k)
                         /\ [src |-> k, ev |-> "out"] \in MustReport \cup MayReport => OutReady(k)
    BY ListenersAssumption DEF MustReport, MayReport, Listeners
  <2> QED
    BY <2>2, <2>3 DEF OneEvent, OutReady
<1>3. EpollWait \/ batch' \subseteq batch
  BY DEF Next, Loop, vars, AcceptPriv, AcceptRemote, AcceptFails, ReadHandle, WriteHandle, StaleEvent,
         Consume, PairSkip, PairBind, PairingDone, PeerSend, PeerFin, PeerReset, Peer
<1> QED
  BY <1>1, <1>2, <1>3

\* The socket a handler runs for has no further event in the batch: what is freed under a
\* pending event is a client that goes with its private end.
LEMMA HandlerStale ==
    ASSUME IInv, OneEvent, NEW k \in Socks, ReadHandle(k) \/ WriteHandle(k)
    PROVE  \A j \in Socks :
             LET p == tun[sock[j].tunnel].priv
             IN  (\E e \in batch' : e.src = j) /\ sock[j].alloc /\ ~sock'[j].alloc =>
                   ~sock[j].ispriv /\ p # NULL /\ sock[p].alloc /\ ~sock'[p].alloc
<1>1. HeapInv /\ sock[k].alloc /\ SameOwners(sock) /\ batch \subseteq Event
  BY SelfOwners DEF IInv, LoopOK, ReadHandle, WriteHandle
<1>2. FreedWith(k)
  <2>1. CASE ReadHandle(k)
    <3> DEFINE s == [sock EXCEPT ![k] = [@ EXCEPT !.rx = FALSE, !.rbuf = TRUE]]
    <3>1. SameOwners(s)
      BY <1>1, ReadOwners
    <3>2. StateHandle(k, s) \/ StateHandle(k, sock) \/ SockShutdown(k, sock)
      BY <2>1 DEF ReadHandle
    <3> HIDE DEF s
    <3> QED
      BY <1>1, <3>1, <3>2, HandleFrees, ShutFrees
  <2>2. CASE WriteHandle(k)
    <3>1. ASSUME NEW rest \in BOOLEAN, AfterWrite(k, [sock EXCEPT ![k] = [@ EXCEPT !.wbuf = rest]])
          PROVE  FreedWith(k)
      BY <1>1, <3>1, WbufOwners, AfterWriteFrees
    <3>2. CASE SockForceShutdown(k, sock)
      BY <1>1, <3>2, ForceFrees DEF SockForceShutdown
    <3>3. CASE AfterWrite(k, sock)
      BY <1>1, <3>3, AfterWriteFrees
    <3> QED
      BY <2>2, <3>1, <3>2, <3>3 DEF WriteHandle
  <2> QED
    BY <2>1, <2>2
<1>3. ~\E e \in batch' : e.src = k
  <2>1. PICK ev \in {"in", "out"} : Consume(k, ev)
    BY DEF ReadHandle, WriteHandle
  <2>2. \A e \in Event : e.src = k => e = [src |-> k, ev |-> "in"] \/ e = [src |-> k, ev |-> "out"]
    BY DEF Event
  <2>3. batch' = batch \ {[src |-> k, ev |-> ev]} /\ [src |-> k, ev |-> ev] \in batch
    BY <2>1 DEF Consume
  <2> QED
    BY <1>1, <2>2, <2>3 DEF OneEvent
<1> QED
  BY <1>1, <1>2, <1>3 DEF FreedWith

\* Nothing but a handler of a socket's event frees sockets.
LEMMA OthersFreeNone ==
    ASSUME IInv, [Next]_vars, \A k \in Socks : ~ReadHandle(k) /\ ~WriteHandle(k)
    PROVE  \A j \in Socks : sock[j].alloc => sock'[j].alloc
<1>1. sock \in [Socks -> Sock]
  BY DEF IInv, HeapInv
<1>2. ASSUME NEW k \in Socks, NEW b, b.alloc, sock' = [sock EXCEPT ![k] = b]
      PROVE  \A j \in Socks : sock[j].alloc => sock'[j].alloc
  BY <1>1, <1>2
<1>3. CASE AcceptPriv \/ AcceptRemote
  <2>1. \/ sock' = sock
        \/ \E k \in Socks : \E r, ispriv : sock' = [sock EXCEPT ![k] = NewSock(r, ispriv)]
    BY <1>3 DEF AcceptPriv, AcceptRemote, BindRemote, ParkRemote, Crash
  <2>2. \A r, ispriv : NewSock(r, ispriv).alloc
    BY DEF NewSock, NoSock
  <2> QED
    BY <1>2, <2>1, <2>2
<1>4. CASE PairBind
  <2>1. PICK i \in First(WaitPending) :
          LET r == appList[scan]
              k == tun[waitList[i]].remote
              p == tun[r].priv
          IN  sock' = IF p # NULL /\ sock[k].rbuf
                      THEN [Relay(sock, k, p) EXCEPT ![k] = [@ EXCEPT !.tunnel = r]]
                      ELSE [sock EXCEPT ![k] = [@ EXCEPT !.tunnel = r]]
    BY <1>4 DEF PairBind
  <2> DEFINE r == appList[scan]
             k == tun[waitList[i]].remote
             p == tun[r].priv
             s == IF p # NULL /\ sock[k].rbuf THEN Relay(sock, k, p) ELSE sock
  <2>2. r \in Tunnels /\ p \in Socks \cup {NULL}
    <3>1. scan \in DOMAIN appList
      BY <1>4, BindAt DEF IInv
    <3>2. r \in Tunnels
      BY <3>1 DEF IInv, LoopOK
    <3> QED
      BY <3>2 DEF IInv, HeapInv, Tunnel
  <2>3. sock' = [s EXCEPT ![k] = [s[k] EXCEPT !.tunnel = r]]
    BY <2>1
  <2> HIDE DEF p, r, k
  <2>4. SameOwners(s)
    BY <2>2, SelfOwners, RelayOwners DEF IInv
  <2> HIDE DEF s
  <2>5. s \in [Socks -> Sock] /\ \A j \in Socks : s[j].alloc = sock[j].alloc
    BY <2>4 DEF SameOwners
  <2>6. \A j \in Socks : sock'[j].alloc = s[j].alloc
    <3>1. \A j \in Socks : sock'[j] = s[j] \/ (j = k /\ sock'[j] = [s[j] EXCEPT !.tunnel = r])
      BY <2>3, <2>5
    <3>2. \A j \in Socks : s[j] \in Sock
      BY <2>5
    <3>3. \A x \in Sock : [x EXCEPT !.tunnel = r].alloc = x.alloc
      BY DEF Sock
    <3> QED
      BY <3>1, <3>2, <3>3
  <2> QED
    BY <2>5, <2>6
<1>5. ASSUME NEW k \in Socks, PeerSend(k) \/ PeerFin(k) \/ PeerReset(k)
      PROVE  \A j \in Socks : sock[j].alloc => sock'[j].alloc
  <2>1. sock[k] \in Sock /\ sock[k].alloc
    BY <1>1, <1>5 DEF PeerSend, PeerFin, PeerReset, Peer
  <2>2. \/ sock' = [sock EXCEPT ![k] = [sock[k] EXCEPT !.rx = TRUE]]
        \/ sock' = [sock EXCEPT ![k] = [sock[k] EXCEPT !.peer = "fin"]]
        \/ sock' = [sock EXCEPT ![k] = [sock[k] EXCEPT !.peer = "rst"]]
    BY <1>5 DEF PeerSend, PeerFin, PeerReset
  <2>3. /\ [sock[k] EXCEPT !.rx = TRUE].alloc /\ [sock[k] EXCEPT !.peer = "fin"].alloc
        /\ [sock[k] EXCEPT !.peer = "rst"].alloc
    BY <2>1 DEF Sock
  <2> QED
    BY <1>2, <2>2, <2>3
<1>6. EpollWait \/ PairSkip \/ PairingDone \/ (\E l \in Listeners : AcceptFails(l))
        \/ (\E k \in Socks : StaleEvent(k)) \/ UNCHANGED vars => sock' = sock
  BY DEF EpollWait, PairSkip, PairingDone, AcceptFails, StaleEvent, Crash, vars
<1> QED
  BY <1>3, <1>4, <1>5, <1>6 DEF Next, Loop

\* An event dispatched to freed memory was a client's, freed with the private end of its
\* tunnel earlier in the batch; no private socket is ever freed under a pending event.
THEOREM StaleIsClient == Spec => StaleOnlyClient
<1>1. Init => OneEvent
  BY DEF Init, OneEvent
<1>2. OneEvent /\ [Next]_vars => OneEvent'
  BY NextOneEvent
<1>3. IInv /\ OneEvent /\ [Next]_vars =>
        [\A k \in Socks :
           LET p == tun[sock[k].tunnel].priv
           IN  (\E e \in batch' : e.src = k) /\ sock[k].alloc /\ ~sock'[k].alloc =>
                 ~sock[k].ispriv /\ p # NULL /\ sock[p].alloc /\ ~sock'[p].alloc]_vars
  BY HandlerStale, OthersFreeNone
<1>4. Init => IInv
  BY InitIInv
<1>5. IInv /\ [Next]_vars => IInv'
  BY NextIInv
<1> QED
  BY <1>1, <1>2, <1>3, <1>4, <1>5, PTL DEF Spec, StaleOnlyClient


----------------------------------------------------------------------------
(* What a handler begins to close.                                         *)

\* Nothing is freed or half-closed from sock to s.
SameHalf(s) == \A j \in Socks : s[j].alloc = sock[j].alloc /\ s[j].half = sock[j].half

AllCaused == \A j \in Socks : BeginsClosing(j) => CloseCause(j)

LEMMA SameCaused ==
    ASSUME SameHalf(sock')
    PROVE  AllCaused
  BY DEF AllCaused, SameHalf, BeginsClosing

LEMMA PointHalf ==
    ASSUME NEW s \in [Socks -> Sock], SameHalf(s), NEW k \in Socks, NEW b,
           b.alloc = s[k].alloc, b.half = s[k].half
    PROVE  SameHalf([s EXCEPT ![k] = b])
  BY DEF SameHalf

LEMMA RelayHalf ==
    ASSUME NEW s, SameOwners(s), SameHalf(s), NEW from \in Socks, NEW to \in Socks, from # to
    PROVE  SameHalf(Relay(s, from, to))
<1> DEFINE b == [s[to] EXCEPT !.wbuf = s[to].wbuf \/ s[from].rbuf, !.mask = {"in", "out"}]
           c == [s[from] EXCEPT !.rbuf = FALSE]
           s1 == [s EXCEPT ![to] = b]
<1>1. s \in [Socks -> Sock] /\ s[from] \in Sock /\ s[to] \in Sock
  BY DEF SameOwners
<1>2. b.alloc = s[to].alloc /\ b.half = s[to].half /\ c.alloc = s[from].alloc /\ c.half = s[from].half
  BY <1>1 DEF Sock
<1>3. Relay(s, from, to) = [s1 EXCEPT ![from] = c]
  BY <1>1 DEF Relay
<1> HIDE DEF b, c
<1>4. /\ Relay(s, from, to)[from] = c /\ Relay(s, from, to)[to] = b
      /\ \A j \in Socks : j \notin {from, to} => Relay(s, from, to)[j] = s[j]
  BY <1>1, <1>3
<1> QED
  BY <1>2, <1>4 DEF SameHalf

\* Besides k itself, a shutdown of k closes at most a client that goes with it.
LEMMA ShutCaused ==
    ASSUME HeapInv, NEW k \in Socks, sock[k].alloc, NEW s, SameOwners(s), SameHalf(s),
           SockShutdown(k, s)
    PROVE  \A j \in Socks : j # k /\ BeginsClosing(j) => CloseCause(j)
<1>1. s \in [Socks -> Sock] /\ FreedWith(k)
  BY ShutFrees DEF SameOwners
<1>2. ASSUME NEW j \in Socks, BeginsClosing(j), j # k
      PROVE  CloseCause(j)
  <2>1. CASE ~sock'[j].alloc
    <3>1. ~sock[j].ispriv /\ tun[sock[j].tunnel].priv = k /\ ~sock'[k].alloc
      BY <1>1, <1>2, <2>1 DEF FreedWith, BeginsClosing
    <3> QED
      BY <3>1 DEF CloseCause
  <2>2. CASE sock'[j].alloc
    <3>1. s[j].half = sock[j].half
      BY DEF SameHalf
    <3> DEFINE c == [s EXCEPT ![k] = [@ EXCEPT !.half = TRUE]]
    <3>2. \/ Crash("null")
          \/ sock' = [s EXCEPT ![k] = [@ EXCEPT !.half = TRUE, !.wbuf = TRUE, !.mask = {"out"}]]
          \/ sock' = c \/ \E ks : sock' = Released(c, ks)
      BY DEF SockShutdown, CloseSock
    <3>3. c[j] = s[j]
      BY <1>1, <1>2
    <3> HIDE DEF c
    <3>4. sock'[j] \in {sock[j], s[j], NoSock}
      BY <1>1, <1>2, <3>2, <3>3 DEF Crash, Released
    <3>5. sock'[j] # NoSock
      BY <2>2 DEF NoSock
    <3> QED
      BY <1>2, <2>2, <3>1, <3>4, <3>5 DEF BeginsClosing
  <2> QED
    BY <1>2, <2>1, <2>2 DEF BeginsClosing
<1> QED
  BY <1>2

LEMMA HandleCaused ==
    ASSUME HeapInv, NEW k \in Socks, sock[k].alloc, NEW s, SameOwners(s), SameHalf(s),
           StateHandle(k, s)
    PROVE  AllCaused
<1> DEFINE t == tun[sock[k].tunnel]
           p == t.priv
           q == t.remote
<1>1. /\ s[k].tunnel = sock[k].tunnel /\ s[k].ispriv = sock[k].ispriv /\ s \in [Socks -> Sock]
      /\ p \in Socks \cup {NULL} /\ q \in Socks \cup {NULL}
  BY DEF SameOwners, HeapInv, SockInTunnel, Tunnel
<1>2. p # NULL /\ q # NULL => p # q
  BY <1>1 DEF HeapInv, SockInTunnel, NoDanglingSock
<1>3. CASE sock' = s \/ Crash("null")
  BY <1>3, SameCaused DEF Crash, SameHalf
<1>4. ASSUME t.state \in HandshakeStates, Handshake(k, s)
      PROVE  AllCaused
  <2>1. ASSUME p # NULL, NEW rest \in BOOLEAN, NEW c,
               \/ c = [s EXCEPT ![p] = [@ EXCEPT !.rbuf = rest]]
               \/ c = [s EXCEPT ![p] = [@ EXCEPT !.rbuf = rest, !.wbuf = TRUE, !.mask = {"in", "out"}]]
        PROVE  SameHalf(c)
    <3> HIDE DEF p
    <3>1. s[p] \in Sock /\ p \in Socks
      BY <1>1, <2>1
    <3>2. PICK b : /\ c = [s EXCEPT ![p] = b]
                   /\ b \in {[s[p] EXCEPT !.rbuf = rest],
                             [s[p] EXCEPT !.rbuf = rest, !.wbuf = TRUE, !.mask = {"in", "out"}]}
      BY <2>1
    <3>3. b.alloc = s[p].alloc /\ b.half = s[p].half
      BY <3>1, <3>2 DEF Sock
    <3> QED
      BY <1>1, <3>1, <3>2, <3>3, PointHalf
  <2>2. ASSUME NEW c, SameHalf(c), sock' = Released(c, {k})
        PROVE  AllCaused
    BY <1>4, <2>2 DEF Released, AllCaused, BeginsClosing, CloseCause, SameHalf
  <2>3. \/ Crash("null")
        \/ /\ p # NULL
           /\ \E rest \in BOOLEAN :
                \/ sock' = [s EXCEPT ![p] = [@ EXCEPT !.rbuf = rest]]
                \/ sock' = Released([s EXCEPT ![p] = [@ EXCEPT !.rbuf = rest]], {k})
                \/ sock' = [s EXCEPT ![p] = [@ EXCEPT !.rbuf = rest, !.wbuf = TRUE, !.mask = {"in", "out"}]]
    BY <1>1, <1>4 DEF Handshake, SockForceShutdown
  <2> HIDE DEF p
  <2> QED
    BY <1>3, <2>1, <2>2, <2>3, SameCaused
<1>5. ASSUME t.state = "connected_state", TunnelConnected(k, s)
      PROVE  AllCaused
  <2>1. CASE q = NULL /\ sock[k].ispriv /\ SockShutdown(k, s)
    <3>1. CloseCause(k)
      BY <2>1 DEF CloseCause
    <3> QED
      BY <2>1, <3>1, ShutCaused DEF AllCaused
  <2>2. CASE p = NULL /\ SockShutdown(k, s)
    <3>1. Crash("null")
      BY <1>1, <1>5, <2>2 DEF SockShutdown
    <3> QED
      BY <1>3, <3>1
  <2>3. CASE p # NULL /\ q # NULL /\ (sock' = Relay(s, p, q) \/ sock' = Relay(s, q, p))
    <3>1. p \in Socks /\ q \in Socks /\ p # q
      BY <1>1, <1>2, <2>3
    <3> HIDE DEF p, q
    <3>2. SameHalf(Relay(s, p, q)) /\ SameHalf(Relay(s, q, p))
      BY <3>1, RelayHalf
    <3> QED
      BY <2>3, <3>2, SameCaused
  <2>4. \/ Crash("null") \/ sock' = s
        \/ q = NULL /\ sock[k].ispriv /\ SockShutdown(k, s)
        \/ p = NULL /\ SockShutdown(k, s)
        \/ p # NULL /\ q # NULL /\ (sock' = Relay(s, p, q) \/ sock' = Relay(s, q, p))
    BY <1>1, <1>5 DEF TunnelConnected, TunnelShutdown
  <2> QED
    BY <1>3, <2>1, <2>2, <2>3, <2>4
<1>6. ASSUME TunnelWaitting(k, s)
      PROVE  AllCaused
  <2>1. CASE q # NULL /\ sock' = [s EXCEPT ![q] = [@ EXCEPT !.wbuf = TRUE, !.rbuf = FALSE, !.mask = {"in", "out"}]]
    <3> HIDE DEF q
    <3> DEFINE b == [s[q] EXCEPT !.wbuf = TRUE, !.rbuf = FALSE, !.mask = {"in", "out"}]
    <3>1. s[q] \in Sock /\ q \in Socks
      BY <1>1, <2>1
    <3>2. b.alloc = s[q].alloc /\ b.half = s[q].half
      BY <3>1 DEF Sock
    <3>3. sock' = [s EXCEPT ![q] = b]
      BY <2>1
    <3> HIDE DEF b
    <3> QED
      BY <1>1, <3>1, <3>2, <3>3, PointHalf, SameCaused
  <2>2. \/ sock' = s
        \/ q # NULL /\ sock' = [s EXCEPT ![q] = [@ EXCEPT !.wbuf = TRUE, !.rbuf = FALSE, !.mask = {"in", "out"}]]
    BY <1>1, <1>6 DEF TunnelWaitting
  <2> QED
    BY <1>3, <2>1, <2>2
<1> QED
  BY <1>1, <1>4, <1>5, <1>6 DEF StateHandle

LEMMA AfterWriteCaused ==
    ASSUME NEW k \in Socks, NEW s, SameOwners(s), SameHalf(s), AfterWrite(k, s)
    PROVE  AllCaused
<1>1. s \in [Socks -> Sock] /\ s[k] \in Sock
  BY DEF SameOwners
<1>2. ASSUME NEW b, sock' = [s EXCEPT ![k] = b], b.alloc = s[k].alloc, b.half = s[k].half
      PROVE  AllCaused
  BY <1>1, <1>2, PointHalf, SameCaused
<1>3. ASSUME NEW m, sock' = [s EXCEPT ![k] = [@ EXCEPT !.mask = m]]
      PROVE  AllCaused
  <2> DEFINE b == [s[k] EXCEPT !.mask = m]
  <2>1. b.alloc = s[k].alloc /\ b.half = s[k].half
    BY <1>1 DEF Sock
  <2>2. sock' = [s EXCEPT ![k] = b]
    BY <1>3
  <2> HIDE DEF b
  <2> QED
    BY <1>2, <2>1, <2>2
<1>4. ASSUME NEW w, sock' = [s EXCEPT ![k] = [@ EXCEPT !.mask = {"in"}, !.tunnel = w]]
      PROVE  AllCaused
  <2> DEFINE b == [s[k] EXCEPT !.mask = {"in"}, !.tunnel = w]
  <2>1. b.alloc = s[k].alloc /\ b.half = s[k].half
    BY <1>1 DEF Sock
  <2>2. sock' = [s EXCEPT ![k] = b]
    BY <1>4
  <2> HIDE DEF b
  <2> QED
    BY <1>2, <2>1, <2>2
<1>5. CASE Crash("null")
  BY <1>5, SameCaused DEF Crash, SameHalf
<1>6. \/ Crash("null")
      \/ \E m : sock' = [s EXCEPT ![k] = [@ EXCEPT !.mask = m]]
      \/ \E w : sock' = [s EXCEPT ![k] = [@ EXCEPT !.mask = {"in"}, !.tunnel = w]]
  <2>1. CASE TunnelSwitch(k, s)
    BY <2>1 DEF TunnelSwitch
  <2>2. CASE sock' = [s EXCEPT ![k] = [@ EXCEPT !.mask = IF s[k].wbuf THEN {"in", "out"} ELSE {"in"}]]
    BY <2>2
  <2> QED
    BY <2>1, <2>2 DEF AfterWrite
<1> QED
  BY <1>3, <1>4, <1>5, <1>6

LEMMA ReadCaused ==
    ASSUME IInv, NEW k \in Socks, ReadHandle(k)
    PROVE  \A j \in Socks : sock[j].peer = "open" /\ BeginsClosing(j) => CloseCause(j)
<1> DEFINE s == [sock EXCEPT ![k] = [@ EXCEPT !.rx = FALSE, !.rbuf = TRUE]]
<1>1. HeapInv /\ sock[k].alloc /\ SameOwners(sock) /\ SameOwners(s)
  BY SelfOwners, ReadOwners DEF IInv, ReadHandle
<1>2. sock \in [Socks -> Sock] /\ sock[k] \in Sock /\ SameHalf(sock)
  BY <1>1 DEF HeapInv, SameHalf
<1>3. SameHalf(s)
  <2> DEFINE b == [sock[k] EXCEPT !.rx = FALSE, !.rbuf = TRUE]
  <2>1. b.alloc = sock[k].alloc /\ b.half = sock[k].half
    BY <1>2 DEF Sock
  <2> HIDE DEF b
  <2>2. SameHalf([sock EXCEPT ![k] = b])
    BY <1>2, <2>1, PointHalf
  <2> QED
    BY <2>2 DEF b
<1>4. CASE sock[k].peer # "open" /\ SockShutdown(k, sock)
  BY <1>1, <1>2, <1>4, ShutCaused
<1>5. CASE StateHandle(k, s) \/ StateHandle(k, sock)
  <2> HIDE DEF s
  <2> QED
    BY <1>1, <1>2, <1>3, <1>5, HandleCaused DEF AllCaused
<1> QED
  BY <1>4, <1>5 DEF ReadHandle


LEMMA WroteCaused ==
    ASSUME IInv, NEW k \in Socks, NEW rest \in BOOLEAN,
           AfterWrite(k, [sock EXCEPT ![k] = [@ EXCEPT !.wbuf = rest]])
    PROVE  AllCaused
<1> DEFINE b == [sock[k] EXCEPT !.wbuf = rest]
           s == [sock EXCEPT ![k] = b]
<1>1. HeapInv /\ sock \in [Socks -> Sock] /\ sock[k] \in Sock /\ SameHalf(sock)
  BY DEF IInv, HeapInv, SameHalf
<1>2. b.alloc = sock[k].alloc /\ b.half = sock[k].half
  BY <1>1 DEF Sock
<1>3. SameOwners(s)
  BY <1>1, WbufOwners
<1>4. AfterWrite(k, s)
  OBVIOUS
<1> HIDE DEF b
<1>5. SameHalf(s)
  BY <1>1, <1>2, PointHalf
<1> HIDE DEF s
<1> QED
  BY <1>3, <1>4, <1>5, AfterWriteCaused

LEMMA WriteCaused ==
    ASSUME IInv, NEW k \in Socks, WriteHandle(k)
    PROVE  \A j \in Socks : sock[j].peer = "open" /\ BeginsClosing(j) => CloseCause(j)
<1>1. HeapInv /\ SameOwners(sock) /\ sock \in [Socks -> Sock] /\ sock[k] \in Sock /\ SameHalf(sock)
  BY SelfOwners DEF IInv, HeapInv, SameHalf
<1>2. CASE sock[k].peer = "rst" \/ sock[k].half
  <2>1. CASE SockForceShutdown(k, sock)
    BY <1>1, <1>2, <2>1 DEF SockForceShutdown, Released, BeginsClosing
  <2>2. CASE AfterWrite(k, sock)
    BY <1>1, <2>2, AfterWriteCaused DEF AllCaused
  <2>3. (\E rest \in BOOLEAN : AfterWrite(k, [sock EXCEPT ![k] = [@ EXCEPT !.wbuf = rest]]))
          \/ SockForceShutdown(k, sock) \/ AfterWrite(k, sock)
    BY DEF WriteHandle
  <2> QED
    BY <2>1, <2>2, <2>3, WroteCaused DEF AllCaused
<1>3. CASE ~(sock[k].peer = "rst" \/ sock[k].half)
  <2>1. (\E rest \in BOOLEAN : AfterWrite(k, [sock EXCEPT ![k] = [@ EXCEPT !.wbuf = rest]]))
          \/ AfterWrite(k, sock)
    BY <1>3 DEF WriteHandle
  <2>2. CASE AfterWrite(k, sock)
    BY <1>1, <2>2, AfterWriteCaused DEF AllCaused
  <2> QED
    BY <2>1, <2>2, WroteCaused DEF AllCaused
<1> QED
  BY <1>2, <1>3

\* Accepting, pairing and the peers free and half-close nothing.
LEMMA OthersBeginNone ==
    ASSUME IInv, WaitEntriesOwnRemote, [Next]_vars,
           \A k \in Socks : ~ReadHandle(k) /\ ~WriteHandle(k)
    PROVE  \A j \in Socks : ~BeginsClosing(j)
<1>1. sock \in [Socks -> Sock]
  BY DEF IInv, HeapInv
<1>2. ASSUME \A j \in Socks : sock[j].alloc => sock'[j].alloc /\ sock'[j].half = sock[j].half
      PROVE  \A j \in Socks : ~BeginsClosing(j)
  BY <1>2 DEF BeginsClosing
<1>3. CASE AcceptPriv \/ AcceptRemote
  <2>1. \/ sock' = sock
        \/ \E k \in Socks : \E r, ispriv : ~sock[k].alloc /\ sock' = [sock EXCEPT ![k] = NewSock(r, ispriv)]
    BY <1>3 DEF AcceptPriv, AcceptRemote, BindRemote, ParkRemote, Crash
  <2> QED
    BY <1>1, <1>2, <2>1
<1>4. CASE PairBind
  <2>1. PICK i \in First(WaitPending) :
          LET r == appList[scan]
              k == tun[waitList[i]].remote
              p == tun[r].priv
          IN  sock' = IF p # NULL /\ sock[k].rbuf
                      THEN [Relay(sock, k, p) EXCEPT ![k] = [@ EXCEPT !.tunnel = r]]
                      ELSE [sock EXCEPT ![k] = [@ EXCEPT !.tunnel = r]]
    BY <1>4 DEF PairBind
  <2> DEFINE r == appList[scan]
             w == waitList[i]
             k == tun[w].remote
             p == tun[r].priv
             s == IF p # NULL /\ sock[k].rbuf THEN Relay(sock, k, p) ELSE sock
  <2>2. HeapInv /\ SameOwners(sock) /\ SameHalf(sock)
    BY SelfOwners DEF IInv, SameHalf
  <2>3. r \in Tunnels /\ w \in Tunnels
    <3>1. i \in DOMAIN waitList
      BY FirstIn DEF WaitPending
    <3>2. scan \in DOMAIN appList
      BY <1>4, BindAt DEF IInv
    <3> QED
      BY <3>1, <3>2 DEF IInv, LoopOK, ListsOK
  <2>4. k \in Socks /\ ~sock[k].ispriv
    <3>1. i \in DOMAIN waitList /\ IsPending(tun[w])
      BY FirstIn DEF WaitPending
    <3>2. k # NULL
      BY <3>1 DEF IsPending, WaitEntriesOwnRemote
    <3> QED
      BY <2>2, <2>3, <3>2 DEF HeapInv, Tunnel, NoDanglingSock
  <2>5. p # NULL => p \in Socks /\ sock[p].ispriv
    BY <2>2, <2>3 DEF HeapInv, Tunnel, NoDanglingSock
  <2>6. sock' = [s EXCEPT ![k] = [s[k] EXCEPT !.tunnel = r]]
    BY <2>1
  <2> HIDE DEF p, r, k
  <2>7. SameOwners(s) /\ SameHalf(s)
    BY <2>2, <2>4, <2>5, RelayOwners, RelayHalf
  <2> HIDE DEF s
  <2>8. s[k] \in Sock /\ s \in [Socks -> Sock]
    BY <2>4, <2>7 DEF SameOwners
  <2> DEFINE b == [s[k] EXCEPT !.tunnel = r]
  <2>9. b.alloc = s[k].alloc /\ b.half = s[k].half /\ sock' = [s EXCEPT ![k] = b]
    BY <2>6, <2>8 DEF Sock
  <2> HIDE DEF b
  <2>10. SameHalf(sock')
    BY <2>4, <2>7, <2>8, <2>9, PointHalf
  <2> QED
    BY <1>2, <2>10 DEF SameHalf
<1>5. ASSUME NEW k \in Socks, PeerSend(k) \/ PeerFin(k) \/ PeerReset(k)
      PROVE  \A j \in Socks : ~BeginsClosing(j)
  <2>1. sock[k] \in Sock
    BY <1>1
  <2>2. \/ sock' = [sock EXCEPT ![k] = [sock[k] EXCEPT !.rx = TRUE]]
        \/ sock' = [sock EXCEPT ![k] = [sock[k] EXCEPT !.peer = "fin"]]
        \/ sock' = [sock EXCEPT ![k] = [sock[k] EXCEPT !.peer = "rst"]]
    BY <1>5 DEF PeerSend, PeerFin, PeerReset
  <2>3. \A b \in {[sock[k] EXCEPT !.rx = TRUE], [sock[k] EXCEPT !.peer = "fin"], [sock[k] EXCEPT !.peer = "rst"]} :
          b.alloc = sock[k].alloc /\ b.half = sock[k].half
    BY <2>1 DEF Sock
  <2> QED
    BY <1>1, <1>2, <2>2, <2>3
<1>6. EpollWait \/ PairSkip \/ PairingDone \/ (\E l \in Listeners : AcceptFails(l))
        \/ (\E k \in Socks : StaleEvent(k)) \/ UNCHANGED vars => sock' = sock
  BY DEF EpollWait, PairSkip, PairingDone, AcceptFails, StaleEvent, Crash, vars
<1> QED
  BY <1>2, <1>3, <1>4, <1>5, <1>6 DEF Next, Loop

\* No connection is closed that its peer has not finished or reset, but for a handshake that
\* was refused, a private socket no client is bound to, and a client of a closed private end.
THEOREM ClosedWithCause == Spec => ReleaseHasCause
<1>1. Init => IInv
  BY InitIInv
<1>2. IInv /\ [Next]_vars => IInv'
  BY NextIInv
<1>3. IInv /\ WaitEntriesOwnRemote /\ [Next]_vars =>
        [\A k \in Socks : sock[k].peer = "open" /\ BeginsClosing(k) => CloseCause(k)]_vars
  BY ReadCaused, WriteCaused, OthersBeginNone
<1> QED
  BY <1>1, <1>2, <1>3, EntriesOwnRemote, PTL DEF Spec, ReleaseHasCause
=============================================================================
