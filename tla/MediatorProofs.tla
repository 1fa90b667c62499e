--------------------------- MODULE MediatorProofs ---------------------------
(***************************************************************************)
(* Proofs about Mediator for every number of sockets and wait entries.     *)
(***************************************************************************)
EXTENDS Mediator, FiniteSetTheorems, TLAPS

USE SocksAssumption, WaitAssumption

\* The connection to the server is the private end of tunnel 0 for as long as it is
\* open; a released block is empty.
PrivOK ==
    /\ \A k \in Socks : sock[k].alloc /\ sock[k].ispriv => sock[k].tunnel = 0 /\ tun[0].priv = k
    /\ tun[0].priv # NULL => sock[tun[0].priv].alloc /\ sock[tun[0].priv].ispriv
    /\ \A k \in Socks : ~sock[k].alloc => sock[k] = NoSock

\* Only a wait entry that is listed holds a service socket, and nothing else does but
\* tunnel 0 once it is connected.
EndsOK ==
    /\ \A r \in Tunnels : tun[r].remote # NULL => ~sock[tun[r].remote].ispriv
    /\ tun[0].state # "tunnel_waitting"
    /\ tun[0].remote # NULL => tun[0].state = "connected_state"
    /\ \A w \in Entries : tun[w].priv = NULL /\ (tun[w].remote # NULL => waitList = <<w>>)

\* There is one wait entry at most, and it is free while a service socket is in use.
WaitOK ==
    waitList # <<>> =>
      /\ 1 \in Entries /\ waitList = <<1>>
      /\ tun[1].state = "tunnel_waitting"
      /\ tun[1].status \in {"tmptun_is_alive", "tmptun_is_free"}
      /\ tun[1].remote # NULL => tun[1].status = "tmptun_is_alive"
      /\ tun[0].remote # NULL => tun[1].status = "tmptun_is_free"

\* Every service socket is held by a tunnel, and its own pointer names tunnel 0 or the entry.
Tracked ==
    \A k \in Socks : sock[k].alloc /\ ~sock[k].ispriv =>
      /\ \E r \in Tunnels : tun[r].remote = k
      /\ sock[k].tunnel = 0 => tun[0].remote = k
      /\ sock[k].tunnel # 0 => waitList = <<sock[k].tunnel>>

Heap == /\ tun \in [Tunnels -> Tunnel] /\ sock \in [Socks -> Sock]
        /\ PrivOK /\ EndsOK /\ WaitOK /\ Tracked

\* One event per open socket.
BatchOK == /\ batch \subseteq Event
           /\ \A e \in batch : sock[e.src].alloc
           /\ \A e, f \in batch : e.src = f.src => e = f

LoopOK == replies \in 0..2 /\ fault \in {"none", "null", "freed"}

IInv == Heap /\ BatchOK /\ LoopOK

\* s is sock as far as ownership goes: a handler that has changed buffers and masks only.
SameOwners(s) ==
    /\ s \in [Socks -> Sock]
    /\ \A j \in Socks : /\ s[j].alloc = sock[j].alloc
                        /\ s[j].ispriv = sock[j].ispriv
                        /\ s[j].tunnel = sock[j].tunnel
                        /\ ~s[j].alloc => s[j] = NoSock

LEMMA ZeroTunnelIn == 0 \in Tunnels /\ Entries \subseteq Tunnels /\ 0 \notin Entries
  BY DEF Tunnels, Entries

LEMMA NoSockType == NoSock \in Sock
  BY ZeroTunnelIn DEF NoSock, Sock

LEMMA HeapSame == ASSUME Heap PROVE SameOwners(sock)
  BY DEF Heap, SameOwners, PrivOK

\* At most one tunnel holds a service socket.
LEMMA OneHolder ==
    ASSUME Heap, NEW r1 \in Tunnels, NEW r2 \in Tunnels,
           tun[r1].remote # NULL, tun[r2].remote # NULL
    PROVE  r1 = r2
<1>1. \A w \in Entries : tun[w].remote # NULL => w = 1 /\ waitList = <<1>>
  <2> TAKE w \in Entries
  <2> HAVE tun[w].remote # NULL
  <2>1. waitList = <<w>>
    BY DEF Heap, EndsOK
  <2>2. waitList # <<>> /\ waitList[1] = w
    BY <2>1
  <2>3. waitList = <<1>>
    BY <2>2 DEF Heap, WaitOK
  <2> QED BY <2>2, <2>3
<1>2. \A w \in Entries : tun[w].remote # NULL => tun[0].remote = NULL
  <2> TAKE w \in Entries
  <2> HAVE tun[w].remote # NULL
  <2>1. w = 1 /\ waitList # <<>> /\ tun[1].remote # NULL
    BY <1>1
  <2> QED BY <2>1 DEF Heap, WaitOK
<1>3. \A r \in Tunnels : r = 0 \/ r \in Entries
  BY DEF Tunnels, Entries
<1> QED BY <1>1, <1>2, <1>3

\* Buffers and masks may change freely.
LEMMA KeepKeeps ==
    ASSUME Heap, SameOwners(sock'), UNCHANGED <<tun, waitList>>
    PROVE  Heap'
<1>1. PrivOK'
  BY ZeroTunnelIn DEF Heap, SameOwners, PrivOK, Tunnel
<1>2. EndsOK'
  BY ZeroTunnelIn DEF Heap, SameOwners, EndsOK, Tunnel
<1>3. WaitOK' /\ Tracked'
  BY DEF Heap, SameOwners, WaitOK, Tracked
<1> QED BY <1>1, <1>2, <1>3 DEF Heap, SameOwners

\* So may the state of tunnel 0 during the handshake.
LEMMA StateKeeps ==
    ASSUME Heap, SameOwners(sock'), UNCHANGED waitList,
           NEW st \in {"request_state", "connected_state"}, tun[0].state # "connected_state",
           tun' = [tun EXCEPT ![0] = [@ EXCEPT !.state = st]]
    PROVE  Heap'
<1>1. /\ tun' \in [Tunnels -> Tunnel] /\ tun'[0].state = st
      /\ \A r \in Tunnels : /\ tun'[r].priv = tun[r].priv /\ tun'[r].remote = tun[r].remote
                            /\ tun'[r].status = tun[r].status
                            /\ r # 0 => tun'[r] = tun[r]
  BY ZeroTunnelIn DEF Heap, Tunnel, TunnelState
<1>2. tun[0].remote = NULL
  BY DEF Heap, EndsOK
<1>3. PrivOK'
  BY <1>1, ZeroTunnelIn DEF Heap, SameOwners, PrivOK, Tunnel
<1>4. EndsOK'
  BY <1>1, <1>2, ZeroTunnelIn DEF Heap, SameOwners, EndsOK, Tunnel
<1>5. WaitOK'
  BY <1>1, ZeroTunnelIn DEF Heap, WaitOK
<1>6. Tracked'
  BY <1>1, ZeroTunnelIn DEF Heap, SameOwners, Tracked
<1> QED BY <1>1, <1>3, <1>4, <1>5, <1>6 DEF Heap, SameOwners

\* A socket is released and its tunnel forgets the end on its side.
LEMMA ReleaseKeeps ==
    ASSUME Heap, NEW k \in Socks, sock[k].alloc, NEW s, SameOwners(s), UNCHANGED waitList,
           sock' = [s EXCEPT ![k] = NoSock],
           NEW t \in Tunnel, tun' = [tun EXCEPT ![sock[k].tunnel] = t],
           t.state = tun[sock[k].tunnel].state,
           t.priv = IF sock[k].ispriv THEN NULL ELSE tun[sock[k].tunnel].priv,
           t.remote = IF sock[k].ispriv THEN tun[sock[k].tunnel].remote ELSE NULL,
           sock[k].ispriv \/ t.status \in {tun[sock[k].tunnel].status, "tmptun_is_free"}
                          \/ sock[k].tunnel = 0
    PROVE  Heap'
<1> DEFINE r == sock[k].tunnel
<1>1. r \in Tunnels /\ sock[k].ispriv \in BOOLEAN
  BY DEF Heap, Sock
<1>2. /\ tun' \in [Tunnels -> Tunnel] /\ tun'[r] = t
      /\ \A q \in Tunnels : q # r => tun'[q] = tun[q]
  BY <1>1 DEF Heap
<1>3. /\ sock' \in [Socks -> Sock] /\ sock'[k] = NoSock
      /\ \A j \in Socks \ {k} : sock'[j] = s[j]
  BY NoSockType DEF SameOwners
<1>4. sock[k].ispriv => r = 0 /\ tun[0].priv = k
  BY DEF Heap, PrivOK
<1>5. tun[0].priv = k => sock[k].ispriv
  BY DEF Heap, PrivOK
<1>6. ~NoSock.alloc /\ ~NoSock.ispriv
  BY DEF NoSock
<1>7. \A q \in Tunnels : tun'[q].remote \in {NULL, tun[q].remote} /\ tun'[q].state = tun[q].state
  BY <1>1, <1>2
<1>8. PrivOK'
  <2>1. tun'[0].priv = IF sock[k].ispriv THEN NULL ELSE tun[0].priv
    BY <1>1, <1>2, <1>4, ZeroTunnelIn
  <2>2. tun[0].priv \in Socks \cup {NULL}
    BY ZeroTunnelIn DEF Heap, Tunnel
  <2>3. \A j \in Socks : sock'[j].alloc => j # k /\ sock[j].alloc /\ sock'[j].ispriv = sock[j].ispriv /\ sock'[j].tunnel = sock[j].tunnel
    BY <1>3, <1>6 DEF SameOwners
  <2>4. \A j \in Socks : ~sock'[j].alloc => sock'[j] = NoSock
    BY <1>3 DEF SameOwners
  <2>5. \A j \in Socks \ {k} : sock[j].alloc => sock'[j].alloc /\ sock'[j].ispriv = sock[j].ispriv
    BY <1>3 DEF SameOwners
  <2>6. \A j \in Socks : sock'[j].alloc /\ sock'[j].ispriv => sock'[j].tunnel = 0 /\ tun'[0].priv = j
    <3> TAKE j \in Socks
    <3> HAVE sock'[j].alloc /\ sock'[j].ispriv
    <3>1. j # k /\ sock[j].alloc /\ sock[j].ispriv /\ sock'[j].tunnel = sock[j].tunnel
      BY <2>3
    <3>2. sock[j].tunnel = 0 /\ tun[0].priv = j
      BY <3>1 DEF Heap, PrivOK
    <3> QED BY <3>1, <3>2, <2>1, <1>4
  <2>7. tun'[0].priv # NULL => sock'[tun'[0].priv].alloc /\ sock'[tun'[0].priv].ispriv
    <3> HAVE tun'[0].priv # NULL
    <3>1. ~sock[k].ispriv /\ tun'[0].priv = tun[0].priv /\ tun[0].priv \in Socks \ {k}
      BY <2>1, <2>2, <1>5
    <3>2. sock[tun[0].priv].alloc /\ sock[tun[0].priv].ispriv
      BY <3>1 DEF Heap, PrivOK
    <3> QED BY <3>1, <3>2, <2>5
  <2> QED BY <2>4, <2>6, <2>7 DEF PrivOK
<1>9. EndsOK'
  <2>1. \A j \in Socks : ~sock[j].ispriv => ~sock'[j].ispriv
    BY <1>3, <1>6 DEF SameOwners
  <2>2. \A q \in Tunnels : tun'[q].remote # NULL => ~sock'[tun'[q].remote].ispriv
    <3> TAKE q \in Tunnels
    <3> HAVE tun'[q].remote # NULL
    <3>1. tun'[q].remote = tun[q].remote /\ tun[q].remote \in Socks
      BY <1>7 DEF Heap, Tunnel
    <3> QED BY <3>1, <2>1 DEF Heap, EndsOK
  <2>3. \A w \in Entries : tun'[w].priv = NULL
    BY <1>2, <1>4, ZeroTunnelIn DEF Heap, EndsOK
  <2> QED BY <2>2, <2>3, <1>7, ZeroTunnelIn DEF Heap, EndsOK
<1>10. WaitOK'
  <2> SUFFICES ASSUME waitList # <<>>
               PROVE  /\ 1 \in Entries /\ waitList = <<1>>
                      /\ tun'[1].state = "tunnel_waitting"
                      /\ tun'[1].status \in {"tmptun_is_alive", "tmptun_is_free"}
                      /\ tun'[1].remote # NULL => tun'[1].status = "tmptun_is_alive"
                      /\ tun'[0].remote # NULL => tun'[1].status = "tmptun_is_free"
    BY DEF WaitOK
  <2>1. /\ 1 \in Entries /\ waitList = <<1>> /\ tun[1].state = "tunnel_waitting"
        /\ tun[1].status \in {"tmptun_is_alive", "tmptun_is_free"}
        /\ tun[1].remote # NULL => tun[1].status = "tmptun_is_alive"
        /\ tun[0].remote # NULL => tun[1].status = "tmptun_is_free"
    BY DEF Heap, WaitOK
  <2>2. CASE r = 1
    <3>1. tun'[1].remote = NULL /\ tun'[1].status \in {tun[1].status, "tmptun_is_free"}
      BY <2>2, <1>2, <1>4
    <3> QED BY <2>1, <2>2, <3>1, <1>7, ZeroTunnelIn
  <2>3. CASE r # 1
    BY <2>1, <2>3, <1>2, <1>7, ZeroTunnelIn
  <2> QED BY <2>2, <2>3
<1>11. Tracked'
  <2> SUFFICES ASSUME NEW j \in Socks, sock'[j].alloc, ~sock'[j].ispriv
               PROVE  /\ \E q \in Tunnels : tun'[q].remote = j
                      /\ sock'[j].tunnel = 0 => tun'[0].remote = j
                      /\ sock'[j].tunnel # 0 => waitList = <<sock'[j].tunnel>>
    BY DEF Tracked
  <2>1. j # k /\ sock[j].alloc /\ ~sock[j].ispriv /\ sock'[j].tunnel = sock[j].tunnel
    BY <1>3, <1>6 DEF SameOwners
  <2>2. /\ \E q \in Tunnels : tun[q].remote = j
        /\ sock[j].tunnel = 0 => tun[0].remote = j
        /\ sock[j].tunnel # 0 => waitList = <<sock[j].tunnel>>
    BY <2>1 DEF Heap, Tracked
  <2>3. sock[k].ispriv
    <3> SUFFICES ASSUME ~sock[k].ispriv PROVE FALSE
      OBVIOUS
    <3>1. PICK q1 \in Tunnels : tun[q1].remote = j
      BY <2>2
    <3>2. PICK q2 \in Tunnels : tun[q2].remote = k
      BY DEF Heap, Tracked
    <3> QED BY <3>1, <3>2, <2>1, OneHolder
  <2>4. \A q \in Tunnels : tun'[q].remote = tun[q].remote
    BY <2>3, <1>2
  <2> QED BY <2>1, <2>2, <2>4, ZeroTunnelIn
<1> QED BY <1>2, <1>3, <1>8, <1>9, <1>10, <1>11 DEF Heap

----------------------------------------------------------------------------
\* What a handler of k's event may do: it keeps the heap in order and frees no socket
\* but k.
Good(k) == /\ Heap'
           /\ \A j \in Socks \ {k} : sock[j].alloc => sock'[j].alloc
           /\ fault' = fault \/ fault' \in {"null", "freed"}

LEMMA QuietGood ==
    ASSUME Heap, NEW k, SameOwners(sock'), Keep
    PROVE  Good(k)
<1>1. Heap'
  BY KeepKeeps DEF Keep
<1> QED BY <1>1 DEF Good, Keep, SameOwners

LEMMA CrashGood ==
    ASSUME Heap, NEW k, Crash("null") \/ Crash("freed")
    PROVE  Good(k)
<1>1. SameOwners(sock')
  BY HeapSame DEF Crash, SameOwners
<1>2. UNCHANGED <<tun, waitList>> /\ fault' \in {"null", "freed"}
  BY DEF Crash
<1>3. Heap'
  BY <1>1, <1>2, KeepKeeps
<1> QED BY <1>1, <1>2, <1>3 DEF Good, SameOwners

LEMMA ReleasedType ==
    ASSUME NEW t \in Tunnel, NEW ispriv \in BOOLEAN
    PROVE  /\ ReleasedT(t, ispriv) \in Tunnel
           /\ ReleasedT(t, ispriv).state = t.state
           /\ ReleasedT(t, ispriv).status = t.status
           /\ ReleasedT(t, ispriv).priv = IF ispriv THEN NULL ELSE t.priv
           /\ ReleasedT(t, ispriv).remote = IF ispriv THEN t.remote ELSE NULL
  BY DEF ReleasedT, Tunnel

\* sock_force_shutdown.
LEMMA ForceGood ==
    ASSUME Heap, NEW k \in Socks, sock[k].alloc, NEW s, SameOwners(s), SockForceShutdown(k, s)
    PROVE  Good(k)
<1> DEFINE r == sock[k].tunnel
           t == ReleasedT(tun[r], sock[k].ispriv)
<1>1. r \in Tunnels /\ sock[k].ispriv \in BOOLEAN /\ tun[r] \in Tunnel
  BY DEF Heap, Sock
<1>2. tun' = [tun EXCEPT ![r] = t] /\ sock' = [s EXCEPT ![k] = NoSock] /\ UNCHANGED <<waitList, fault>>
  BY <1>1 DEF SockForceShutdown, SameOwners
<1>3. /\ t \in Tunnel /\ t.state = tun[r].state /\ t.status = tun[r].status
      /\ t.priv = IF sock[k].ispriv THEN NULL ELSE tun[r].priv
      /\ t.remote = IF sock[k].ispriv THEN tun[r].remote ELSE NULL
  BY <1>1, ReleasedType
<1> HIDE DEF t
<1>4. Heap'
  BY <1>2, <1>3, ReleaseKeeps
<1>5. \A j \in Socks \ {k} : sock[j].alloc => sock'[j].alloc
  BY <1>2 DEF SameOwners
<1> QED BY <1>2, <1>4, <1>5 DEF Good

\* A buffer is appended to one socket's, before the other is closed.
LEMMA LeftOwners ==
    ASSUME Heap, NEW k \in Socks, sock[k].alloc, NEW s, SameOwners(s), ~Freed(LeftTo(k, s), s)
    PROVE  SameOwners(WithLeft(k, s))
<1> DEFINE to == LeftTo(k, s)
           h == [s EXCEPT ![k] = [@ EXCEPT !.half = TRUE]]
<1>1. s[k].tunnel \in Tunnels /\ s[k].alloc
  BY DEF Heap, SameOwners, Sock
<1>2. to \in Socks \cup {NULL}
  BY <1>1 DEF LeftTo, Heap, Tunnel
<1>3. WithLeft(k, s) = IF to = NULL THEN h
                       ELSE [h EXCEPT ![to] = [h[to] EXCEPT !.wbuf = h[to].wbuf \cup s[k].rbuf]]
  BY DEF WithLeft
<1>4. to # NULL => s[to].alloc
  BY DEF Freed
<1>5. SameOwners(h)
  <2>1. [s[k] EXCEPT !.half = TRUE] \in Sock
    <3>1. s[k] \in Sock
      BY DEF SameOwners
    <3> QED BY <3>1 DEF Sock
  <2>2. h \in [Socks -> Sock] /\ h[k] = [s[k] EXCEPT !.half = TRUE] /\ \A j \in Socks \ {k} : h[j] = s[j]
    BY <2>1 DEF SameOwners
  <2>3. h[k].alloc = s[k].alloc /\ h[k].ispriv = s[k].ispriv /\ h[k].tunnel = s[k].tunnel
    BY <2>2 DEF SameOwners, Sock
  <2> QED BY <1>1, <2>2, <2>3 DEF SameOwners
<1>6. h \in [Socks -> Sock] /\ (to # NULL => h[to].alloc)
  BY <1>4, <1>5, <1>2 DEF SameOwners
<1>7. s[k].rbuf \in SUBSET Kind
  BY DEF SameOwners, Sock
<1> HIDE DEF to, h
<1>8. CASE to # NULL
  <2> DEFINE new == [h[to] EXCEPT !.wbuf = h[to].wbuf \cup s[k].rbuf]
             g == WithLeft(k, s)
  <2>1. to \in Socks /\ h[to] \in Sock /\ h[to].wbuf \cup s[k].rbuf \in SUBSET Kind
    BY <1>2, <1>6, <1>7, <1>8 DEF Sock
  <2>2. new \in Sock /\ new.alloc = h[to].alloc /\ new.ispriv = h[to].ispriv /\ new.tunnel = h[to].tunnel
    <3> DEFINE w == h[to].wbuf \cup s[k].rbuf
    <3>1. w \in SUBSET Kind
      BY <2>1
    <3> HIDE DEF w
    <3> QED BY <2>1, <3>1 DEF Sock
  <2>3. g = [h EXCEPT ![to] = new]
    BY <1>3, <1>6, <1>8, <2>1
  <2> HIDE DEF new, g
  <2>4. g \in [Socks -> Sock] /\ g[to] = new /\ \A j \in Socks \ {to} : g[j] = h[j]
    BY <1>6, <2>1, <2>2, <2>3
  <2>5. SameOwners(g)
    BY <1>5, <1>6, <1>8, <2>1, <2>2, <2>4 DEF SameOwners
  <2> QED BY <2>5 DEF g
<1> QED BY <1>3, <1>5, <1>8

\* The tunnel of a socket that sock_shutdown closes forgets it.
LEMMA ShutType ==
    ASSUME Heap, NEW k \in Socks, sock[k].alloc
    PROVE  LET r == sock[k].tunnel
               t == ShutT(tun[r], k, sock[k].ispriv)
           IN  /\ t \in Tunnel /\ t.state = tun[r].state
               /\ t.priv = IF sock[k].ispriv THEN NULL ELSE tun[r].priv
               /\ t.remote = IF sock[k].ispriv THEN tun[r].remote ELSE NULL
               /\ sock[k].ispriv \/ t.status \in {tun[r].status, "tmptun_is_free"} \/ r = 0
<1> DEFINE r == sock[k].tunnel
           rel == ReleasedT(tun[r], sock[k].ispriv)
<1>1. r \in Tunnels /\ sock[k].ispriv \in BOOLEAN /\ tun[r] \in Tunnel
  BY DEF Heap, Sock
<1>2. /\ rel \in Tunnel /\ rel.state = tun[r].state /\ rel.status = tun[r].status
      /\ rel.priv = IF sock[k].ispriv THEN NULL ELSE tun[r].priv
      /\ rel.remote = IF sock[k].ispriv THEN tun[r].remote ELSE NULL
  BY <1>1, ReleasedType
<1>3. sock[k].ispriv => r = 0 /\ tun[r].state # "tunnel_waitting" /\ tun[r].remote # k
  BY <1>1 DEF Heap, PrivOK, EndsOK
<1>4. tun[r].priv = k => sock[k].ispriv
  <2> HAVE tun[r].priv = k
  <2>1. r \notin Entries
    BY <1>1 DEF Heap, EndsOK
  <2>2. r = 0
    BY <1>1, <2>1 DEF Tunnels, Entries
  <2> QED BY <2>2 DEF Heap, PrivOK
<1>5. ~sock[k].ispriv /\ tun[r].state # "tunnel_waitting" => r = 0
  <2> HAVE ~sock[k].ispriv /\ tun[r].state # "tunnel_waitting"
  <2>1. r # 0 => waitList = <<r>>
    BY DEF Heap, Tracked
  <2>2. r # 0 => waitList # <<>> /\ waitList[1] = r
    BY <2>1
  <2>3. r # 0 => r = 1 /\ tun[1].state = "tunnel_waitting"
    BY <2>2 DEF Heap, WaitOK
  <2> QED BY <2>3
<1> DEFINE t == ShutT(tun[r], k, sock[k].ispriv)
<1>6. t = IF tun[r].state = "tunnel_waitting" THEN LetGo(rel, "tmptun_is_free")
          ELSE IF tun[r].state = "connected_state" /\ k = tun[r].remote THEN LetGo(rel, "tunn_is_idle")
          ELSE IF tun[r].state = "connected_state" /\ k = tun[r].priv
          THEN [rel EXCEPT !.status = "tunn_is_free", !.priv = NULL] ELSE rel
  BY DEF ShutT
<1> HIDE DEF rel, t
<1>7. /\ t \in Tunnel /\ t.state = tun[r].state
      /\ t.priv = IF sock[k].ispriv THEN NULL ELSE tun[r].priv
      /\ t.remote = IF sock[k].ispriv THEN tun[r].remote ELSE NULL
      /\ sock[k].ispriv \/ t.status \in {tun[r].status, "tmptun_is_free"} \/ r = 0
  <2>1. CASE tun[r].state = "tunnel_waitting"
    BY <1>2, <1>3, <1>6, <2>1 DEF LetGo, Tunnel, Status
  <2>2. CASE tun[r].state # "tunnel_waitting" /\ tun[r].state = "connected_state" /\ k = tun[r].remote
    BY <1>2, <1>3, <1>5, <1>6, <2>2 DEF LetGo, Tunnel, Status
  <2>3. CASE /\ tun[r].state # "tunnel_waitting" /\ ~(tun[r].state = "connected_state" /\ k = tun[r].remote)
             /\ tun[r].state = "connected_state" /\ k = tun[r].priv
    BY <1>2, <1>4, <1>6, <2>3 DEF Tunnel, Status
  <2>4. CASE /\ tun[r].state # "tunnel_waitting" /\ ~(tun[r].state = "connected_state" /\ k = tun[r].remote)
             /\ ~(tun[r].state = "connected_state" /\ k = tun[r].priv)
    BY <1>2, <1>6, <2>4
  <2> QED BY <2>1, <2>2, <2>3, <2>4
<1> QED BY <1>7 DEF t

\* sock_shutdown.
LEMMA ShutGood ==
    ASSUME Heap, NEW k \in Socks, sock[k].alloc, NEW s, SameOwners(s), SockShutdown(k, s)
    PROVE  Good(k)
<1> DEFINE to == LeftTo(k, s)
           h == WithLeft(k, s)
<1>1. CASE Crash("freed")
  BY <1>1, CrashGood
<1>2. CASE ~Freed(to, s) /\ sock' = [h EXCEPT ![k] = [@ EXCEPT !.mask = {"out"}]] /\ Keep
  <2>1. SameOwners(h)
    BY <1>2, LeftOwners
  <2> HIDE DEF h
  <2>2. SameOwners(sock')
    BY <2>1, <1>2 DEF SameOwners, Sock
  <2> QED BY <2>2, <1>2, QuietGood
<1>3. CASE /\ ~Freed(to, s) /\ sock' = [h EXCEPT ![k] = NoSock] /\ UNCHANGED <<waitList, fault>>
           /\ tun' = [tun EXCEPT ![s[k].tunnel] = ShutT(@, k, s[k].ispriv)]
  <2>1. SameOwners(h)
    BY <1>3, LeftOwners
  <2> DEFINE r == sock[k].tunnel
             t == ShutT(tun[r], k, sock[k].ispriv)
  <2>2. /\ t \in Tunnel /\ t.state = tun[r].state
        /\ t.priv = IF sock[k].ispriv THEN NULL ELSE tun[r].priv
        /\ t.remote = IF sock[k].ispriv THEN tun[r].remote ELSE NULL
        /\ sock[k].ispriv \/ t.status \in {tun[r].status, "tmptun_is_free"} \/ r = 0
    BY ShutType
  <2>3. tun' = [tun EXCEPT ![r] = t]
    BY <1>3 DEF SameOwners, Heap
  <2> HIDE DEF h, t
  <2>4. Heap'
    BY <1>3, <2>1, <2>2, <2>3, ReleaseKeeps
  <2>5. \A j \in Socks \ {k} : sock[j].alloc => sock'[j].alloc
    BY <1>3, <2>1 DEF SameOwners
  <2> QED BY <1>3, <2>4, <2>5 DEF Good
<1> QED BY <1>1, <1>2, <1>3 DEF SockShutdown

\* u is s as far as ownership goes.
Alike(u, s) ==
    /\ u \in [Socks -> Sock]
    /\ \A j \in Socks : /\ u[j].alloc = s[j].alloc
                        /\ u[j].ispriv = s[j].ispriv
                        /\ u[j].tunnel = s[j].tunnel
                        /\ ~u[j].alloc => u[j] = NoSock

LEMMA AlikeOwners == ASSUME NEW s, SameOwners(s), NEW u, Alike(u, s) PROVE SameOwners(u)
  BY DEF Alike, SameOwners

\* A socket whose buffers, mask and kernel state change stays the socket it was.
LEMMA UpdateAlike ==
    ASSUME NEW s \in [Socks -> Sock], \A j \in Socks : ~s[j].alloc => s[j] = NoSock,
           NEW k \in Socks, s[k].alloc, NEW x \in Sock,
           x.alloc = s[k].alloc, x.ispriv = s[k].ispriv, x.tunnel = s[k].tunnel
    PROVE  Alike([s EXCEPT ![k] = x], s)
<1> DEFINE u == [s EXCEPT ![k] = x]
<1>1. u \in [Socks -> Sock] /\ u[k] = x /\ \A j \in Socks \ {k} : u[j] = s[j]
  OBVIOUS
<1> HIDE DEF u
<1>2. Alike(u, s)
  BY <1>1 DEF Alike
<1> QED BY <1>2 DEF u

\* buff_concat, buff_clear and epoll_modify leave the owners alone.
LEMMA MovedAlike ==
    ASSUME NEW s \in [Socks -> Sock], \A j \in Socks : ~s[j].alloc => s[j] = NoSock,
           NEW from \in Socks, NEW to \in Socks, s[from].alloc, s[to].alloc
    PROVE  Alike(Moved(s, from, to), s)
<1> DEFINE x == [s[to] EXCEPT !.wbuf = s[to].wbuf \cup s[from].rbuf, !.mask = {"in", "out"}]
           s1 == [s EXCEPT ![to] = x]
           y == [s1[from] EXCEPT !.rbuf = {}]
           s2 == [s1 EXCEPT ![from] = y]
<1>1. Moved(s, from, to) = IF s[from].rbuf = {} THEN s ELSE s2
  BY DEF Moved
<1>2. x \in Sock /\ x.alloc = s[to].alloc /\ x.ispriv = s[to].ispriv /\ x.tunnel = s[to].tunnel
  <2> DEFINE w == s[to].wbuf \cup s[from].rbuf
  <2>1. s[to] \in Sock /\ w \in SUBSET Kind
    BY DEF Sock
  <2>2. {"in", "out"} \in SUBSET {"in", "out"}
    OBVIOUS
  <2> HIDE DEF w
  <2>3. [s[to] EXCEPT !.wbuf = w, !.mask = {"in", "out"}] \in Sock
    BY <2>1, <2>2 DEF Sock
  <2> QED BY <2>1, <2>3 DEF w, Sock
<1> HIDE DEF x
<1>3. Alike(s1, s)
  BY <1>2, UpdateAlike
<1> HIDE DEF s1
<1>4. s1 \in [Socks -> Sock] /\ (\A j \in Socks : ~s1[j].alloc => s1[j] = NoSock) /\ s1[from].alloc
  BY <1>3 DEF Alike
<1>5. y \in Sock /\ y.alloc = s1[from].alloc /\ y.ispriv = s1[from].ispriv /\ y.tunnel = s1[from].tunnel
  <2>1. s1[from] \in Sock
    BY <1>4
  <2> QED BY <2>1 DEF Sock
<1> HIDE DEF y
<1>6. Alike(s2, s1)
  BY <1>4, <1>5, UpdateAlike
<1> HIDE DEF s2
<1>7. Alike(s2, s)
  BY <1>3, <1>6 DEF Alike
<1>8. Alike(s, s)
  BY DEF Alike
<1> QED BY <1>1, <1>7, <1>8

LEMMA MovedOwners ==
    ASSUME NEW s, SameOwners(s), NEW from \in Socks, NEW to \in Socks, s[from].alloc, s[to].alloc
    PROVE  SameOwners(Moved(s, from, to))
<1>1. s \in [Socks -> Sock] /\ \A j \in Socks : ~s[j].alloc => s[j] = NoSock
  BY DEF SameOwners
<1> QED BY <1>1, MovedAlike, AlikeOwners

LEMMA UpdateOwners ==
    ASSUME NEW s, SameOwners(s), NEW k \in Socks, s[k].alloc, NEW x \in Sock,
           x.alloc = s[k].alloc, x.ispriv = s[k].ispriv, x.tunnel = s[k].tunnel
    PROVE  SameOwners([s EXCEPT ![k] = x])
<1>1. s \in [Socks -> Sock] /\ \A j \in Socks : ~s[j].alloc => s[j] = NoSock
  BY DEF SameOwners
<1> QED BY <1>1, UpdateAlike, AlikeOwners

\* A tunnel that is connected, and one that shakes hands, is tunnel 0; a service socket
\* belongs to no tunnel that shakes hands.
LEMMA TunnelOfSock ==
    ASSUME Heap, NEW k \in Socks, sock[k].alloc
    PROVE  LET r == sock[k].tunnel
           IN  /\ r \in Tunnels
               /\ tun[r].state # "tunnel_waitting" => r = 0
               /\ tun[r].state \notin {"tunnel_waitting", "connected_state"} => sock[k].ispriv
<1> DEFINE r == sock[k].tunnel
<1>1. r \in Tunnels /\ sock[k].ispriv \in BOOLEAN
  BY DEF Heap, Sock
<1>2. sock[k].ispriv => r = 0
  BY DEF Heap, PrivOK
<1>3. ~sock[k].ispriv /\ r # 0 => tun[r].state = "tunnel_waitting"
  <2> HAVE ~sock[k].ispriv /\ r # 0
  <2>1. waitList = <<r>>
    BY DEF Heap, Tracked
  <2>2. waitList # <<>> /\ waitList[1] = r
    BY <2>1
  <2>3. r = 1 /\ tun[1].state = "tunnel_waitting"
    BY <2>2 DEF Heap, WaitOK
  <2> QED BY <2>3
<1>4. ~sock[k].ispriv /\ r = 0 => tun[r].state = "connected_state"
  <2> HAVE ~sock[k].ispriv /\ r = 0
  <2>1. tun[0].remote = k
    BY DEF Heap, Tracked
  <2> QED BY <2>1 DEF Heap, EndsOK
<1> QED BY <1>1, <1>2, <1>3, <1>4

\* What a reply leaves in the read buffer was there.
LEMMA LeftIsBytes == \A b : AfterReply(b) \subseteq SUBSET b
  BY DEF AfterReply

\* tunnel_open_handle.
LEMMA OpenGood ==
    ASSUME Heap, LoopOK, NEW k \in Socks, sock[k].alloc, NEW s, SameOwners(s),
           tun[sock[k].tunnel].state = "open_state", OpenHandle(k, s)
    PROVE  Good(k)
<1>1. CASE SockForceShutdown(k, s)
  BY <1>1, ForceGood
<1>2. CASE sock' = s /\ Keep
  BY <1>2, QuietGood
<1>3. ASSUME tun' = [tun EXCEPT ![0] = [@ EXCEPT !.state = "request_state"]],
             NEW b \in AfterReply(s[k].rbuf),
             sock' = [s EXCEPT ![k] = [@ EXCEPT !.rbuf = b, !.wbuf = s[k].wbuf \cup {"handshake"},
                                                !.mask = {"in", "out"}]],
             UNCHANGED <<waitList, fault>>
      PROVE  Good(k)
  <2> DEFINE x == [s[k] EXCEPT !.rbuf = b, !.wbuf = s[k].wbuf \cup {"handshake"},
                               !.mask = {"in", "out"}]
  <2>1. tun[0].state # "connected_state"
    BY TunnelOfSock
  <2>2. s[k] \in Sock /\ s[k].alloc
    BY DEF SameOwners
  <2>3. x \in Sock /\ x.alloc = s[k].alloc /\ x.ispriv = s[k].ispriv /\ x.tunnel = s[k].tunnel
    <3> DEFINE w == s[k].wbuf \cup {"handshake"}
    <3>1. w \in SUBSET Kind /\ b \in SUBSET Kind
      BY <2>2, <1>3, LeftIsBytes DEF Sock, Kind
    <3>2. {"in", "out"} \in SUBSET {"in", "out"}
      OBVIOUS
    <3> HIDE DEF w
    <3>3. [s[k] EXCEPT !.rbuf = b, !.wbuf = w, !.mask = {"in", "out"}] \in Sock
      BY <2>2, <3>1, <3>2 DEF Sock
    <3>4. LET y == [s[k] EXCEPT !.rbuf = b, !.wbuf = w, !.mask = {"in", "out"}]
          IN  y.alloc = s[k].alloc /\ y.ispriv = s[k].ispriv /\ y.tunnel = s[k].tunnel
      BY <2>2 DEF Sock
    <3> QED BY <3>3, <3>4 DEF w
  <2>0. sock' = [s EXCEPT ![k] = x]
    BY <1>3
  <2> HIDE DEF x
  <2>4. SameOwners(sock')
    BY <2>0, <2>2, <2>3, UpdateOwners
  <2>5. Heap'
    BY <1>3, <2>1, <2>4, StateKeeps
  <2> QED BY <1>3, <2>4, <2>5 DEF Good, SameOwners
<1> QED BY <1>1, <1>2, <1>3 DEF OpenHandle

\* tunnel_request_handle.
LEMMA RequestGood ==
    ASSUME Heap, LoopOK, NEW k \in Socks, sock[k].alloc, NEW s, SameOwners(s),
           tun[sock[k].tunnel].state = "request_state", RequestHandle(k, s)
    PROVE  Good(k)
<1>1. CASE SockForceShutdown(k, s)
  BY <1>1, ForceGood
\* What is left of the bytes read is some of them; nobody's socket changes.
<1>2. ASSUME NEW b \in SUBSET s[k].rbuf, sock' = [s EXCEPT ![k] = [@ EXCEPT !.rbuf = b]]
      PROVE  SameOwners(sock')
  <2> DEFINE x == [s[k] EXCEPT !.rbuf = b]
  <2>1. s[k] \in Sock /\ s[k].alloc
    BY DEF SameOwners
  <2>2. b \in SUBSET Kind
    BY <2>1 DEF Sock
  <2>3. x \in Sock /\ x.alloc = s[k].alloc /\ x.ispriv = s[k].ispriv /\ x.tunnel = s[k].tunnel
    BY <2>1, <2>2 DEF Sock
  <2>4. sock' = [s EXCEPT ![k] = x]
    BY <1>2
  <2> HIDE DEF x
  <2> QED BY <2>1, <2>3, <2>4, UpdateOwners
<1>3. ASSUME tun' = [tun EXCEPT ![0] = [@ EXCEPT !.state = "connected_state"]],
             SameOwners(sock'), UNCHANGED <<waitList, fault>>
      PROVE  Good(k)
  <2>1. tun[0].state # "connected_state"
    BY TunnelOfSock
  <2>2. Heap'
    BY <1>3, <2>1, StateKeeps
  <2> QED BY <1>3, <2>2 DEF Good, SameOwners
<1>4. ASSUME SameOwners(sock'), Keep
      PROVE  Good(k)
  BY <1>4, QuietGood
<1> QED BY <1>1, <1>2, <1>3, <1>4, LeftIsBytes DEF RequestHandle

----------------------------------------------------------------------------
\* The searches of the wait list, which has one entry at most.
LEMMA WithStatusIs ==
    ASSUME Heap, NEW st
    PROVE  /\ waitList = <<>> => WithStatus(st) = {}
           /\ waitList # <<>> => /\ 1 \in Entries /\ waitList = <<1>> /\ waitList[1] = 1
                                 /\ WithStatus(st) = IF tun[1].status = st THEN {1} ELSE {}
<1>1. CASE waitList = <<>>
  BY <1>1 DEF WithStatus
<1>2. CASE waitList # <<>>
  <2>1. 1 \in Entries /\ waitList = <<1>>
    BY <1>2 DEF Heap, WaitOK
  <2>2. DOMAIN waitList = {1} /\ waitList[1] = 1
    BY <2>1
  <2> QED BY <1>2, <2>1, <2>2 DEF WithStatus
<1> QED BY <1>1, <1>2

LEMMA FirstOne == First({1}) = {1} /\ First({}) = {}
  BY DEF First

LEMMA AliveIs ==
    ASSUME Heap
    PROVE  /\ \A w \in Alive : w = 1 /\ w \in Entries /\ waitList = <<1>> /\ tun[1].status = "tmptun_is_alive"
           /\ Alive = {} => waitList = <<>> \/ tun[1].status = "tmptun_is_free"
<1>1. CASE waitList = <<>>
  BY <1>1, WithStatusIs, FirstOne DEF Alive
<1>2. CASE waitList # <<>>
  <2> DEFINE S == WithStatus("tmptun_is_alive")
  <2>1. /\ 1 \in Entries /\ waitList = <<1>> /\ waitList[1] = 1
        /\ S = IF tun[1].status = "tmptun_is_alive" THEN {1} ELSE {}
    BY <1>2, WithStatusIs
  <2>2. Alive = {waitList[i] : i \in First(S)}
    BY DEF Alive
  <2> HIDE DEF S
  <2>3. Alive = IF tun[1].status = "tmptun_is_alive" THEN {1} ELSE {}
    BY <2>1, <2>2, FirstOne
  <2>4. tun[1].status \in {"tmptun_is_alive", "tmptun_is_free"}
    BY <1>2 DEF Heap, WaitOK
  <2> QED BY <2>1, <2>3, <2>4
<1> QED BY <1>1, <1>2

LEMMA WaitObjIs ==
    ASSUME Heap, waitList = <<>> \/ tun[1].status = "tmptun_is_free", NEW w \in WaitObj
    PROVE  w = 1 /\ 1 \in Entries /\ WaitListWith(w) = <<1>>
<1>1. CASE waitList = <<>>
  <2>1. WithStatus("tmptun_is_free") = {}
    BY <1>1, WithStatusIs
  <2>2. w = Fresh /\ w \in Entries
    BY <2>1 DEF WaitObj
  <2>3. Fresh = 1
    BY <1>1 DEF Fresh
  <2>4. WaitListWith(w) = <<w>> \o waitList
    BY <1>1 DEF WaitListWith
  <2> QED BY <2>2, <2>3, <2>4, <1>1
<1>2. CASE waitList # <<>>
  <2> DEFINE S == WithStatus("tmptun_is_free")
  <2>1. 1 \in Entries /\ waitList = <<1>> /\ waitList[1] = 1 /\ S = {1}
    BY <1>2, WithStatusIs
  <2>2. WaitObj = {waitList[i] : i \in First(S)}
    BY <2>1 DEF WaitObj
  <2> HIDE DEF S
  <2>3. WaitObj = {1}
    BY <2>1, <2>2, FirstOne
  <2>4. w = 1 /\ \E i \in DOMAIN waitList : waitList[i] = w
    BY <2>1, <2>3
  <2> QED BY <2>1, <2>4 DEF WaitListWith
<1> QED BY <1>1, <1>2

LEMMA RunningType ==
    ASSUME NEW t \in Tunnel, NEW q \in Socks
    PROVE  /\ Running(t, q) \in Tunnel /\ Running(t, q).remote = q
           /\ Running(t, q).state = t.state /\ Running(t, q).priv = t.priv
  BY DEF Running, Tunnel, Status

LEMMA LetGoType ==
    ASSUME NEW t \in Tunnel, NEW st \in Status
    PROVE  /\ LetGo(t, st) \in Tunnel /\ LetGo(t, st).remote = NULL /\ LetGo(t, st).status = st
           /\ LetGo(t, st).state = t.state /\ LetGo(t, st).priv = t.priv
  BY DEF LetGo, Tunnel

LEMMA ParkedType ==
    ASSUME NEW t \in Tunnel, NEW q \in Socks
    PROVE  /\ Parked(t, q) \in Tunnel /\ Parked(t, q).remote = q /\ Parked(t, q).priv = t.priv
           /\ Parked(t, q).status = "tmptun_is_alive" /\ Parked(t, q).state = "tunnel_waitting"
  BY DEF Parked, Tunnel, Status, TunnelState

\* tunnel_connect_to_remote: the new socket is the remote end of tunnel 0.
LEMMA DialKeeps ==
    ASSUME Heap, tun[0].remote = NULL, tun[0].state = "connected_state", Alive = {}, UNCHANGED waitList,
           NEW q \in Socks, ~sock[q].alloc,
           NEW s, SameOwners(s), Alike(sock', NewService(s, q)),
           tun' = [tun EXCEPT ![0] = Running(@, q)]
    PROVE  Heap'
<1> DEFINE n == NewService(s, q)
<1>1. /\ n[q].alloc /\ ~n[q].ispriv /\ n[q].tunnel = 0
      /\ \A j \in Socks \ {q} : n[j] = s[j]
  BY DEF NewService, NoSock, SameOwners
<1>2. /\ tun' \in [Tunnels -> Tunnel]
      /\ tun'[0].remote = q /\ tun'[0].state = "connected_state" /\ tun'[0].priv = tun[0].priv
      /\ \A r \in Tunnels : r # 0 => tun'[r] = tun[r]
  BY RunningType, ZeroTunnelIn DEF Heap
<1> HIDE DEF n
<1>3. /\ sock' \in [Socks -> Sock]
      /\ sock'[q].alloc /\ ~sock'[q].ispriv /\ sock'[q].tunnel = 0
      /\ \A j \in Socks \ {q} : sock'[j].alloc = sock[j].alloc /\ sock'[j].ispriv = sock[j].ispriv
                                /\ sock'[j].tunnel = sock[j].tunnel
      /\ \A j \in Socks : ~sock'[j].alloc => sock'[j] = NoSock
  BY <1>1 DEF Alike, SameOwners, n
<1>4. \A r \in Tunnels : tun[r].remote = NULL
  <2>1. \A w \in Entries : tun[w].remote = NULL
    <3> SUFFICES ASSUME NEW w \in Entries, tun[w].remote # NULL PROVE FALSE
      OBVIOUS
    <3>1. waitList = <<w>>
      BY DEF Heap, EndsOK
    <3>2. waitList # <<>> /\ waitList[1] = w
      BY <3>1
    <3>3. w = 1 /\ tun[1].status = "tmptun_is_alive"
      BY <3>2 DEF Heap, WaitOK
    <3> QED BY <3>2, <3>3, AliveIs
  <2>2. \A r \in Tunnels : r = 0 \/ r \in Entries
    BY DEF Tunnels, Entries
  <2> QED BY <2>1, <2>2
<1>5. PrivOK'
  <2>1. tun[0].priv # NULL => tun[0].priv \in Socks \ {q}
    <3>1. tun[0].priv \in Socks \cup {NULL}
      BY ZeroTunnelIn DEF Heap, Tunnel
    <3> QED BY <3>1 DEF Heap, PrivOK
  <2>2. tun[0].priv # NULL => sock[tun[0].priv].alloc /\ sock[tun[0].priv].ispriv
    BY DEF Heap, PrivOK
  <2>3. \A j \in Socks : sock[j].alloc /\ sock[j].ispriv => sock[j].tunnel = 0 /\ tun[0].priv = j
    BY DEF Heap, PrivOK
  <2> QED BY <1>2, <1>3, <2>1, <2>2, <2>3 DEF PrivOK
<1>6. EndsOK'
  BY <1>2, <1>3, <1>4, ZeroTunnelIn DEF Heap, EndsOK
<1>7. WaitOK'
  BY <1>2, AliveIs, ZeroTunnelIn DEF Heap, WaitOK
<1>8. Tracked'
  <2>1. \A j \in Socks : sock[j].alloc => sock[j].ispriv
    BY <1>4 DEF Heap, Tracked
  <2> QED BY <2>1, <1>2, <1>3, ZeroTunnelIn DEF Tracked
<1> QED BY <1>2, <1>3, <1>5, <1>6, <1>7, <1>8 DEF Heap

\* A parked service socket is taken back from its entry.
LEMMA TakeBackKeeps ==
    ASSUME Heap, tun[0].remote = NULL, tun[0].state = "connected_state", UNCHANGED waitList,
           NEW w \in Alive, NEW q \in Socks, q = tun[w].remote,
           SameOwners(sock'),
           tun' = [[tun EXCEPT ![w] = LetGo(@, "tmptun_is_free")] EXCEPT ![0] = Running(@, q)]
    PROVE  Heap'
<1>1. w = 1 /\ 1 \in Entries /\ waitList = <<1>> /\ 1 \in Tunnels /\ 1 # 0
  BY AliveIs, ZeroTunnelIn
<1>2. /\ tun' \in [Tunnels -> Tunnel]
      /\ tun'[0].remote = q /\ tun'[0].state = "connected_state" /\ tun'[0].priv = tun[0].priv
      /\ tun'[1].remote = NULL /\ tun'[1].state = tun[1].state /\ tun'[1].priv = tun[1].priv
      /\ tun'[1].status = "tmptun_is_free"
      /\ \A r \in Tunnels : r # 0 /\ r # 1 => tun'[r] = tun[r]
  <2> DEFINE a == LetGo(tun[1], "tmptun_is_free")
             b == Running(tun[0], q)
  <2>1. tun[1] \in Tunnel /\ tun[0] \in Tunnel /\ "tmptun_is_free" \in Status
    BY <1>1, ZeroTunnelIn DEF Heap, Status
  <2>2. /\ a \in Tunnel /\ a.remote = NULL /\ a.status = "tmptun_is_free"
        /\ a.state = tun[1].state /\ a.priv = tun[1].priv
    BY <2>1, LetGoType
  <2>3. b \in Tunnel /\ b.remote = q /\ b.state = tun[0].state /\ b.priv = tun[0].priv
    BY <2>1, RunningType
  <2>4. tun' = [[tun EXCEPT ![1] = a] EXCEPT ![0] = b]
    BY <1>1, ZeroTunnelIn DEF Heap
  <2> HIDE DEF a, b
  <2> QED BY <1>1, <2>2, <2>3, <2>4, ZeroTunnelIn DEF Heap
<1>3. /\ sock' \in [Socks -> Sock]
      /\ \A j \in Socks : sock'[j].alloc = sock[j].alloc /\ sock'[j].ispriv = sock[j].ispriv
                           /\ sock'[j].tunnel = sock[j].tunnel
      /\ \A j \in Socks : ~sock'[j].alloc => sock'[j] = NoSock
  BY DEF SameOwners
<1>4. PrivOK'
  <2>1. tun[0].priv \in Socks \cup {NULL}
    BY ZeroTunnelIn DEF Heap, Tunnel
  <2> QED BY <1>2, <1>3, <2>1 DEF Heap, PrivOK
<1>5. \A r \in Tunnels : tun[r].remote # NULL => r = 1
  BY <1>1, OneHolder
<1>6. EndsOK'
  <2>1. ~sock[q].ispriv
    BY <1>1 DEF Heap, EndsOK
  <2>2. \A r \in Tunnels : tun'[r].remote # NULL => r = 0
    BY <1>2, <1>5
  <2>3. \A e \in Entries : tun'[e].priv = NULL
    BY <1>1, <1>2, ZeroTunnelIn DEF Heap, EndsOK
  <2> QED BY <1>2, <1>3, <2>1, <2>2, <2>3, ZeroTunnelIn DEF Heap, EndsOK
<1>7. WaitOK'
  BY <1>1, <1>2 DEF Heap, WaitOK
<1>8. Tracked'
  <2> SUFFICES ASSUME NEW j \in Socks, sock'[j].alloc, ~sock'[j].ispriv
               PROVE  /\ \E r \in Tunnels : tun'[r].remote = j
                      /\ sock'[j].tunnel = 0 => tun'[0].remote = j
                      /\ sock'[j].tunnel # 0 => waitList = <<sock'[j].tunnel>>
    BY DEF Tracked
  <2>1. j = q
    <3>1. PICK r \in Tunnels : tun[r].remote = j
      BY <1>3 DEF Heap, Tracked
    <3> QED BY <3>1, <1>1, <1>5
  <2>2. sock[j].tunnel # 0 => waitList = <<sock[j].tunnel>>
    BY <1>3 DEF Heap, Tracked
  <2> QED BY <1>2, <1>3, <2>1, <2>2, ZeroTunnelIn
<1> QED BY <1>2, <1>3, <1>4, <1>6, <1>7, <1>8 DEF Heap

\* A service socket whose answer has gone is parked in the wait entry.
LEMMA ParkKeeps ==
    ASSUME Heap, NEW q \in Socks, q = tun[0].remote, sock[q].alloc,
           NEW w \in WaitObj, waitList' = WaitListWith(w),
           tun' = [[tun EXCEPT ![w] = Parked(@, q)] EXCEPT ![0] = LetGo(@, "tunn_is_idle")],
           NEW s, SameOwners(s), Alike(sock', [s EXCEPT ![q] = [@ EXCEPT !.tunnel = w]])
    PROVE  Heap'
<1>0. waitList = <<>> \/ tun[1].status = "tmptun_is_free"
  BY DEF Heap, WaitOK
<1>1. w = 1 /\ 1 \in Entries /\ waitList' = <<1>> /\ 1 \in Tunnels /\ 1 # 0
  BY <1>0, WaitObjIs, ZeroTunnelIn
<1>2. /\ tun' \in [Tunnels -> Tunnel]
      /\ tun'[0].remote = NULL /\ tun'[0].state = tun[0].state /\ tun'[0].priv = tun[0].priv
      /\ tun'[1].remote = q /\ tun'[1].state = "tunnel_waitting" /\ tun'[1].priv = tun[1].priv
      /\ tun'[1].status = "tmptun_is_alive"
      /\ \A r \in Tunnels : r # 0 /\ r # 1 => tun'[r] = tun[r]
  <2> DEFINE a == Parked(tun[1], q)
             b == LetGo(tun[0], "tunn_is_idle")
  <2>1. tun[1] \in Tunnel /\ tun[0] \in Tunnel /\ "tunn_is_idle" \in Status
    BY <1>1, ZeroTunnelIn DEF Heap, Status
  <2>2. /\ a \in Tunnel /\ a.remote = q /\ a.status = "tmptun_is_alive"
        /\ a.state = "tunnel_waitting" /\ a.priv = tun[1].priv
    BY <2>1, ParkedType
  <2>3. b \in Tunnel /\ b.remote = NULL /\ b.state = tun[0].state /\ b.priv = tun[0].priv
    BY <2>1, LetGoType
  <2>4. tun' = [[tun EXCEPT ![1] = a] EXCEPT ![0] = b]
    BY <1>1, ZeroTunnelIn DEF Heap
  <2> HIDE DEF a, b
  <2> QED BY <1>1, <2>2, <2>3, <2>4, ZeroTunnelIn DEF Heap
<1>3. /\ sock' \in [Socks -> Sock]
      /\ \A j \in Socks : sock'[j].alloc = sock[j].alloc /\ sock'[j].ispriv = sock[j].ispriv
      /\ \A j \in Socks \ {q} : sock'[j].tunnel = sock[j].tunnel
      /\ sock'[q].tunnel = 1
      /\ \A j \in Socks : ~sock'[j].alloc => sock'[j] = NoSock
  <2> DEFINE x == [s[q] EXCEPT !.tunnel = w]
             u == [s EXCEPT ![q] = x]
  <2>1. s[q] \in Sock
    BY DEF SameOwners
  <2>2. x.alloc = s[q].alloc /\ x.ispriv = s[q].ispriv /\ x.tunnel = 1
    BY <1>1, <2>1 DEF Sock
  <2> HIDE DEF x
  <2>3. Alike(sock', u)
    BY DEF SameOwners, x
  <2>4. u[q] = x /\ \A j \in Socks \ {q} : u[j] = s[j]
    BY DEF SameOwners
  <2> HIDE DEF u
  <2> QED BY <2>2, <2>3, <2>4 DEF Alike, SameOwners
<1>4. \A r \in Tunnels : tun[r].remote # NULL => r = 0
  BY ZeroTunnelIn, OneHolder
<1>5. ~sock[q].ispriv
  BY ZeroTunnelIn DEF Heap, EndsOK
<1>6. PrivOK'
  <2>1. tun[0].priv \in Socks \cup {NULL}
    BY ZeroTunnelIn DEF Heap, Tunnel
  <2> QED BY <1>2, <1>3, <1>5, <2>1 DEF Heap, PrivOK
<1>7. EndsOK'
  <2>1. \A r \in Tunnels : tun'[r].remote # NULL => r = 1 /\ tun'[r].remote = q
    BY <1>2, <1>4
  <2>2. \A e \in Entries : tun'[e].priv = NULL
    BY <1>1, <1>2, ZeroTunnelIn DEF Heap, EndsOK
  <2> QED BY <1>1, <1>2, <1>3, <1>5, <2>1, <2>2, ZeroTunnelIn, SMTT(30) DEF Heap, EndsOK
<1>8. WaitOK'
  BY <1>1, <1>2 DEF WaitOK
<1>9. Tracked'
  <2> SUFFICES ASSUME NEW j \in Socks, sock'[j].alloc, ~sock'[j].ispriv
               PROVE  /\ \E r \in Tunnels : tun'[r].remote = j
                      /\ sock'[j].tunnel = 0 => tun'[0].remote = j
                      /\ sock'[j].tunnel # 0 => waitList' = <<sock'[j].tunnel>>
    BY DEF Tracked
  <2>1. j = q
    <3>1. PICK r \in Tunnels : tun[r].remote = j
      BY <1>3 DEF Heap, Tracked
    <3> QED BY <3>1, <1>4
  <2> QED BY <1>1, <1>2, <1>3, <2>1
<1> QED BY <1>2, <1>3, <1>6, <1>7, <1>8, <1>9 DEF Heap

\* The request is moved to a service connection, if there is one or one can be made.
LEMMA ServiceGood ==
    ASSUME Heap, NEW k \in Socks, sock[k].alloc, NEW s, SameOwners(s),
           tun[0].remote = NULL, tun[0].state = "connected_state", Service(k, s)
    PROVE  Good(k)
<1>1. CASE Crash("null") \/ Crash("freed")
  BY <1>1, CrashGood
<1>2. CASE sock' = s /\ Keep
  BY <1>2, QuietGood
<1>3. ASSUME NEW w \in Alive, tun[w].remote # NULL, ~Freed(tun[w].remote, s),
             tun' = [[tun EXCEPT ![w] = LetGo(@, "tmptun_is_free")]
                       EXCEPT ![0] = Running(@, tun[w].remote)],
             sock' = Moved(s, k, tun[w].remote), UNCHANGED <<waitList, fault>>
      PROVE  Good(k)
  <2> DEFINE q == tun[w].remote
  <2>1. w \in Tunnels
    BY AliveIs, ZeroTunnelIn
  <2>2. q \in Socks /\ s[q].alloc /\ s[k].alloc
    BY <1>3, <2>1 DEF Heap, Tunnel, Freed, SameOwners
  <2> HIDE DEF q
  <2>3. SameOwners(sock')
    BY <1>3, <2>2, MovedOwners DEF q
  <2>4. Heap'
    BY <1>3, <2>2, <2>3, TakeBackKeeps DEF q
  <2> QED BY <1>3, <2>3, <2>4 DEF Good, SameOwners
<1>4. ASSUME Alive = {}, NEW q \in Socks, ~s[q].alloc, tun' = [tun EXCEPT ![0] = Running(@, q)],
             sock' = Moved(NewService(s, q), k, q), UNCHANGED <<waitList, fault>>
      PROVE  Good(k)
  <2> DEFINE n == NewService(s, q)
             x == [NoSock EXCEPT !.alloc = TRUE, !.mask = {"in"}]
  <2>1. x \in Sock /\ x.alloc
    BY ZeroTunnelIn DEF NoSock, Sock
  <2>2. n = [s EXCEPT ![q] = x] /\ s \in [Socks -> Sock]
    BY DEF NewService, SameOwners
  <2>3. q # k /\ s[k].alloc /\ ~sock[q].alloc
    BY <1>4 DEF SameOwners
  <2> HIDE DEF n, x
  <2>4. /\ n \in [Socks -> Sock] /\ n[q].alloc /\ n[k].alloc
        /\ \A j \in Socks \ {q} : n[j] = s[j]
    BY <2>1, <2>2, <2>3
  <2>5. \A j \in Socks : ~n[j].alloc => n[j] = NoSock
    BY <2>4 DEF SameOwners
  <2>6. Alike(sock', n)
    BY <1>4, <2>4, <2>5, MovedAlike DEF n
  <2>7. Heap'
    BY <1>4, <2>3, <2>6, DialKeeps DEF n
  <2>8. \A j \in Socks \ {k} : sock[j].alloc => sock'[j].alloc
    BY <2>3, <2>4, <2>6 DEF Alike, SameOwners
  <2> QED BY <1>4, <2>7, <2>8 DEF Good
<1> QED BY <1>1, <1>2, <1>3, <1>4 DEF Service

\* tunnel_connected_handle.
LEMMA ConnectedGood ==
    ASSUME Heap, NEW k \in Socks, sock[k].alloc, NEW s, SameOwners(s),
           tun[sock[k].tunnel].state = "connected_state", TunnelConnected(k, s)
    PROVE  Good(k)
<1> DEFINE p == tun[0].priv
           q == tun[0].remote
<1>1. s[k].tunnel = 0 /\ s[k].alloc /\ s[k].ispriv = sock[k].ispriv /\ tun[0].state = "connected_state"
  BY TunnelOfSock DEF SameOwners
<1>2. s[k].ispriv => p = k
  BY <1>1 DEF Heap, PrivOK
<1>3. p \in Socks \cup {NULL} /\ q \in Socks \cup {NULL} /\ (p # NULL => s[p].alloc)
  BY ZeroTunnelIn DEF Heap, Tunnel, PrivOK, SameOwners
<1>4. \/ s[k].ispriv /\ q = NULL /\ Service(p, s)
      \/ Crash("freed") \/ Crash("null")
      \/ s[k].ispriv /\ q # NULL /\ ~Freed(q, s) /\ sock' = Moved(s, p, q) /\ Keep
      \/ sock' = s /\ Keep
      \/ p # NULL /\ q # NULL /\ ~Freed(q, s) /\ sock' = Moved(s, q, p) /\ Keep
  BY <1>1 DEF TunnelConnected
<1> HIDE DEF p, q
<1>5. CASE s[k].ispriv /\ q = NULL /\ Service(p, s)
  BY <1>5, <1>1, <1>2, ServiceGood DEF q
<1>6. CASE Crash("freed") \/ Crash("null")
  BY <1>6, CrashGood
<1>7. CASE s[k].ispriv /\ q # NULL /\ ~Freed(q, s) /\ sock' = Moved(s, p, q) /\ Keep
  <2>1. p \in Socks /\ s[p].alloc /\ q \in Socks /\ s[q].alloc
    BY <1>1, <1>2, <1>3, <1>7 DEF Freed
  <2> QED BY <1>7, <2>1, MovedOwners, QuietGood
<1>8. CASE sock' = s /\ Keep
  BY <1>8, QuietGood
<1>9. CASE p # NULL /\ q # NULL /\ ~Freed(q, s) /\ sock' = Moved(s, q, p) /\ Keep
  <2>1. p \in Socks /\ s[p].alloc /\ q \in Socks /\ s[q].alloc
    BY <1>3, <1>9 DEF Freed
  <2> QED BY <1>9, <2>1, MovedOwners, QuietGood
<1> QED BY <1>4, <1>5, <1>6, <1>7, <1>8, <1>9

LEMMA StateHandleGood ==
    ASSUME Heap, LoopOK, NEW k \in Socks, sock[k].alloc, NEW s, SameOwners(s), StateHandle(k, s)
    PROVE  Good(k)
<1> DEFINE state == tun[sock[k].tunnel].state
<1>1. \/ state = "open_state" /\ OpenHandle(k, s)
      \/ state = "request_state" /\ RequestHandle(k, s)
      \/ state = "connected_state" /\ TunnelConnected(k, s)
      \/ state = "tunnel_waitting" /\ sock' = s /\ Keep
  BY DEF StateHandle, SameOwners
<1> QED BY <1>1, OpenGood, RequestGood, ConnectedGood, QuietGood

\* tunnel_switch_handle.
LEMMA SwitchGood ==
    ASSUME Heap, NEW k \in Socks, sock[k].alloc, NEW s, SameOwners(s), TunnelSwitch(k, s)
    PROVE  Good(k)
<1> DEFINE r == sock[k].tunnel
           q == tun[r].remote
<1>1. s[k].tunnel = r /\ s[k].alloc /\ r \in Tunnels
  BY DEF SameOwners, Heap, Sock
<1>2. q \in Socks \cup {NULL}
  BY <1>1 DEF Heap, Tunnel
<1>3. CASE sock' = s /\ Keep
  BY <1>3, QuietGood
<1>4. CASE Crash("freed")
  BY <1>4, CrashGood
<1>5. CASE k = tun[r].priv /\ q # NULL /\ ~Freed(q, s) /\ sock' = Moved(s, q, k) /\ Keep
  <2>1. q \in Socks /\ s[q].alloc
    BY <1>2, <1>5 DEF Freed
  <2> HIDE DEF q
  <2> QED BY <1>1, <1>5, <2>1, MovedOwners, QuietGood
<1>6. ASSUME k = tun[r].priv, q # NULL, ~Freed(q, s), NEW w \in WaitObj,
             tun' = [[tun EXCEPT ![w] = Parked(@, q)] EXCEPT ![r] = LetGo(@, "tunn_is_idle")],
             waitList' = WaitListWith(w),
             sock' = [[s EXCEPT ![q] = [@ EXCEPT !.tunnel = w]] EXCEPT ![k] = [@ EXCEPT !.mask = {"in"}]],
             UNCHANGED fault
      PROVE  Good(k)
  <2>1. q \in Socks /\ s[q].alloc /\ sock[q].alloc
    BY <1>2, <1>6 DEF Freed, SameOwners
  <2>2. r = 0
    <3>1. r \notin Entries
      BY <1>6 DEF Heap, EndsOK
    <3> QED BY <1>1, <3>1 DEF Tunnels, Entries
  <2>3. w \in Tunnels
    <3>1. waitList = <<>> \/ tun[1].status = "tmptun_is_free"
      BY <1>6, <2>2 DEF Heap, WaitOK
    <3> QED BY <3>1, WaitObjIs, ZeroTunnelIn
  <2> DEFINE x == [s[q] EXCEPT !.tunnel = w]
             s1 == [s EXCEPT ![q] = x]
             y == [s1[k] EXCEPT !.mask = {"in"}]
  <2>4. x \in Sock /\ x.alloc
    <3>1. s[q] \in Sock
      BY <2>1 DEF SameOwners
    <3> QED BY <3>1, <2>1, <2>3 DEF Sock
  <2>5. sock' = [s1 EXCEPT ![k] = y] /\ s1 = [s EXCEPT ![q] = [@ EXCEPT !.tunnel = w]]
    BY <1>6, <2>1 DEF SameOwners
  <2> HIDE DEF x
  <2>6. s1[q] = x /\ s1 \in [Socks -> Sock] /\ \A j \in Socks \ {q} : s1[j] = s[j]
    BY <2>1, <2>4 DEF SameOwners
  <2> HIDE DEF s1
  <2>7. s1[k].alloc /\ (\A j \in Socks : ~s1[j].alloc => s1[j] = NoSock)
    BY <1>1, <2>4, <2>6 DEF SameOwners
  <2>8. y \in Sock /\ y.alloc = s1[k].alloc /\ y.ispriv = s1[k].ispriv /\ y.tunnel = s1[k].tunnel
    <3>1. s1[k] \in Sock /\ {"in"} \in SUBSET {"in", "out"}
      BY <2>6
    <3> QED BY <3>1 DEF Sock
  <2> HIDE DEF y
  <2>9. Alike(sock', s1)
    BY <2>5, <2>6, <2>7, <2>8, UpdateAlike
  <2>10. Heap'
    BY <1>6, <2>1, <2>2, <2>5, <2>9, ParkKeeps
  <2>11. \A j \in Socks \ {k} : sock[j].alloc => sock'[j].alloc
    BY <2>4, <2>6, <2>9 DEF Alike, SameOwners
  <2> QED BY <1>6, <2>10, <2>11 DEF Good
<1> QED BY <1>1, <1>3, <1>4, <1>5, <1>6 DEF TunnelSwitch

\* What is left of a write is written when the socket is writable again.
LEMMA AfterWriteGood ==
    ASSUME Heap, NEW k \in Socks, sock[k].alloc, NEW w \in SUBSET Kind, AfterWrite(k, w)
    PROVE  Good(k)
<1> DEFINE m == IF w # {} THEN {"in", "out"} ELSE {"in"}
           x == [sock[k] EXCEPT !.wbuf = w, !.mask = m]
           s == [sock EXCEPT ![k] = x]
<1>1. x \in Sock /\ x.alloc = sock[k].alloc /\ x.ispriv = sock[k].ispriv /\ x.tunnel = sock[k].tunnel
  <2>1. m \in SUBSET {"in", "out"}
    OBVIOUS
  <2>2. sock[k] \in Sock
    BY DEF Heap
  <2> HIDE DEF m
  <2> QED BY <2>1, <2>2 DEF Sock
<1>2. SameOwners(sock)
  BY HeapSame
<1>3. \/ TunnelSwitch(k, s)
      \/ sock' = s /\ Keep
  BY DEF AfterWrite, Heap
<1> HIDE DEF x
<1>4. SameOwners(s)
  BY <1>1, <1>2, UpdateOwners
<1> HIDE DEF s
<1> QED BY <1>3, <1>4, SwitchGood, QuietGood

\* A handled event leaves the batch, and with it the only one of its socket.
LEMMA HandledKeeps ==
    ASSUME IInv, NEW k \in Socks, NEW ev, Consume(k, ev), Good(k)
    PROVE  IInv'
<1> DEFINE e == [src |-> k, ev |-> ev]
<1>1. e \in batch /\ batch' = batch \ {e} /\ replies' = replies
  BY DEF Consume
<1>2. \A f \in batch' : f \in batch /\ f.src \in Socks \ {k}
  <2> TAKE f \in batch'
  <2>1. f \in batch /\ f # e
    BY <1>1
  <2>2. f.src # e.src
    BY <2>1, <1>1 DEF IInv, BatchOK
  <2> QED BY <2>1, <2>2 DEF IInv, BatchOK, Event
<1>3. BatchOK'
  BY <1>1, <1>2 DEF BatchOK, IInv, Good
<1> QED BY <1>1, <1>3 DEF IInv, LoopOK, Good

LEMMA ReadKeeps ==
    ASSUME IInv, NEW k \in Socks, ReadHandle(k)
    PROVE  IInv'
<1> DEFINE x == [sock[k] EXCEPT !.rbuf = sock[k].rbuf \cup sock[k].rx, !.rx = {}]
           s == [sock EXCEPT ![k] = x]
<1>1. sock[k].alloc /\ Consume(k, "in") /\ Heap /\ LoopOK
  BY DEF ReadHandle, IInv
<1>2. SameOwners(sock)
  BY <1>1, HeapSame
<1>3. StateHandle(k, s) \/ StateHandle(k, sock) \/ SockShutdown(k, sock)
  BY DEF ReadHandle, IInv, Heap
<1>4. x \in Sock /\ x.alloc = sock[k].alloc /\ x.ispriv = sock[k].ispriv /\ x.tunnel = sock[k].tunnel
  <2> DEFINE b == sock[k].rbuf \cup sock[k].rx
  <2>1. sock[k] \in Sock /\ b \in SUBSET Kind /\ {} \in SUBSET Kind
    BY <1>1 DEF Heap, Sock
  <2> HIDE DEF b
  <2>2. [sock[k] EXCEPT !.rbuf = b, !.rx = {}] \in Sock
    BY <2>1 DEF Sock
  <2> QED BY <2>1, <2>2 DEF b, Sock
<1> HIDE DEF x
<1>5. SameOwners(s)
  BY <1>1, <1>2, <1>4, UpdateOwners
<1> HIDE DEF s
<1>6. Good(k)
  BY <1>1, <1>2, <1>3, <1>5, StateHandleGood, ShutGood
<1> QED BY <1>1, <1>6, HandledKeeps

LEMMA WriteKeeps ==
    ASSUME IInv, NEW k \in Socks, WriteHandle(k)
    PROVE  IInv'
<1>1. sock[k].alloc /\ Consume(k, "out") /\ Heap /\ LoopOK
  BY DEF WriteHandle, IInv
<1>2. SockForceShutdown(k, sock) \/ \E w \in {{}, sock[k].wbuf} : AfterWrite(k, w)
  BY DEF WriteHandle
<1>3. \A w \in {{}, sock[k].wbuf} : w \in SUBSET Kind
  BY <1>1 DEF Heap, Sock
<1>4. SameOwners(sock)
  BY <1>1, HeapSame
<1>5. Good(k)
  BY <1>1, <1>2, <1>3, <1>4, ForceGood, AfterWriteGood
<1> QED BY <1>1, <1>5, HandledKeeps

\* epoll_wait reports one event of a socket, and only of sockets that are registered.
LEMMA EpollKeeps ==
    ASSUME IInv, EpollWait
    PROVE  IInv'
<1>1. UNCHANGED <<tun, sock, waitList, replies, fault>>
  BY DEF EpollWait
<1>2. \A e \in batch' :
          \E k \in Socks : (e = [src |-> k, ev |-> "in"] /\ InReady(k)) \/ (e = [src |-> k, ev |-> "out"] /\ OutReady(k))
  <2>1. PICK more \in SUBSET MayReport : batch' = MustReport \cup more
    BY DEF EpollWait
  <2>2. \A e \in MustReport :
          \E k \in Socks : (e = [src |-> k, ev |-> "in"] /\ InReady(k)) \/ (e = [src |-> k, ev |-> "out"] /\ OutReady(k))
    BY DEF MustReport
  <2>3. \A e \in MayReport : \E k \in Socks : e = [src |-> k, ev |-> "out"] /\ OutReady(k)
    BY DEF MayReport
  <2> QED BY <2>1, <2>2, <2>3
<1>3. \A k \in Socks : InReady(k) \/ OutReady(k) => sock[k].alloc
  BY DEF IInv, Heap, PrivOK, InReady, OutReady, NoSock
<1>4. \A k \in Socks : ~(InReady(k) /\ OutReady(k))
  BY DEF OutReady
<1>5. batch' \subseteq Event /\ \A e \in batch' : sock[e.src].alloc
  BY <1>2, <1>3 DEF Event
<1>6. \A e, f \in batch' : e.src = f.src => e = f
  <2> TAKE e \in batch', f \in batch'
  <2> HAVE e.src = f.src
  <2>1. PICK k \in Socks : \/ e = [src |-> k, ev |-> "in"] /\ InReady(k)
                           \/ e = [src |-> k, ev |-> "out"] /\ OutReady(k)
    BY <1>2
  <2>2. PICK j \in Socks : \/ f = [src |-> j, ev |-> "in"] /\ InReady(j)
                           \/ f = [src |-> j, ev |-> "out"] /\ OutReady(j)
    BY <1>2
  <2>3. k = j
    BY <2>1, <2>2
  <2> QED BY <2>1, <2>2, <2>3, <1>4
<1>7. BatchOK'
  BY <1>1, <1>5, <1>6 DEF BatchOK
<1>8. Heap'
  <2>1. PrivOK' /\ EndsOK' /\ WaitOK' /\ Tracked'
    BY <1>1 DEF IInv, Heap, PrivOK, EndsOK, WaitOK, Tracked
  <2> QED BY <1>1, <2>1 DEF IInv, Heap
<1> QED BY <1>1, <1>7, <1>8 DEF IInv, LoopOK

\* A peer changes the kernel's side of its connection only.
LEMMA PeerKeeps ==
    ASSUME IInv, NEW k \in Socks, Peer(k), NEW x \in Sock, sock' = [sock EXCEPT ![k] = x],
           x.alloc = sock[k].alloc, x.ispriv = sock[k].ispriv, x.tunnel = sock[k].tunnel,
           replies' \in 0..2
    PROVE  IInv'
<1>1. sock[k].alloc /\ UNCHANGED <<tun, waitList, batch, fault>> /\ Heap
  BY DEF Peer, IInv
<1>2. SameOwners(sock')
  BY <1>1, HeapSame, UpdateOwners
<1>3. Heap'
  BY <1>1, <1>2, KeepKeeps
<1>4. BatchOK'
  BY <1>1, <1>2 DEF IInv, BatchOK, SameOwners, Event
<1> QED BY <1>1, <1>3, <1>4 DEF IInv, LoopOK

LEMMA SendsKeeps ==
    ASSUME IInv, NEW k \in Socks, NEW kind \in Kind, Sends(k, kind), replies' \in 0..2
    PROVE  IInv'
<1> DEFINE b == sock[k].rx \cup {kind}
           x == [sock[k] EXCEPT !.rx = b]
<1>1. sock[k] \in Sock /\ b \in SUBSET Kind
  BY DEF IInv, Heap, Sock
<1>2. Peer(k) /\ sock' = [sock EXCEPT ![k] = x]
  BY DEF Sends, IInv, Heap
<1> HIDE DEF b
<1>3. x \in Sock /\ x.alloc = sock[k].alloc /\ x.ispriv = sock[k].ispriv /\ x.tunnel = sock[k].tunnel
  BY <1>1 DEF Sock
<1> HIDE DEF x
<1> QED BY <1>2, <1>3, PeerKeeps

LEMMA EndsKeeps ==
    ASSUME IInv, NEW k \in Socks, NEW end \in {"fin", "rst"}, Peer(k), UNCHANGED replies,
           sock' = [sock EXCEPT ![k] = [@ EXCEPT !.peer = end]]
    PROVE  IInv'
<1> DEFINE x == [sock[k] EXCEPT !.peer = end]
<1>1. x \in Sock /\ x.alloc = sock[k].alloc /\ x.ispriv = sock[k].ispriv /\ x.tunnel = sock[k].tunnel
  <2>1. sock[k] \in Sock
    BY DEF IInv, Heap
  <2> QED BY <2>1 DEF Sock
<1>2. sock' = [sock EXCEPT ![k] = x] /\ replies' \in 0..2
  BY DEF IInv, Heap, LoopOK
<1> HIDE DEF x
<1> QED BY <1>1, <1>2, PeerKeeps

LEMMA PeersKeep ==
    ASSUME IInv, Peers
    PROVE  IInv'
<1> SUFFICES ASSUME NEW k \in Socks,
                    \/ ServerReplies(k) \/ ServerRequests(k) \/ ServiceAnswers(k)
                    \/ PeerFin(k) \/ PeerReset(k)
             PROVE  IInv'
  BY DEF Peers
<1>1. CASE ServerReplies(k)
  <2>1. Sends(k, "handshake") /\ "handshake" \in Kind
    BY <1>1 DEF ServerReplies, Kind
  <2>2. replies' \in 0..2
    BY <1>1 DEF ServerReplies
  <2> QED BY <2>1, <2>2, SendsKeeps
<1>2. CASE ServerRequests(k)
  BY <1>2, SendsKeeps DEF ServerRequests, Kind, IInv, LoopOK
<1>3. CASE ServiceAnswers(k)
  BY <1>3, SendsKeeps DEF ServiceAnswers, Kind, IInv, LoopOK
<1>4. CASE PeerFin(k)
  BY <1>4, EndsKeeps DEF PeerFin
<1>5. CASE PeerReset(k)
  BY <1>5, EndsKeeps DEF PeerReset
<1> QED BY <1>1, <1>2, <1>3, <1>4, <1>5

----------------------------------------------------------------------------
LEMMA InitIInv == Init => IInv
<1> SUFFICES ASSUME Init PROVE IInv
  OBVIOUS
<1> DEFINE m == [NoSock EXCEPT !.alloc = TRUE, !.ispriv = TRUE, !.wbuf = {"handshake"},
                               !.mask = {"in", "out"}]
           t == [ZeroTunnel EXCEPT !.priv = Media]
<1>1. /\ tun = [r \in Tunnels |-> IF r = 0 THEN t ELSE ZeroTunnel]
      /\ sock = [k \in Socks |-> IF k = Media THEN m ELSE NoSock]
      /\ waitList = <<>> /\ batch = {} /\ replies = 2 /\ fault = "none"
  BY DEF Init
<1>2. m \in Sock /\ m.alloc /\ m.ispriv /\ m.tunnel = 0
  BY ZeroTunnelIn DEF NoSock, Sock, Kind
<1>3. /\ ZeroTunnel \in Tunnel /\ t \in Tunnel /\ t.priv = Media
      /\ t.remote = NULL /\ t.state = "open_state" /\ ZeroTunnel.priv = NULL /\ ZeroTunnel.remote = NULL
  BY DEF ZeroTunnel, Tunnel, TunnelState, Status
<1> HIDE DEF m, t
<1>4. tun \in [Tunnels -> Tunnel] /\ sock \in [Socks -> Sock]
  BY <1>1, <1>2, <1>3, NoSockType
<1>5. tun[0] = t /\ \A r \in Tunnels : tun[r].remote = NULL /\ (r # 0 => tun[r].priv = NULL)
  BY <1>1, <1>3, ZeroTunnelIn
<1>6. ~NoSock.alloc
  BY DEF NoSock
<1>7. PrivOK
  BY <1>1, <1>2, <1>3, <1>5, <1>6 DEF PrivOK
<1>8. EndsOK /\ WaitOK
  BY <1>1, <1>3, <1>5, ZeroTunnelIn DEF EndsOK, WaitOK
<1>9. Tracked
  BY <1>1, <1>2, <1>6 DEF Tracked
<1>10. BatchOK /\ LoopOK
  BY <1>1 DEF BatchOK, LoopOK
<1> QED BY <1>4, <1>7, <1>8, <1>9, <1>10 DEF IInv, Heap

LEMMA NextIInv == IInv /\ [Next]_vars => IInv'
<1> SUFFICES ASSUME IInv, [Next]_vars PROVE IInv'
  OBVIOUS
<1>1. CASE EpollWait
  BY <1>1, EpollKeeps
<1>2. CASE \E k \in Socks : ReadHandle(k) \/ WriteHandle(k)
  BY <1>2, ReadKeeps, WriteKeeps
<1>3. CASE Peers
  BY <1>3, PeersKeep
<1>4. CASE UNCHANGED vars
  <2>1. UNCHANGED <<tun, sock, waitList, batch, replies, fault>>
    BY <1>4 DEF vars
  <2>2. PrivOK' /\ EndsOK' /\ WaitOK' /\ Tracked' /\ BatchOK' /\ LoopOK'
    BY <2>1 DEF IInv, Heap, PrivOK, EndsOK, WaitOK, Tracked, BatchOK, LoopOK
  <2> QED BY <2>1, <2>2 DEF IInv, Heap
<1> QED BY <1>1, <1>2, <1>3, <1>4 DEF Next, Loop

LEMMA SpecIInv == Spec => []IInv
  BY InitIInv, NextIInv, PTL DEF Spec

\* The variables keep their types; no handler dereferences anything else than it models.
THEOREM TypeCorrect == Spec => []TypeOK
<1>1. IInv => TypeOK
  <2> SUFFICES ASSUME IInv PROVE TypeOK
    OBVIOUS
  <2>1. waitList \in Seq(Entries)
    <3>1. waitList = <<>> \/ (1 \in Entries /\ waitList = <<1>>)
      BY DEF IInv, Heap, WaitOK
    <3>2. <<>> \in Seq(Entries) /\ (1 \in Entries => <<1>> \in Seq(Entries))
      OBVIOUS
    <3> QED BY <3>1, <3>2
  <2> QED BY <2>1 DEF IInv, Heap, BatchOK, LoopOK, TypeOK
<1> QED BY <1>1, SpecIInv, PTL

\* No handler of a round frees a socket another event of the round is for.
THEOREM NoStale == Spec => []NoStaleEvent
<1>1. IInv => NoStaleEvent
  BY DEF IInv, BatchOK, NoStaleEvent
<1> QED BY <1>1, SpecIInv, PTL

\* A service socket is held by tunnel 0 or by the wait entry, and by one of them only.
THEOREM Holders == Spec => []ServiceTracked
<1>1. IInv => ServiceTracked
  <2> SUFFICES ASSUME IInv, NEW k \in Services
               PROVE  LET holders == {w \in Entries : tun[w].remote = k}
                      IN  IF tun[0].remote = k THEN holders = {}
                          ELSE \E w \in Entries : holders = {w} /\ tun[w].status = "tmptun_is_alive"
    BY DEF ServiceTracked
  <2> DEFINE holders == {w \in Entries : tun[w].remote = k}
  <2>1. Heap /\ k \in Socks /\ k # NULL
    BY DEF Services, IInv
  <2>2. CASE tun[0].remote = k
    <3>1. holders = {}
      BY <2>1, <2>2, OneHolder, ZeroTunnelIn
    <3> QED BY <2>2, <3>1
  <2>3. CASE tun[0].remote # k
    <3>1. PICK w \in Tunnels : tun[w].remote = k
      BY <2>1 DEF Heap, Tracked, Services
    <3>2. w \in Entries
      BY <2>3, <3>1 DEF Tunnels, Entries
    <3>3. holders = {w}
      BY <2>1, <3>1, <3>2, OneHolder, ZeroTunnelIn
    <3>4. waitList = <<w>>
      BY <2>1, <3>1, <3>2 DEF Heap, EndsOK
    <3>5. waitList # <<>> /\ waitList[1] = w
      BY <3>4
    <3>6. w = 1 /\ tun[w].status = "tmptun_is_alive"
      BY <2>1, <3>1, <3>5 DEF Heap, WaitOK
    <3> QED BY <2>3, <3>2, <3>3, <3>6
  <2> QED BY <2>2, <2>3
<1> QED BY <1>1, SpecIInv, PTL

\* One service connection at most, and one wait entry, whatever the traffic.
THEOREM NoLeak == Spec => []OneService
<1>1. IInv => OneService
  <2> SUFFICES ASSUME IInv PROVE OneService
    OBVIOUS
  <2>1. Len(waitList) <= 1
    <3>1. waitList = <<>> \/ waitList = <<1>>
      BY DEF IInv, Heap, WaitOK
    <3>2. Len(<<>>) = 0 /\ Len(<<1>>) = 1
      OBVIOUS
    <3>3. 0 <= 1 /\ 1 <= 1
      OBVIOUS
    <3> QED BY <3>1, <3>2, <3>3, Zenon
  <2>2. \A k, j \in Services : k = j
    <3> SUFFICES ASSUME NEW k \in Services, NEW j \in Services PROVE k = j
      OBVIOUS
    <3>1. Heap /\ k \in Socks /\ j \in Socks /\ k # NULL /\ j # NULL
      BY DEF Services, IInv
    <3>2. PICK r \in Tunnels : tun[r].remote = k
      BY <3>1 DEF Heap, Tracked, Services
    <3>3. PICK q \in Tunnels : tun[q].remote = j
      BY <3>1 DEF Heap, Tracked, Services
    <3> QED BY <3>1, <3>2, <3>3, OneHolder
  <2>3. CASE Services = {}
    BY <2>1, <2>3, FS_EmptySet DEF OneService
  <2>4. CASE Services # {}
    <3>1. PICK k \in Services : TRUE
      BY <2>4
    <3>2. Services = {k}
      BY <2>2, <3>1
    <3>3. Cardinality(Services) = 1
      BY <3>2, FS_Singleton
    <3> QED BY <2>1, <3>3 DEF OneService
  <2> QED BY <2>3, <2>4
<1> QED BY <1>1, SpecIInv, PTL

----------------------------------------------------------------------------
(* What is relayed.  s stands for the sockets, t for tunnel 0.             *)

NoRequest(s) == \A j \in Socks : s[j].alloc /\ ~s[j].ispriv => "request" \notin s[j].rbuf \cup s[j].rx

FlowAt(j, s, t) ==
    /\ s[j].alloc /\ s[j].ispriv /\ t.state = "connected_state" /\ s[j].rbuf # {} => t.remote = NULL
    /\ s[j].alloc /\ ~s[j].ispriv /\ s[j].tunnel = 0 /\ t.priv # NULL => s[j].rbuf = {}

Relay == NoRequest(sock) /\ \A j \in Socks : FlowAt(j, sock, tun[0])

\* The sockets as a handler of k's event finds them: k may have just been read.
Seen(k, s) == /\ SameOwners(s) /\ NoRequest(s)
              /\ \A j \in Socks \ {k} : FlowAt(j, s, tun[0])
              /\ \A j \in Socks : s[j].wbuf \subseteq sock[j].wbuf

\* What the handler has to leave.
Echo == \A j \in Socks : sock[j].ispriv /\ "request" \in sock'[j].wbuf \ sock[j].wbuf
                           => tun[0].remote = NULL /\ sock[j].peer # "open"
Flow == Relay' /\ Echo

\* A tunnel that loses ends asks for less.
LEMMA FlowWeaker ==
    ASSUME NEW j, NEW s, NEW t, NEW u, FlowAt(j, s, t), u.state = t.state,
           u.remote \in {NULL, t.remote}, u.priv \in {NULL, t.priv}
    PROVE  FlowAt(j, s, u)
  BY DEF FlowAt

\* u has the bytes to be relayed, and the owners, that s has.
SameBytes(u, s) == \A j \in Socks : /\ u[j].alloc = s[j].alloc /\ u[j].ispriv = s[j].ispriv
                                    /\ u[j].tunnel = s[j].tunnel
                                    /\ u[j].rbuf = s[j].rbuf /\ u[j].rx = s[j].rx

LEMMA QuietFlow ==
    ASSUME NEW k \in Socks, NEW s, Seen(k, s), FlowAt(k, s, tun[0]), SameBytes(sock', s),
           \A j \in Socks : sock'[j].wbuf \subseteq sock[j].wbuf,
           tun'[0] = tun[0]
    PROVE  Flow
  BY DEF Seen, SameBytes, Flow, FlowAt, Relay, Echo, NoRequest

LEMMA CrashFlow ==
    ASSUME Heap, Relay, Crash("null") \/ Crash("freed")
    PROVE  Flow
  BY DEF Crash, Flow, Relay, NoRequest, FlowAt, Echo

LEMMA SameSeen == ASSUME Heap, Relay, NEW k PROVE Seen(k, sock) /\ SameBytes(sock, sock)
  BY HeapSame DEF Seen, Relay, SameBytes

\* The socket of the event is released; what is appended elsewhere is accounted for.
LEMMA ReleaseFlow ==
    ASSUME Heap, NEW k \in Socks, NEW s, Seen(k, s), NEW h, SameOwners(h), SameBytes(h, s),
           sock' = [h EXCEPT ![k] = NoSock],
           \A j \in Socks \ {k} : sock[j].ispriv /\ "request" \in h[j].wbuf \ sock[j].wbuf
                                    => tun[0].remote = NULL /\ sock[j].peer # "open",
           tun'[0].state = tun[0].state, tun'[0].remote \in {NULL, tun[0].remote},
           tun'[0].priv \in {NULL, tun[0].priv}
    PROVE  Flow
<1>1. sock'[k] = NoSock /\ \A j \in Socks \ {k} : sock'[j] = h[j]
  BY DEF SameOwners
<1>2. ~NoSock.alloc /\ NoSock.wbuf = {}
  BY DEF NoSock
<1>3. \A j \in Socks : FlowAt(j, sock', tun'[0])
  <2> TAKE j \in Socks
  <2>1. CASE j = k
    BY <2>1, <1>1, <1>2 DEF FlowAt
  <2>2. CASE j # k
    <3>1. FlowAt(j, s, tun'[0])
      BY <2>2, FlowWeaker DEF Seen
    <3> QED BY <3>1, <2>2, <1>1 DEF FlowAt, SameBytes
  <2> QED BY <2>1, <2>2
<1>4. NoRequest(sock')
  BY <1>1, <1>2 DEF NoRequest, Seen, SameBytes
<1>5. Echo
  BY <1>1, <1>2 DEF Echo
<1> QED BY <1>3, <1>4, <1>5 DEF Flow, Relay

LEMMA ForceFlow ==
    ASSUME Heap, NEW k \in Socks, sock[k].alloc, NEW s, Seen(k, s), SockForceShutdown(k, s)
    PROVE  Flow
<1> DEFINE r == sock[k].tunnel
<1>1. r \in Tunnels /\ sock[k].ispriv \in BOOLEAN /\ tun[r] \in Tunnel
  BY DEF Heap, Sock
<1>2. tun' = [tun EXCEPT ![r] = ReleasedT(tun[r], sock[k].ispriv)] /\ sock' = [s EXCEPT ![k] = NoSock]
  BY <1>1 DEF SockForceShutdown, Seen, SameOwners
<1>3. /\ tun'[0].state = tun[0].state /\ tun'[0].remote \in {NULL, tun[0].remote}
      /\ tun'[0].priv \in {NULL, tun[0].priv}
  BY <1>1, <1>2, ReleasedType, ZeroTunnelIn DEF Heap
<1>4. SameBytes(s, s) /\ SameOwners(s)
  BY DEF SameBytes, Seen
<1>5. \A j \in Socks \ {k} : "request" \notin s[j].wbuf \ sock[j].wbuf
  BY DEF Seen
<1> QED BY <1>2, <1>3, <1>4, <1>5, ReleaseFlow

\* buff_concat of k's bytes: nothing but wbuf of one socket changes.
LEMMA LeftBytes ==
    ASSUME Heap, NEW k \in Socks, sock[k].alloc, NEW s, SameOwners(s), ~Freed(LeftTo(k, s), s)
    PROVE  /\ SameBytes(WithLeft(k, s), s)
           /\ \A j \in Socks : /\ WithLeft(k, s)[j].peer = s[j].peer
                               /\ WithLeft(k, s)[j].wbuf = IF j = LeftTo(k, s) THEN s[j].wbuf \cup s[k].rbuf
                                                           ELSE s[j].wbuf
<1> DEFINE to == LeftTo(k, s)
           x == [s[k] EXCEPT !.half = TRUE]
           h == [s EXCEPT ![k] = x]
           y == [h[to] EXCEPT !.wbuf = h[to].wbuf \cup s[k].rbuf]
           g == [h EXCEPT ![to] = y]
<1>1. s \in [Socks -> Sock] /\ s[k].tunnel \in Tunnels /\ s[k] \in Sock
  BY DEF Heap, SameOwners, Sock
<1>2. to \in Socks \cup {NULL}
  BY <1>1 DEF LeftTo, Heap, Tunnel
<1>3. /\ x \in Sock /\ x.alloc = s[k].alloc /\ x.ispriv = s[k].ispriv /\ x.tunnel = s[k].tunnel
      /\ x.rbuf = s[k].rbuf /\ x.rx = s[k].rx /\ x.wbuf = s[k].wbuf /\ x.peer = s[k].peer
  BY <1>1 DEF Sock
<1>4. WithLeft(k, s) = IF to = NULL THEN h ELSE g
  BY <1>1, <1>2 DEF WithLeft
<1> HIDE DEF to, x
<1>5. h \in [Socks -> Sock] /\ h[k] = x /\ \A j \in Socks \ {k} : h[j] = s[j]
  BY <1>1, <1>3
<1> HIDE DEF h
<1>6. SameBytes(h, s) /\ \A j \in Socks : h[j].wbuf = s[j].wbuf /\ h[j].peer = s[j].peer
  BY <1>3, <1>5 DEF SameBytes
<1>7. CASE to = NULL
  BY <1>2, <1>4, <1>6, <1>7 DEF to
<1>8. CASE to # NULL
  <2>1. to \in Socks /\ h[to] \in Sock
    BY <1>2, <1>5, <1>8
  <2> DEFINE w == h[to].wbuf \cup s[k].rbuf
  <2>2. /\ y.alloc = h[to].alloc /\ y.ispriv = h[to].ispriv /\ y.tunnel = h[to].tunnel
        /\ y.rbuf = h[to].rbuf /\ y.rx = h[to].rx /\ y.peer = h[to].peer /\ y.wbuf = w
    <3> HIDE DEF w
    <3>1. y = [h[to] EXCEPT !.wbuf = w]
      BY DEF w
    <3> QED BY <2>1, <3>1 DEF Sock
  <2>3. w = s[to].wbuf \cup s[k].rbuf
    BY <1>6, <2>1
  <2> HIDE DEF y, w
  <2>4. g[to] = y /\ \A j \in Socks \ {to} : g[j] = h[j]
    BY <1>5, <2>1
  <2> HIDE DEF g
  <2>5. SameBytes(g, s) /\ \A j \in Socks : /\ g[j].peer = s[j].peer
                                            /\ g[j].wbuf = IF j = to THEN s[j].wbuf \cup s[k].rbuf ELSE s[j].wbuf
    <3>1. \A j \in Socks : /\ g[j].alloc = s[j].alloc /\ g[j].ispriv = s[j].ispriv
                          /\ g[j].tunnel = s[j].tunnel /\ g[j].rbuf = s[j].rbuf
                          /\ g[j].rx = s[j].rx /\ g[j].peer = s[j].peer
      BY <1>6, <2>1, <2>2, <2>4 DEF SameBytes
    <3>2. g[to].wbuf = s[to].wbuf \cup s[k].rbuf
      BY <2>2, <2>3, <2>4, Zenon
    <3>3. \A j \in Socks \ {to} : g[j].wbuf = s[j].wbuf
      BY <1>6, <2>4
    <3> QED BY <3>1, <3>2, <3>3 DEF SameBytes
  <2> QED BY <1>4, <1>8, <2>5 DEF to
<1> QED BY <1>7, <1>8

\* Bytes that go back to the server when its connection or the service's is closed.
LEMMA LeftEcho ==
    ASSUME Heap, Relay, NEW k \in Socks, sock[k].alloc, sock[k].peer # "open", ~Freed(LeftTo(k, sock), sock)
    PROVE  \A j \in Socks : sock[j].ispriv /\ "request" \in WithLeft(k, sock)[j].wbuf \ sock[j].wbuf
                              => tun[0].remote = NULL /\ sock[j].peer # "open"
<1> SUFFICES ASSUME NEW j \in Socks, sock[j].ispriv,
                    "request" \in WithLeft(k, sock)[j].wbuf \ sock[j].wbuf
             PROVE  tun[0].remote = NULL /\ sock[j].peer # "open"
  OBVIOUS
<1>1. j = LeftTo(k, sock) /\ "request" \in sock[k].rbuf
  <2>1. SameOwners(sock)
    BY HeapSame
  <2>2. WithLeft(k, sock)[j].wbuf = IF j = LeftTo(k, sock) THEN sock[j].wbuf \cup sock[k].rbuf
                                    ELSE sock[j].wbuf
    BY <2>1, LeftBytes
  <2> QED BY <2>2
<1>2. sock[k].ispriv
  BY <1>1 DEF Relay, NoRequest
<1>3. sock[k].tunnel = 0 /\ tun[0].priv = k
  BY <1>2 DEF Heap, PrivOK
<1>4. j = IF tun[0].remote # NULL THEN tun[0].remote ELSE k
  BY <1>1, <1>2, <1>3 DEF LeftTo
<1>5. tun[0].remote # NULL => ~sock[tun[0].remote].ispriv
  BY ZeroTunnelIn DEF Heap, EndsOK
<1> QED BY <1>4, <1>5

LEMMA ShutFlow ==
    ASSUME Heap, Relay, NEW k \in Socks, sock[k].alloc, sock[k].peer # "open", SockShutdown(k, sock)
    PROVE  Flow
<1> DEFINE to == LeftTo(k, sock)
           h == WithLeft(k, sock)
           r == sock[k].tunnel
<1>1. Seen(k, sock) /\ SameOwners(sock) /\ r \in Tunnels
  BY SameSeen, HeapSame DEF Heap, Sock
<1>2. CASE Crash("freed")
  BY <1>2, CrashFlow
<1>3. ASSUME ~Freed(to, sock)
      PROVE  /\ SameOwners(h) /\ SameBytes(h, sock)
             /\ \A j \in Socks : sock[j].ispriv /\ "request" \in h[j].wbuf \ sock[j].wbuf
                                   => tun[0].remote = NULL /\ sock[j].peer # "open"
  BY <1>1, <1>3, LeftOwners, LeftBytes, LeftEcho
<1> HIDE DEF to, h
<1>4. CASE ~Freed(to, sock) /\ sock' = [h EXCEPT ![k] = [@ EXCEPT !.mask = {"out"}]] /\ Keep
  <2> DEFINE x == [h[k] EXCEPT !.mask = {"out"}]
  <2>1. h \in [Socks -> Sock] /\ h[k] \in Sock
    BY <1>3, <1>4 DEF SameOwners
  <2>2. /\ x.alloc = h[k].alloc /\ x.ispriv = h[k].ispriv /\ x.tunnel = h[k].tunnel
        /\ x.rbuf = h[k].rbuf /\ x.rx = h[k].rx /\ x.wbuf = h[k].wbuf
    BY <2>1 DEF Sock
  <2>3. sock' = [h EXCEPT ![k] = x]
    BY <1>4, <2>1
  <2> HIDE DEF x
  <2>4. SameBytes(sock', sock) /\ \A j \in Socks : sock'[j].wbuf = h[j].wbuf
    BY <1>3, <1>4, <2>1, <2>2, <2>3 DEF SameBytes
  <2>5. tun' = tun
    BY <1>4 DEF Keep
  <2>6. Relay'
    BY <2>4, <2>5 DEF Relay, NoRequest, FlowAt, SameBytes
  <2>7. Echo
    BY <1>3, <1>4, <2>4 DEF Echo
  <2> QED BY <2>6, <2>7 DEF Flow
<1>5. CASE /\ ~Freed(to, sock) /\ sock' = [h EXCEPT ![k] = NoSock]
           /\ tun' = [tun EXCEPT ![r] = ShutT(@, k, sock[k].ispriv)]
  <2> DEFINE t == ShutT(tun[r], k, sock[k].ispriv)
  <2>1. /\ t.state = tun[r].state
        /\ t.priv = IF sock[k].ispriv THEN NULL ELSE tun[r].priv
        /\ t.remote = IF sock[k].ispriv THEN tun[r].remote ELSE NULL
    BY ShutType
  <2>2. tun' = [tun EXCEPT ![r] = t] /\ tun \in [Tunnels -> Tunnel]
    BY <1>1, <1>5 DEF Heap
  <2> HIDE DEF t
  <2>3. /\ tun'[0].state = tun[0].state /\ tun'[0].remote \in {NULL, tun[0].remote}
        /\ tun'[0].priv \in {NULL, tun[0].priv}
    BY <1>1, <2>1, <2>2, ZeroTunnelIn
  <2> QED BY <1>1, <1>3, <1>5, <2>3, ReleaseFlow
<1> QED BY <1>2, <1>4, <1>5 DEF SockShutdown, to, h

\* buff_concat, buff_clear: what each buffer holds afterwards.
LEMMA MovedBytes ==
    ASSUME NEW s \in [Socks -> Sock], NEW from \in Socks, NEW to \in Socks
    PROVE  /\ Moved(s, from, to)[to].wbuf = s[to].wbuf \cup s[from].rbuf
           /\ \A j \in Socks \ {to} : Moved(s, from, to)[j].wbuf = s[j].wbuf
           /\ \A j \in Socks :
             /\ Moved(s, from, to)[j].alloc = s[j].alloc
             /\ Moved(s, from, to)[j].ispriv = s[j].ispriv
             /\ Moved(s, from, to)[j].tunnel = s[j].tunnel
             /\ Moved(s, from, to)[j].rbuf = IF j = from THEN {} ELSE s[j].rbuf
             /\ Moved(s, from, to)[j].rx = s[j].rx
<1> DEFINE w == s[to].wbuf \cup s[from].rbuf
           x == [s[to] EXCEPT !.wbuf = w, !.mask = {"in", "out"}]
           s1 == [s EXCEPT ![to] = x]
           y == [s1[from] EXCEPT !.rbuf = {}]
           s2 == [s1 EXCEPT ![from] = y]
<1>1. Moved(s, from, to) = IF s[from].rbuf = {} THEN s ELSE s2
  BY DEF Moved
<1>2. s[to] \in Sock /\ s[from] \in Sock /\ w \in SUBSET Kind
  BY DEF Sock
<1>3. s[from].rbuf = {} => w = s[to].wbuf
  OBVIOUS
<1> HIDE DEF w
<1>4. /\ x.alloc = s[to].alloc /\ x.ispriv = s[to].ispriv /\ x.tunnel = s[to].tunnel
      /\ x.rbuf = s[to].rbuf /\ x.rx = s[to].rx /\ x.wbuf = w
      /\ x \in Sock
  <2>1. {"in", "out"} \in SUBSET {"in", "out"}
    OBVIOUS
  <2> QED BY <1>2, <2>1 DEF Sock
<1> HIDE DEF x
<1>5. s1 \in [Socks -> Sock] /\ s1[to] = x /\ \A j \in Socks \ {to} : s1[j] = s[j]
  BY <1>4
<1> HIDE DEF s1
<1>6. /\ y.alloc = s1[from].alloc /\ y.ispriv = s1[from].ispriv /\ y.tunnel = s1[from].tunnel
      /\ y.rbuf = {} /\ y.rx = s1[from].rx /\ y.wbuf = s1[from].wbuf
  <2>1. s1[from] \in Sock
    BY <1>5
  <2> QED BY <2>1 DEF Sock
<1> HIDE DEF y
<1>7. s2[from] = y /\ \A j \in Socks \ {from} : s2[j] = s1[j]
  BY <1>5
<1> HIDE DEF s2
<1>8. \A j \in Socks : /\ s2[j].alloc = s[j].alloc /\ s2[j].ispriv = s[j].ispriv /\ s2[j].tunnel = s[j].tunnel
                       /\ s2[j].rbuf = IF j = from THEN {} ELSE s[j].rbuf
                       /\ s2[j].rx = s[j].rx
                       /\ s2[j].wbuf = IF j = to THEN w ELSE s[j].wbuf
  <2> TAKE j \in Socks
  <2>1. /\ s1[j].alloc = s[j].alloc /\ s1[j].ispriv = s[j].ispriv /\ s1[j].tunnel = s[j].tunnel
        /\ s1[j].rbuf = s[j].rbuf /\ s1[j].rx = s[j].rx
        /\ s1[j].wbuf = IF j = to THEN w ELSE s[j].wbuf
    BY <1>4, <1>5
  <2> QED BY <1>6, <1>7, <2>1
<1>9. CASE s[from].rbuf = {}
  BY <1>1, <1>3, <1>9 DEF w
<1>10. CASE s[from].rbuf # {}
  BY <1>1, <1>8, <1>10 DEF w
<1> QED BY <1>9, <1>10

\* Bytes are moved from a socket that keeps none to one that may have them.
LEMMA MoveFlow ==
    ASSUME NEW u \in [Socks -> Sock], NEW from \in Socks, NEW to \in Socks,
           sock' = Moved(u, from, to),
           NoRequest(u), \A j \in Socks \ {from} : FlowAt(j, u, tun'[0]),
           \A j \in Socks : sock[j].ispriv => u[j].wbuf \subseteq sock[j].wbuf,
           sock[to].ispriv => "request" \notin u[from].rbuf
    PROVE  Flow
<1>0. \A j \in Socks : /\ sock'[j].alloc = u[j].alloc /\ sock'[j].ispriv = u[j].ispriv
                       /\ sock'[j].tunnel = u[j].tunnel
                       /\ sock'[j].rbuf = IF j = from THEN {} ELSE u[j].rbuf
                       /\ sock'[j].rx = u[j].rx
                       /\ sock'[j].wbuf = IF j = to THEN u[j].wbuf \cup u[from].rbuf ELSE u[j].wbuf
  <2> DEFINE m == Moved(u, from, to)
  <2>1. \A j \in Socks : /\ m[j].alloc = u[j].alloc /\ m[j].ispriv = u[j].ispriv
                         /\ m[j].tunnel = u[j].tunnel
                         /\ m[j].rbuf = IF j = from THEN {} ELSE u[j].rbuf
                         /\ m[j].rx = u[j].rx
                         /\ m[j].wbuf = IF j = to THEN u[j].wbuf \cup u[from].rbuf ELSE u[j].wbuf
    <3> TAKE j \in Socks
    <3>1. m[j].alloc = u[j].alloc /\ m[j].ispriv = u[j].ispriv /\ m[j].tunnel = u[j].tunnel
      BY MovedBytes
    <3>2. m[j].rbuf = IF j = from THEN {} ELSE u[j].rbuf
      BY MovedBytes
    <3>3. m[j].rx = u[j].rx
      BY MovedBytes
    <3>4. m[to].wbuf = u[to].wbuf \cup u[from].rbuf /\ (j # to => m[j].wbuf = u[j].wbuf)
      BY MovedBytes
    <3> QED BY <3>1, <3>2, <3>3, <3>4
  <2>2. sock' = m
    OBVIOUS
  <2> HIDE DEF m
  <2> QED BY <2>1, <2>2, ZenonT(30)
<1>1. NoRequest(sock')
  BY <1>0 DEF NoRequest
<1>2. \A j \in Socks : FlowAt(j, sock', tun'[0])
  <2> TAKE j \in Socks
  <2>1. CASE j = from
    BY <2>1, <1>0 DEF FlowAt
  <2>2. CASE j # from
    <3>1. FlowAt(j, u, tun'[0])
      BY <2>2
    <3>2. sock'[j].rbuf = u[j].rbuf
      BY <2>2, <1>0
    <3> QED BY <3>1, <3>2, <1>0 DEF FlowAt
  <2> QED BY <2>1, <2>2
<1>3. Echo
  BY <1>0 DEF Echo
<1> QED BY <1>1, <1>2, <1>3 DEF Flow, Relay

\* A handshake reply is taken; nothing but handshake bytes is written.
LEMMA HandshakeFlow ==
    ASSUME Heap, NEW k \in Socks, sock[k].alloc, NEW s, Seen(k, s),
           \/ tun[sock[k].tunnel].state = "open_state" /\ OpenHandle(k, s)
           \/ tun[sock[k].tunnel].state = "request_state" /\ RequestHandle(k, s)
    PROVE  Flow
<1>1. sock[k].tunnel = 0 /\ sock[k].ispriv /\ tun[0].state # "connected_state" /\ tun[0].remote = NULL
  <2>1. sock[k].tunnel = 0 /\ sock[k].ispriv /\ tun[0].state # "connected_state"
    BY TunnelOfSock
  <2> QED BY <2>1 DEF Heap, EndsOK
<1>2. s \in [Socks -> Sock] /\ s[k] \in Sock /\ s[k].ispriv /\ SameOwners(s)
  BY <1>1 DEF Seen, SameOwners
<1>3. CASE SockForceShutdown(k, s)
  BY <1>3, ForceFlow
<1>4. ASSUME NEW u \in [Socks -> Sock],
             \A j \in Socks \ {k} : u[j] = s[j], u[k].alloc = s[k].alloc, u[k].ispriv = s[k].ispriv,
             "request" \in u[k].wbuf => "request" \in s[k].wbuf, sock' = u,
             tun'[0].remote = NULL, tun'[0].priv = tun[0].priv
      PROVE  Flow
  <2>1. NoRequest(sock')
    BY <1>2, <1>4 DEF NoRequest, Seen
  <2>2. \A j \in Socks : FlowAt(j, sock', tun'[0])
    <3> TAKE j \in Socks
    <3>1. CASE j = k
      BY <3>1, <1>2, <1>4 DEF FlowAt
    <3>2. CASE j # k
      BY <3>2, <1>4 DEF FlowAt, Seen
    <3> QED BY <3>1, <3>2
  <2>3. Echo
    BY <1>4 DEF Echo, Seen
  <2> QED BY <2>1, <2>2, <2>3 DEF Flow, Relay
<1>5. CASE sock' = s /\ Keep
  BY <1>1, <1>2, <1>4, <1>5 DEF Keep
<1>6. ASSUME tun' = [tun EXCEPT ![0] = [@ EXCEPT !.state = "request_state"]],
             NEW b \in AfterReply(s[k].rbuf),
             sock' = [s EXCEPT ![k] = [@ EXCEPT !.rbuf = b, !.wbuf = s[k].wbuf \cup {"handshake"},
                                                !.mask = {"in", "out"}]]
      PROVE  Flow
  <2> DEFINE w == s[k].wbuf \cup {"handshake"}
             x == [s[k] EXCEPT !.rbuf = b, !.wbuf = w, !.mask = {"in", "out"}]
             u == [s EXCEPT ![k] = x]
  <2>1. w \in SUBSET Kind /\ b \in SUBSET Kind /\ ("request" \in w => "request" \in s[k].wbuf)
    BY <1>2, <1>6, LeftIsBytes DEF Sock, Kind
  <2>2. {"in", "out"} \in SUBSET {"in", "out"}
    OBVIOUS
  <2>3. sock' = u
    BY <1>2, <1>6
  <2> HIDE DEF w
  <2>4. x \in Sock /\ x.alloc = s[k].alloc /\ x.ispriv = s[k].ispriv /\ x.wbuf = w
    BY <1>2, <2>1, <2>2 DEF Sock
  <2> HIDE DEF x
  <2>5. u \in [Socks -> Sock] /\ u[k] = x /\ \A j \in Socks \ {k} : u[j] = s[j]
    BY <1>2, <2>4
  <2> HIDE DEF u
  <2>6. tun'[0].remote = tun[0].remote /\ tun'[0].priv = tun[0].priv
    BY <1>6, ZeroTunnelIn DEF Heap, Tunnel
  <2> QED BY <1>1, <1>4, <2>1, <2>3, <2>4, <2>5, <2>6
<1>7. ASSUME tun' = tun \/ tun' = [tun EXCEPT ![0] = [@ EXCEPT !.state = "connected_state"]],
             NEW b \in SUBSET s[k].rbuf, sock' = [s EXCEPT ![k] = [@ EXCEPT !.rbuf = b]]
      PROVE  Flow
  <2> DEFINE x == [s[k] EXCEPT !.rbuf = b]
             u == [s EXCEPT ![k] = x]
  <2>1. b \in SUBSET Kind
    BY <1>2 DEF Sock
  <2>2. sock' = u
    BY <1>2, <1>7
  <2>3. x \in Sock /\ x.alloc = s[k].alloc /\ x.ispriv = s[k].ispriv /\ x.wbuf = s[k].wbuf
    BY <1>2, <2>1 DEF Sock
  <2> HIDE DEF x
  <2>4. u \in [Socks -> Sock] /\ u[k] = x /\ \A j \in Socks \ {k} : u[j] = s[j]
    BY <1>2, <2>3
  <2> HIDE DEF u
  <2>5. tun'[0].remote = tun[0].remote /\ tun'[0].priv = tun[0].priv
    BY <1>7, ZeroTunnelIn DEF Heap, Tunnel
  <2> QED BY <1>1, <1>4, <2>2, <2>3, <2>4, <2>5
<1>8. CASE OpenHandle(k, s)
  BY <1>8, <1>3, <1>5, <1>6 DEF OpenHandle
<1>9. CASE RequestHandle(k, s)
  <2>1. CASE Keep /\ \E b \in SUBSET s[k].rbuf : sock' = [s EXCEPT ![k] = [@ EXCEPT !.rbuf = b]]
    BY <2>1, <1>7 DEF Keep
  <2>2. CASE /\ tun' = [tun EXCEPT ![0] = [@ EXCEPT !.state = "connected_state"]]
             /\ \E b \in AfterReply(s[k].rbuf) : sock' = [s EXCEPT ![k] = [@ EXCEPT !.rbuf = b]]
    <3>1. PICK b \in AfterReply(s[k].rbuf) : sock' = [s EXCEPT ![k] = [@ EXCEPT !.rbuf = b]]
      BY <2>2
    <3>2. b \in SUBSET s[k].rbuf
      BY LeftIsBytes, Zenon
    <3> QED BY <2>2, <3>1, <3>2, <1>7
  <2> QED BY <1>9, <2>1, <2>2, <1>3 DEF RequestHandle
<1> QED BY <1>8, <1>9

\* The request goes to the service, or stays for want of one.
LEMMA ServiceFlow ==
    ASSUME Heap, Relay, NEW k \in Socks, sock[k].alloc, sock[k].ispriv, NEW s, Seen(k, s),
           tun[0].remote = NULL, Service(k, s)
    PROVE  Flow
<1>1. /\ s \in [Socks -> Sock] /\ SameOwners(s) /\ NoRequest(s)
      /\ \A j \in Socks \ {k} : FlowAt(j, s, tun[0])
      /\ \A j \in Socks : s[j].wbuf \subseteq sock[j].wbuf
  BY DEF Seen, SameOwners
<1>2. \A j \in Socks \ {k} : sock[j].alloc => ~sock[j].ispriv
  BY DEF Heap, PrivOK
<1>3. CASE Crash("null") \/ Crash("freed")
  BY <1>3, CrashFlow
<1>4. CASE sock' = s /\ Keep
  <2>1. FlowAt(k, s, tun[0])
    BY <1>1 DEF FlowAt, SameOwners
  <2>2. SameBytes(sock', s) /\ tun'[0] = tun[0]
    BY <1>4 DEF SameBytes, Keep
  <2> QED BY <1>1, <1>4, <2>1, <2>2, QuietFlow
<1>5. ASSUME NEW w \in Alive, tun[w].remote # NULL,
             tun' = [[tun EXCEPT ![w] = LetGo(@, "tmptun_is_free")]
                       EXCEPT ![0] = Running(@, tun[w].remote)],
             sock' = Moved(s, k, tun[w].remote)
      PROVE  Flow
  <2> DEFINE q == tun[w].remote
  <2>1. w \in Tunnels /\ w # 0
    BY AliveIs, ZeroTunnelIn
  <2>2. q \in Socks /\ ~sock[q].ispriv
    BY <1>5, <2>1 DEF Heap, Tunnel, EndsOK
  <2>3. tun'[0] = Running(tun[0], q) /\ tun[0] \in Tunnel
    BY <1>5, <2>1, ZeroTunnelIn DEF Heap
  <2> HIDE DEF q
  <2>4. tun'[0].priv = tun[0].priv
    BY <2>2, <2>3, RunningType
  <2>5. \A j \in Socks \ {k} : FlowAt(j, s, tun'[0])
    BY <1>1, <1>2, <2>4 DEF FlowAt, SameOwners
  <2> QED BY <1>1, <1>5, <2>2, <2>5, MoveFlow DEF q
<1>6. ASSUME NEW q \in Socks, ~s[q].alloc, tun' = [tun EXCEPT ![0] = Running(@, q)],
             sock' = Moved(NewService(s, q), k, q)
      PROVE  Flow
  <2> DEFINE x == [NoSock EXCEPT !.alloc = TRUE, !.mask = {"in"}]
             n == NewService(s, q)
  <2>1. x \in Sock /\ x.alloc /\ ~x.ispriv /\ x.rbuf = {} /\ x.rx = {} /\ x.wbuf = {}
    BY ZeroTunnelIn DEF NoSock, Sock
  <2>2. n = [s EXCEPT ![q] = x]
    BY DEF NewService
  <2>3. ~sock[q].ispriv
    BY <1>1, <1>6 DEF SameOwners, Heap, PrivOK, NoSock
  <2> HIDE DEF n, x
  <2>4. n \in [Socks -> Sock] /\ n[q] = x /\ \A j \in Socks \ {q} : n[j] = s[j]
    BY <1>1, <2>1, <2>2
  <2>5. NoRequest(n)
    BY <1>1, <2>1, <2>4 DEF NoRequest
  <2>6. tun'[0].priv = tun[0].priv
    BY <1>6, RunningType, ZeroTunnelIn DEF Heap
  <2>7. \A j \in Socks \ {k} : FlowAt(j, n, tun'[0])
    <3> TAKE j \in Socks \ {k}
    <3>1. CASE j = q
      BY <3>1, <2>1, <2>4 DEF FlowAt
    <3>2. CASE j # q
      BY <3>2, <1>1, <1>2, <2>4, <2>6 DEF FlowAt, SameOwners
    <3> QED BY <3>1, <3>2
  <2>8. \A j \in Socks : n[j].wbuf \subseteq sock[j].wbuf
    BY <1>1, <2>1, <2>4
  <2> QED BY <1>6, <2>3, <2>4, <2>5, <2>7, <2>8, MoveFlow DEF n
<1> QED BY <1>3, <1>4, <1>5, <1>6 DEF Service

LEMMA ConnectedFlow ==
    ASSUME Heap, Relay, NEW k \in Socks, sock[k].alloc, NEW s, Seen(k, s),
           tun[sock[k].tunnel].state = "connected_state", TunnelConnected(k, s)
    PROVE  Flow
<1> DEFINE p == tun[0].priv
           q == tun[0].remote
<1>1. /\ s \in [Socks -> Sock] /\ SameOwners(s) /\ NoRequest(s)
      /\ \A j \in Socks \ {k} : FlowAt(j, s, tun[0])
      /\ \A j \in Socks : s[j].wbuf \subseteq sock[j].wbuf
  BY DEF Seen, SameOwners
<1>2. s[k].tunnel = 0 /\ sock[k].tunnel = 0 /\ s[k].alloc /\ s[k].ispriv = sock[k].ispriv
  BY <1>1, TunnelOfSock DEF SameOwners
<1>3. p \in Socks \cup {NULL} /\ q \in Socks \cup {NULL}
  BY ZeroTunnelIn DEF Heap, Tunnel
<1>4. (sock[k].ispriv => p = k) /\ (~sock[k].ispriv => q = k) /\ (q # NULL => ~sock[q].ispriv)
  BY <1>2, ZeroTunnelIn DEF Heap, PrivOK, Tracked, EndsOK
<1>5. \/ s[k].ispriv /\ q = NULL /\ Service(p, s)
      \/ Crash("freed") \/ Crash("null")
      \/ s[k].ispriv /\ q # NULL /\ sock' = Moved(s, p, q) /\ Keep
      \/ ~s[k].ispriv /\ p = NULL /\ sock' = s /\ Keep
      \/ ~s[k].ispriv /\ p # NULL /\ q # NULL /\ ~Freed(q, s) /\ sock' = Moved(s, q, p) /\ Keep
  BY <1>2 DEF TunnelConnected
<1> HIDE DEF p, q
<1>6. CASE s[k].ispriv /\ q = NULL /\ Service(p, s)
  BY <1>2, <1>4, <1>6, ServiceFlow DEF q
<1>7. CASE Crash("freed") \/ Crash("null")
  BY <1>7, CrashFlow
<1>8. CASE s[k].ispriv /\ q # NULL /\ sock' = Moved(s, p, q) /\ Keep
  <2>1. p = k /\ q \in Socks /\ ~sock[q].ispriv /\ tun' = tun
    BY <1>2, <1>3, <1>4, <1>8 DEF Keep
  <2> QED BY <1>1, <1>8, <2>1, MoveFlow
<1>9. CASE ~s[k].ispriv /\ p = NULL /\ sock' = s /\ Keep
  <2>1. FlowAt(k, s, tun[0])
    BY <1>9 DEF FlowAt, p
  <2>2. SameBytes(sock', s) /\ tun'[0] = tun[0]
    BY <1>9 DEF SameBytes, Keep
  <2> QED BY <1>1, <1>9, <2>1, <2>2, QuietFlow
<1>10. CASE ~s[k].ispriv /\ p # NULL /\ q # NULL /\ ~Freed(q, s) /\ sock' = Moved(s, q, p) /\ Keep
  <2>1. q = k /\ p \in Socks /\ tun' = tun /\ "request" \notin s[k].rbuf
    BY <1>1, <1>2, <1>3, <1>4, <1>10 DEF Keep, NoRequest
  <2> QED BY <1>1, <1>10, <2>1, MoveFlow
<1> QED BY <1>5, <1>6, <1>7, <1>8, <1>9, <1>10

LEMMA StateHandleFlow ==
    ASSUME Heap, Relay, NEW k \in Socks, sock[k].alloc, NEW s, Seen(k, s), StateHandle(k, s)
    PROVE  Flow
<1> DEFINE state == tun[sock[k].tunnel].state
<1>1. \/ state = "open_state" /\ OpenHandle(k, s)
      \/ state = "request_state" /\ RequestHandle(k, s)
      \/ state = "connected_state" /\ TunnelConnected(k, s)
      \/ state = "tunnel_waitting" /\ sock' = s /\ Keep
  BY DEF StateHandle, Seen, SameOwners
<1>2. CASE state = "tunnel_waitting" /\ sock' = s /\ Keep
  <2>1. sock[k].tunnel # 0 /\ (sock[k].ispriv => sock[k].tunnel = 0)
    BY <1>2 DEF Heap, EndsOK, PrivOK
  <2>2. FlowAt(k, s, tun[0])
    BY <2>1 DEF FlowAt, Seen, SameOwners
  <2>3. SameBytes(sock', s) /\ tun'[0] = tun[0] /\ \A j \in Socks : sock'[j].wbuf \subseteq sock[j].wbuf
    BY <1>2 DEF SameBytes, Keep, Seen
  <2> QED BY <2>2, <2>3, QuietFlow
<1> QED BY <1>1, <1>2, HandshakeFlow, ConnectedFlow

\* An answer left behind is moved, or the service socket is parked.
LEMMA SwitchFlow ==
    ASSUME Heap, Relay, NEW k \in Socks, sock[k].alloc, NEW s, Seen(k, s), FlowAt(k, s, tun[0]),
           TunnelSwitch(k, s)
    PROVE  Flow
<1> DEFINE r == sock[k].tunnel
           q == tun[r].remote
<1>1. /\ s \in [Socks -> Sock] /\ SameOwners(s) /\ NoRequest(s)
      /\ \A j \in Socks : FlowAt(j, s, tun[0])
      /\ \A j \in Socks : s[j].wbuf \subseteq sock[j].wbuf
  BY DEF Seen, SameOwners
<1>2. s[k].tunnel = r /\ r \in Tunnels
  BY <1>1 DEF SameOwners, Heap, Sock
<1>3. q \in Socks \cup {NULL} /\ (q # NULL => ~sock[q].ispriv)
  BY <1>2 DEF Heap, Tunnel, EndsOK
<1>4. CASE sock' = s /\ Keep
  <2>1. SameBytes(sock', s) /\ tun'[0] = tun[0]
    BY <1>4 DEF SameBytes, Keep
  <2> QED BY <1>1, <1>4, <2>1, QuietFlow
<1>5. CASE Crash("freed")
  BY <1>5, CrashFlow
<1>6. CASE k = tun[r].priv /\ q # NULL /\ ~Freed(q, s) /\ sock' = Moved(s, q, k) /\ Keep
  <2>1. q \in Socks /\ "request" \notin s[q].rbuf /\ tun' = tun
    BY <1>1, <1>3, <1>6 DEF Freed, NoRequest, SameOwners, Keep
  <2> HIDE DEF q
  <2> QED BY <1>1, <1>6, <2>1, MoveFlow
<1>7. ASSUME k = tun[r].priv, q # NULL, NEW w \in WaitObj,
             tun' = [[tun EXCEPT ![w] = Parked(@, q)] EXCEPT ![r] = LetGo(@, "tunn_is_idle")],
             sock' = [[s EXCEPT ![q] = [@ EXCEPT !.tunnel = w]] EXCEPT ![k] = [@ EXCEPT !.mask = {"in"}]]
      PROVE  Flow
  <2>1. q \in Socks /\ r = 0
    <3>1. r \notin Entries
      BY <1>7 DEF Heap, EndsOK
    <3>2. r \in 0..MaxWait /\ ~(r \in 1..MaxWait)
      BY <1>2, <3>1, Zenon DEF Tunnels, Entries
    <3> HIDE DEF r
    <3>3. r = 0
      BY ONLY <3>2, WaitAssumption
    <3>4. q \in Socks
      BY ONLY <1>3, <1>7
    <3> QED BY ONLY <3>3, <3>4
  <2>2. w \in Tunnels /\ w # 0
    <3>1. waitList = <<>> \/ tun[1].status = "tmptun_is_free"
      BY <1>7, <2>1 DEF Heap, WaitOK
    <3> QED BY <3>1, WaitObjIs, ZeroTunnelIn
  <2> DEFINE x == [s[q] EXCEPT !.tunnel = w]
             s1 == [s EXCEPT ![q] = x]
             y == [s1[k] EXCEPT !.mask = {"in"}]
  <2>3. /\ x \in Sock /\ x.alloc = s[q].alloc /\ x.ispriv = s[q].ispriv /\ x.tunnel # 0
        /\ x.rbuf = s[q].rbuf /\ x.rx = s[q].rx /\ x.wbuf = s[q].wbuf
    <3>1. s[q] \in Sock
      BY <1>1, <2>1
    <3> QED BY <3>1, <2>2 DEF Sock
  <2>4. sock' = [s1 EXCEPT ![k] = y]
    BY <1>1, <1>7, <2>1
  <2> HIDE DEF x
  <2>5. s1[q] = x /\ s1 \in [Socks -> Sock] /\ \A j \in Socks \ {q} : s1[j] = s[j]
    BY <1>1, <2>1, <2>3
  <2> HIDE DEF s1
  <2>6. /\ y.alloc = s1[k].alloc /\ y.ispriv = s1[k].ispriv /\ y.tunnel = s1[k].tunnel
        /\ y.rbuf = s1[k].rbuf /\ y.rx = s1[k].rx /\ y.wbuf = s1[k].wbuf
    <3>1. s1[k] \in Sock
      BY <2>5
    <3> QED BY <3>1 DEF Sock
  <2> HIDE DEF y
  <2>7. sock'[k] = y /\ \A j \in Socks \ {k} : sock'[j] = s1[j]
    BY <2>4, <2>5
  <2>8. \A j \in Socks : /\ sock'[j].alloc = s[j].alloc /\ sock'[j].ispriv = s[j].ispriv
                         /\ sock'[j].tunnel = s[j].tunnel \/ sock'[j].tunnel # 0
                         /\ sock'[j].rbuf = s[j].rbuf /\ sock'[j].rx = s[j].rx /\ sock'[j].wbuf = s[j].wbuf
    <3> TAKE j \in Socks
    <3>1. /\ s1[j].alloc = s[j].alloc /\ s1[j].ispriv = s[j].ispriv
          /\ s1[j].tunnel = s[j].tunnel \/ s1[j].tunnel # 0
          /\ s1[j].rbuf = s[j].rbuf /\ s1[j].rx = s[j].rx /\ s1[j].wbuf = s[j].wbuf
      BY <2>3, <2>5
    <3>2. CASE j = k
      BY <3>1, <3>2, <2>6, <2>7
    <3>3. CASE j # k
      BY <3>1, <3>3, <2>7
    <3> QED BY <3>2, <3>3
  <2>9. tun'[0].remote = NULL /\ tun'[0].priv = tun[0].priv
    <3>1. tun[0] \in Tunnel /\ "tunn_is_idle" \in Status
      BY ZeroTunnelIn DEF Heap, Status
    <3>2. tun'[0] = LetGo(tun[0], "tunn_is_idle")
      BY <1>7, <2>1, <2>2, ZeroTunnelIn DEF Heap
    <3> QED BY <3>1, <3>2, LetGoType
  <2>10. \A j \in Socks : FlowAt(j, sock', tun'[0])
    BY <1>1, <2>8, <2>9 DEF FlowAt
  <2>11. NoRequest(sock')
    BY <1>1, <2>8 DEF NoRequest
  <2>12. Echo
    BY <1>1, <2>8 DEF Echo
  <2> QED BY <2>10, <2>11, <2>12 DEF Flow, Relay
<1> QED BY <1>2, <1>4, <1>5, <1>6, <1>7 DEF TunnelSwitch

LEMMA ReadFlow ==
    ASSUME IInv, Relay, NEW k \in Socks, ReadHandle(k)
    PROVE  Flow
<1> DEFINE b == sock[k].rbuf \cup sock[k].rx
           x == [sock[k] EXCEPT !.rbuf = b, !.rx = {}]
           s == [sock EXCEPT ![k] = x]
<1>1. sock[k].alloc /\ Heap
  BY DEF ReadHandle, IInv
<1>2. SameOwners(sock) /\ Seen(k, sock) /\ sock[k] \in Sock /\ sock \in [Socks -> Sock]
  BY <1>1, HeapSame, SameSeen DEF Heap
<1>3. \/ StateHandle(k, s)
      \/ StateHandle(k, sock)
      \/ sock[k].peer # "open" /\ SockShutdown(k, sock)
  BY <1>2 DEF ReadHandle
<1>4. b \in SUBSET Kind /\ {} \in SUBSET Kind
  BY <1>2 DEF Sock
<1>5. sock[k].alloc /\ ~sock[k].ispriv => "request" \notin b
  BY DEF Relay, NoRequest
<1> HIDE DEF b
<1>6. /\ x \in Sock /\ x.alloc = sock[k].alloc /\ x.ispriv = sock[k].ispriv /\ x.tunnel = sock[k].tunnel
      /\ x.rbuf = b /\ x.rx = {} /\ x.wbuf = sock[k].wbuf
  BY <1>2, <1>4 DEF Sock
<1> HIDE DEF x
<1>7. SameOwners(s)
  BY <1>1, <1>2, <1>6, UpdateOwners
<1>8. s[k] = x /\ \A j \in Socks \ {k} : s[j] = sock[j]
  BY <1>2
<1> HIDE DEF s
<1>9. NoRequest(s)
  BY <1>5, <1>6, <1>8 DEF NoRequest, Relay
<1>10. (\A j \in Socks \ {k} : FlowAt(j, s, tun[0])) /\ \A j \in Socks : s[j].wbuf \subseteq sock[j].wbuf
  BY <1>6, <1>8 DEF FlowAt, Relay
<1>11. Seen(k, s)
  BY <1>7, <1>9, <1>10 DEF Seen
<1> QED BY <1>1, <1>2, <1>3, <1>11, StateHandleFlow, ShutFlow

LEMMA WriteFlow ==
    ASSUME IInv, Relay, NEW k \in Socks, WriteHandle(k)
    PROVE  Flow
<1>1. sock[k].alloc /\ Heap
  BY DEF WriteHandle, IInv
<1>2. Seen(k, sock) /\ SameOwners(sock) /\ sock[k] \in Sock /\ sock \in [Socks -> Sock]
  BY <1>1, SameSeen, HeapSame DEF Heap
<1>3. SockForceShutdown(k, sock) \/ \E w \in {{}, sock[k].wbuf} : AfterWrite(k, w)
  BY DEF WriteHandle
<1>4. ASSUME NEW w \in {{}, sock[k].wbuf}, AfterWrite(k, w)
      PROVE  Flow
  <2> DEFINE m == IF w # {} THEN {"in", "out"} ELSE {"in"}
             x == [sock[k] EXCEPT !.wbuf = w, !.mask = m]
             s == [sock EXCEPT ![k] = x]
  <2>1. m \in SUBSET {"in", "out"} /\ w \in SUBSET Kind /\ w \subseteq sock[k].wbuf
    BY <1>2 DEF Sock
  <2>2. TunnelSwitch(k, s) \/ (sock' = s /\ Keep)
    BY <1>2, <1>4 DEF AfterWrite
  <2> HIDE DEF m
  <2>3. /\ x \in Sock /\ x.alloc = sock[k].alloc /\ x.ispriv = sock[k].ispriv /\ x.tunnel = sock[k].tunnel
        /\ x.rbuf = sock[k].rbuf /\ x.rx = sock[k].rx /\ x.wbuf = w
    BY <1>2, <2>1 DEF Sock
  <2> HIDE DEF x
  <2>4. SameOwners(s)
    BY <1>1, <1>2, <2>3, UpdateOwners
  <2>5. s[k] = x /\ \A j \in Socks \ {k} : s[j] = sock[j]
    BY <1>2
  <2> HIDE DEF s
  <2>6. NoRequest(s)
    BY <2>3, <2>5 DEF NoRequest, Relay
  <2>7. \A j \in Socks : FlowAt(j, s, tun[0])
    BY <2>3, <2>5 DEF FlowAt, Relay
  <2>8. \A j \in Socks : s[j].wbuf \subseteq sock[j].wbuf
    BY <2>1, <2>3, <2>5
  <2>9. Seen(k, s) /\ SameBytes(s, s)
    BY <2>4, <2>6, <2>7, <2>8 DEF Seen, SameBytes
  <2>10. CASE sock' = s /\ Keep
    <3>1. SameBytes(sock', s) /\ tun'[0] = tun[0]
      BY <2>9, <2>10 DEF Keep
    <3> QED BY <2>7, <2>8, <2>9, <2>10, <3>1, QuietFlow
  <2> QED BY <1>1, <2>2, <2>7, <2>9, <2>10, SwitchFlow
<1> QED BY <1>1, <1>2, <1>3, <1>4, ForceFlow

\* A peer sends requests over the server's connection only.
LEMMA PeersFlow ==
    ASSUME IInv, Relay, Peers
    PROVE  Flow
<1>1. PICK k \in Socks : \/ ServerReplies(k) \/ ServerRequests(k) \/ ServiceAnswers(k)
                         \/ PeerFin(k) \/ PeerReset(k)
  BY DEF Peers
<1>2. sock[k] \in Sock /\ sock \in [Socks -> Sock]
  BY DEF IInv, Heap
<1>3. tun' = tun
  BY <1>1 DEF ServerReplies, ServerRequests, ServiceAnswers, PeerFin, PeerReset, Sends, Peer
<1>4. ASSUME NEW x \in Sock, x.alloc = sock[k].alloc, x.ispriv = sock[k].ispriv,
             x.tunnel = sock[k].tunnel, x.rbuf = sock[k].rbuf, x.wbuf = sock[k].wbuf,
             "request" \in x.rx => "request" \in sock[k].rx \/ sock[k].ispriv,
             sock' = [sock EXCEPT ![k] = x]
      PROVE  Flow
  <2>1. sock'[k] = x /\ \A j \in Socks \ {k} : sock'[j] = sock[j]
    BY <1>2, <1>4
  <2>2. Relay'
    BY <1>3, <1>4, <2>1 DEF Relay, NoRequest, FlowAt
  <2>3. Echo
    BY <1>4, <2>1 DEF Echo
  <2> QED BY <2>2, <2>3 DEF Flow
<1>5. ASSUME NEW kind \in Kind, Sends(k, kind), kind = "request" => sock[k].ispriv
      PROVE  Flow
  <2> DEFINE b == sock[k].rx \cup {kind}
             x == [sock[k] EXCEPT !.rx = b]
  <2>1. b \in SUBSET Kind /\ ("request" \in b => "request" \in sock[k].rx \/ sock[k].ispriv)
    BY <1>2, <1>5 DEF Sock
  <2>2. sock' = [sock EXCEPT ![k] = x]
    BY <1>2, <1>5 DEF Sends
  <2> HIDE DEF b
  <2>3. /\ x \in Sock /\ x.alloc = sock[k].alloc /\ x.ispriv = sock[k].ispriv /\ x.tunnel = sock[k].tunnel
        /\ x.rbuf = sock[k].rbuf /\ x.wbuf = sock[k].wbuf /\ x.rx = b
    BY <1>2, <2>1 DEF Sock
  <2> HIDE DEF x
  <2> QED BY <1>4, <2>1, <2>2, <2>3
<1>6. ASSUME NEW end \in {"fin", "rst"}, sock' = [sock EXCEPT ![k] = [@ EXCEPT !.peer = end]]
      PROVE  Flow
  <2> DEFINE x == [sock[k] EXCEPT !.peer = end]
  <2>1. sock' = [sock EXCEPT ![k] = x]
    BY <1>2, <1>6
  <2>2. /\ x \in Sock /\ x.alloc = sock[k].alloc /\ x.ispriv = sock[k].ispriv /\ x.tunnel = sock[k].tunnel
        /\ x.rbuf = sock[k].rbuf /\ x.wbuf = sock[k].wbuf /\ x.rx = sock[k].rx
    BY <1>2 DEF Sock
  <2> HIDE DEF x
  <2> QED BY <1>4, <2>1, <2>2
<1> QED BY <1>1, <1>5, <1>6
        DEF ServerReplies, ServerRequests, ServiceAnswers, PeerFin, PeerReset, Kind

----------------------------------------------------------------------------
LEMMA InitRelay == Init => Relay
<1> SUFFICES ASSUME Init PROVE Relay
  OBVIOUS
<1> DEFINE m == [NoSock EXCEPT !.alloc = TRUE, !.ispriv = TRUE, !.wbuf = {"handshake"},
                               !.mask = {"in", "out"}]
<1>1. sock = [k \in Socks |-> IF k = Media THEN m ELSE NoSock]
  BY DEF Init
<1>2. m.ispriv /\ m.rbuf = {} /\ ~NoSock.alloc
  BY DEF NoSock
<1> HIDE DEF m
<1>3. \A j \in Socks : sock[j].rbuf = {} \/ ~sock[j].alloc
  BY <1>1, <1>2
<1>4. \A j \in Socks : sock[j].alloc => sock[j].ispriv
  BY <1>1, <1>2
<1> QED BY <1>3, <1>4 DEF Relay, NoRequest, FlowAt

LEMMA NextRelay == IInv /\ Relay /\ [Next]_vars => Flow
<1> SUFFICES ASSUME IInv, Relay, [Next]_vars PROVE Flow
  OBVIOUS
<1>1. CASE EpollWait \/ UNCHANGED vars
  <2>1. tun' = tun /\ sock' = sock
    BY <1>1 DEF EpollWait, vars
  <2> QED BY <2>1 DEF Flow, Relay, Echo, NoRequest, FlowAt
<1>2. CASE \E k \in Socks : ReadHandle(k) \/ WriteHandle(k)
  BY <1>2, ReadFlow, WriteFlow
<1>3. CASE Peers
  BY <1>3, PeersFlow
<1> QED BY <1>1, <1>2, <1>3 DEF Next, Loop

LEMMA SpecRelay == Spec => [](IInv /\ Relay)
<1>1. IInv /\ Relay /\ [Next]_vars => (IInv /\ Relay)'
  BY NextIInv, NextRelay DEF Flow
<1> QED BY <1>1, InitIInv, InitRelay, PTL DEF Spec

\* A request is left in the read buffer for want of a service connection only.
THEOREM Backlog == Spec => []BacklogNeedsService
<1>1. Relay => BacklogNeedsService
  BY DEF Relay, FlowAt, BacklogNeedsService
<1> QED BY <1>1, SpecRelay, PTL

\* A connection dialled for the tunnel keeps nothing in its read buffer.
THEOREM Drained == Spec => []DialledDrained
<1>1. Relay => DialledDrained
  BY DEF Relay, FlowAt, DialledDrained, Services
<1> QED BY <1>1, SpecRelay, PTL

\* Requests are never written back to the server but when it has finished.
THEOREM NoEcho == Spec => EchoHasCause
<1>1. IInv /\ Relay /\ [Next]_vars =>
        [\A k \in Socks : sock[k].ispriv /\ "request" \in sock'[k].wbuf \ sock[k].wbuf
                            => tun[0].remote = NULL /\ sock[k].peer # "open"]_vars
  BY NextRelay DEF Flow, Echo
<1> QED BY <1>1, SpecRelay, PTL DEF Spec, EchoHasCause
=============================================================================
