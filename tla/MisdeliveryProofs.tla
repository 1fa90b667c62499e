-------------------------- MODULE MisdeliveryProofs --------------------------
(***************************************************************************)
(* Whose answers a client is given, for every number of sockets, tunnels,  *)
(* clients, private connections and pieces.  The server relays what a      *)
(* private connection sends to whichever client is bound to its tunnel;    *)
(* what makes this the client that asked is that a tunnel on which         *)
(* somebody has asked is not handed to another client before that one is   *)
(* gone or has been written to.                                            *)
(***************************************************************************)
EXTENDS StreamsProofs

USE SocksAssumption, BoundsAssumption, PiecesAssumption

\* What the server has not relayed yet of what a connection has sent.
Seen(x) == ToSet(x.rbuf) \cup ToSet(x.rx)
\* A piece of c's request is written, or about to be, to the connection of p.
Asks(p, c) == Carries(held, p, c) \/ c \in Asked(p)

\* A connection only answers who has asked.
AnswersAsked == \A p \in Socks : Priv(p) => \A z \in Seen(held[p]) : z.to # 0 => z.to \in Asked(p)
\* Nothing was written to a connection that is still to be made.
GotOpened == \A i \in DOMAIN got : got[i].to <= Opened

\* The tunnel t is in use, and no client but k is bound to it.
TiedTo(t, k) == t.status = "tunn_is_run" /\ t.remote \in {k, NULL}
Unserved(k, c) == Client(k) /\ who[k] = c /\ c \notin served
\* A tunnel on which c has asked is connected, and held for c until c is gone or taken for served.
HeldFor(p, c) ==
    LET t == tun[sock[p].tunnel]
    IN  t.state = "connected_state" /\ \A k \in Socks : Unserved(k, c) => TiedTo(t, k)
Tied == \A p \in Socks, c \in Clients : Priv(p) /\ Asks(p, c) => HeldFor(p, c)

\* A tunnel with a client is in use, unless the client is taken for served.
RunServed == \A r \in Tunnels :
               InApp(r) /\ tun[r].remote # NULL =>
                 tun[r].status = "tunn_is_run" \/ who[tun[r].remote] \in served

\* An event that will be taken for the end of a write, with nothing to write, is for a
\* client that has asked nothing: one whose sock_t is a released one's memory.
NoFalseWrite == \A k \in Socks :
                  Client(k) /\ OutEvent(k) \in batch /\ ~sock[k].wbuf =>
                    ~sock[k].rbuf /\ \A p \in Socks : Priv(p) => ~Asks(p, who[k])

TieOK == AnswersAsked /\ GotOpened /\ Tied /\ RunServed /\ NoFalseWrite
TieInv == fault = "none" => TieOK

----------------------------------------------------------------------------
(* What a read moves.                                                      *)

\* The client of p's tunnel is c, and what it has sent is relayed to p: it has sent it just
\* now to k, or before.
Relays(k, p, c) ==
    LET t == tun[sock[p].tunnel]
    IN  /\ t.state = "connected_state" /\ t.remote \in Socks /\ Client(t.remote) /\ who[t.remote] = c
        /\ t.remote = k \/ held[t.remote].rbuf # <<>>

SeenLess(x, y) == Seen(y) \subseteq Seen(x)
NotLess(x, y) == (x.wbuf # <<>> => y.wbuf # <<>>) /\ (y.rbuf # <<>> => x.rbuf # <<>>)
Flows(h, k) ==
    /\ \A p \in Socks : Priv(p) => SeenLess(held[p], h[p])
    /\ \A p \in Socks, c \in Clients : Priv(p) /\ Carries(h, p, c) => Carries(held, p, c) \/ Relays(k, p, c)
    /\ \A j \in Socks : Client(j) /\ j # k => NotLess(held[j], h[j])

\* The sequence b is given to the client of p's tunnel: the connection of p has sent it.
Given(b, p, q) ==
    /\ p \in Socks /\ q \in Socks /\ Priv(p) /\ Client(q) /\ tun[sock[p].tunnel].remote = q
    /\ b \in Seq(Named(Answers)) /\ HeadOnly(b) /\ ToSet(b) \subseteq Seen(held[p])
    /\ given' = given \o NotedIn(b, p, q)
Gives == given' = given \/ \E b, p, q : Given(b, p, q)

LEMMA JoinParts ==
    ASSUME NEW S, NEW q \in Seq(S), NEW r \in Seq(S)
    PROVE  ToSet(Join(q, r)) \subseteq ToSet(q) \cup ToSet(r)
<1> SUFFICES ASSUME NEW x \in ToSet(Join(q, r))
             PROVE  x \in ToSet(q) \cup ToSet(r)
  OBVIOUS
<1>1. ASSUME NEW a \in Seq(S), x \in ToSet(q \o a)
      PROVE  x \in ToSet(q) \cup ToSet(a)
  <2>1. q \o a \in Seq(S)
    BY ConcatProperties
  <2>2. PICK i \in DOMAIN (q \o a) : (q \o a)[i] = x
    BY <1>1, <2>1, InSet
  <2>3. \/ i \in DOMAIN q /\ q[i] = x
        \/ \E j \in DOMAIN a : a[j] = x
    BY <2>2, ConcatAt
  <2> QED BY <1>1, <2>3, InSet
<1>2. CASE Join(q, r) = q \o r
  BY <1>1, <1>2
<1>3. CASE r # <<>> /\ Join(q, r) = q \o Tail(r) /\ Tail(r) \in Seq(S)
  <2>1. CASE x \in ToSet(q)
    BY <2>1
  <2>2. CASE x \in ToSet(Tail(r))
    <3>1. PICK i \in DOMAIN Tail(r) : Tail(r)[i] = x
      BY <1>3, <2>2, InSet
    <3>2. i + 1 \in DOMAIN r /\ r[i + 1] = x
      <4>1. Len(r) \in Nat /\ DOMAIN r = 1..Len(r) /\ Len(Tail(r)) = Len(r) - 1 /\ DOMAIN Tail(r) = 1..(Len(r) - 1)
        BY <1>3, LenProperties, HeadTailProperties
      <4>2. Tail(r)[i] = r[i + 1]
        BY <1>3, <3>1, <4>1, HeadTailProperties
      <4> QED BY <3>1, <4>1, <4>2
    <3> QED BY <3>2, InSet
  <2> QED BY <1>1, <1>3, <2>1, <2>2
<1>4. \/ Join(q, r) = q \o r
      \/ r # <<>> /\ Join(q, r) = q \o Tail(r) /\ Tail(r) \in Seq(S)
  BY EmptySeq, HeadTailProperties DEF Join
<1> QED BY <1>2, <1>3, <1>4

LEMMA NoneIn ==
    ToSet(<<>>) = {}
  BY DEF ToSet

\* The bytes the kernel holds are appended to the read buffer: nothing else changes.
LEMMA ReadInFlows ==
    ASSUME Holds(held), NEW k \in Socks
    PROVE  /\ \A j \in Socks : SeenLess(held[j], ReadIn(k)[j]) /\ ReadIn(k)[j].wbuf = held[j].wbuf
           /\ \A j \in Socks : j # k => ReadIn(k)[j] = held[j]
           /\ Flows(ReadIn(k), k)
<1> DEFINE x == held[k]
           y == [rx |-> <<>>, rbuf |-> Join(x.rbuf, x.rx), wbuf |-> x.wbuf]
<1>1. x.rbuf \in Seq(Piece) /\ x.rx \in Seq(Piece) /\ DOMAIN held = Socks
  BY DEF Holds, HoldsAt
<1>2. ReadIn(k) = [held EXCEPT ![k] = y]
  BY DEF ReadIn
<1>3. y.rx = <<>> /\ y.rbuf = Join(x.rbuf, x.rx) /\ y.wbuf = x.wbuf
  OBVIOUS
<1> HIDE DEF y
<1>4. ReadIn(k)[k] = y /\ \A j \in Socks : j # k => ReadIn(k)[j] = held[j]
  BY <1>1, <1>2
<1>5. SeenLess(x, y)
  <2>1. ToSet(y.rx) = {}
    BY <1>3, NoneIn
  <2>2. ToSet(y.rbuf) \subseteq ToSet(x.rbuf) \cup ToSet(x.rx)
    BY <1>1, <1>3, JoinParts
  <2> QED BY <2>1, <2>2 DEF SeenLess, Seen
<1>6. \A j \in Socks : SeenLess(held[j], held[j]) /\ NotLess(held[j], held[j])
  BY DEF SeenLess, NotLess
<1>7. \A j \in Socks : SeenLess(held[j], ReadIn(k)[j]) /\ ReadIn(k)[j].wbuf = held[j].wbuf
  BY <1>3, <1>4, <1>5, <1>6
<1>8. Flows(ReadIn(k), k)
  BY <1>4, <1>6, <1>7 DEF Flows, Carries
<1> QED BY <1>4, <1>7, <1>8

Includes(q, c) == \E i \in DOMAIN q : q[i].from = c

LEMMA OneFlows ==
    ASSUME NEW h, DOMAIN h = Socks, NEW k, Flows(h, k), NEW j \in Socks, NEW y,
           Priv(j) => SeenLess(held[j], y) /\ \A c \in Clients : Includes(y.wbuf, c) => Carries(h, j, c) \/ Relays(k, j, c),
           Client(j) /\ j # k => NotLess(held[j], y)
    PROVE  Flows([h EXCEPT ![j] = y], k)
<1> DEFINE h2 == [h EXCEPT ![j] = y]
<1>1. h2[j] = y /\ \A i \in Socks : i # j => h2[i] = h[i]
  OBVIOUS
<1>2. \A c : Carries(h2, j, c) <=> Includes(y.wbuf, c)
  BY <1>1 DEF Carries, Includes
<1> HIDE DEF h2
<1>3. \A i \in Socks : \A c : i # j => (Carries(h2, i, c) <=> Carries(h, i, c))
  BY <1>1 DEF Carries
<1>4. \A p \in Socks : Priv(p) => SeenLess(held[p], h2[p])
  BY <1>1 DEF Flows
<1>5. \A p \in Socks, c \in Clients : Priv(p) /\ Carries(h2, p, c) => Carries(held, p, c) \/ Relays(k, p, c)
  BY <1>2, <1>3 DEF Flows
<1>6. \A i \in Socks : Client(i) /\ i # k => NotLess(held[i], h2[i])
  BY <1>1 DEF Flows
<1> QED BY <1>4, <1>5, <1>6 DEF Flows, h2

LEMMA SeenNext ==
    ASSUME NEW x, NEW y, SeenLess(x, y), NEW z, SeenLess(y, z)
    PROVE  SeenLess(x, z)
  BY DEF SeenLess

\* A handshake handler takes pieces off the read buffer, and answers.
LEMMA ShakeFlows ==
    ASSUME NEW h, Holds(h), NEW k \in Socks, Flows(h, k), NEW p \in Socks, Priv(p),
           NEW some \in BOOLEAN, NEW rest \in Left(h[p].rbuf, some), NEW w \in {h[p].wbuf, <<Anonymous>>}
    PROVE  Flows([h EXCEPT ![p] = [@ EXCEPT !.rbuf = rest, !.wbuf = w]], k)
<1> DEFINE x == h[p]
           y == [x EXCEPT !.rbuf = rest, !.wbuf = w]
<1>1. x \in Buffers /\ DOMAIN h = Socks /\ ~Client(p)
  BY DEF Holds, HoldsAt, Buffers, Priv, Client
<1>2. y.rx = x.rx /\ y.rbuf = rest /\ y.wbuf = w
  BY <1>1 DEF Buffers
<1>3. ToSet(rest) \subseteq ToSet(x.rbuf)
  <2> DEFINE q == x.rbuf
             pre == SubSeq(q, 1, Len(q) - Len(rest))
  <2>1. q \in Seq(Piece) /\ rest \in Left(q, some) /\ some \in BOOLEAN
    BY <1>1 DEF Buffers
  <2> HIDE DEF q
  <2>2. rest \in Seq(Piece) /\ pre \in Seq(Piece) /\ q = pre \o rest
    BY ONLY <2>1, LeftOf DEF pre
  <2> HIDE DEF pre
  <2> SUFFICES ASSUME NEW z \in ToSet(rest)
               PROVE  z \in ToSet(q)
    BY DEF q
  <2>3. PICK i \in DOMAIN rest : rest[i] = z
    BY <2>2, InSet
  <2>4. Len(pre) + i \in DOMAIN q /\ q[Len(pre) + i] = z
    BY <2>2, <2>3, ConcatFrom
  <2> QED BY <2>1, <2>4, InSet
<1> HIDE DEF y
<1>4. SeenLess(held[p], y)
  <2>1. SeenLess(held[p], x)
    BY DEF Flows
  <2>2. SeenLess(x, y)
    BY <1>2, <1>3 DEF SeenLess, Seen
  <2> QED BY <2>1, <2>2, SeenNext
<1>5. \A c \in Clients : Includes(y.wbuf, c) => Carries(h, p, c)
  <2> SUFFICES ASSUME NEW c \in Clients, Includes(w, c)
               PROVE  Carries(h, p, c)
    BY <1>2
  <2>1. w # <<Anonymous>>
    BY OnePiece DEF Includes, Anonymous, Clients
  <2> QED BY <2>1 DEF Includes, Carries
<1>6. Flows([h EXCEPT ![p] = y], k)
  BY <1>1, <1>4, <1>5, OneFlows
<1> QED BY <1>6 DEF y

\* A client's buffers change: its write buffer is not emptied and its read buffer not filled.
LEMMA ClientFlows ==
    ASSUME NEW h, Holds(h), NEW k \in Socks, Flows(h, k), NEW q \in Socks, Client(q),
           NEW b \in {h[q].rbuf, <<>>}, NEW d \in Seq(Piece)
    PROVE  Flows([h EXCEPT ![q] = [@ EXCEPT !.rbuf = b, !.wbuf = Join(h[q].wbuf, d)]], k)
<1> DEFINE x == h[q]
           v == x.wbuf
           w == Join(v, d)
           y == [x EXCEPT !.rbuf = b, !.wbuf = w]
<1>1. x \in Buffers /\ DOMAIN h = Socks /\ ~Priv(q) /\ v \in Seq(Piece)
  BY DEF Holds, HoldsAt, Buffers, Priv, Client
<1> HIDE DEF w
<1>2. y.rbuf = b /\ y.wbuf = w
  BY <1>1 DEF Buffers
<1>3. w = <<>> <=> v = <<>> /\ d = <<>>
  <2> HIDE DEF v
  <2> QED BY <1>1, JoinEmpty DEF w
<1> HIDE DEF y
<1>4. q # k => NotLess(held[q], y)
  BY <1>2, <1>3 DEF Flows, NotLess
<1>5. Flows([h EXCEPT ![q] = y], k)
  BY <1>1, <1>4, OneFlows
<1> QED BY <1>5 DEF y, w

\* What a private connection has sent is relayed to a client.
LEMMA AnswerFlows ==
    ASSUME NEW h, Holds(h), NEW k \in Socks, Flows(h, k), NEW i \in Socks, Priv(i), NEW j \in Socks, Client(j)
    PROVE  Flows(Carried(h, i, j), k)
<1> DEFINE h2 == Carried(h, i, j)
<1>1. /\ h2[j].wbuf = Join(h[j].wbuf, h[i].rbuf) /\ h2[j].rbuf = h[j].rbuf
      /\ h2[i].rbuf = <<>> /\ h2[i].rx = h[i].rx /\ h2[i].wbuf = h[i].wbuf
      /\ \A q \in Socks : q \notin {i, j} => h2[q] = h[q]
  <2>1. i # j
    BY DEF Priv, Client
  <2> QED BY <2>1, CarriedAt
<1>2. h[j].wbuf \in Seq(Piece) /\ h[i].rbuf \in Seq(Piece)
  BY DEF Holds, HoldsAt
<1> HIDE DEF h2
<1>3. h2[j].wbuf = <<>> => h[j].wbuf = <<>>
  <2> DEFINE v == h[j].wbuf
             d == h[i].rbuf
  <2>1. v \in Seq(Piece) /\ d \in Seq(Piece) /\ h2[j].wbuf = Join(v, d)
    BY <1>1, <1>2
  <2> HIDE DEF v, d
  <2>2. Join(v, d) = <<>> => v = <<>>
    BY <2>1, JoinEmpty
  <2> QED BY <2>1, <2>2 DEF v
<1>4. ASSUME NEW p \in Socks, Priv(p)
      PROVE  SeenLess(held[p], h2[p]) /\ h2[p].wbuf = h[p].wbuf
  <2>1. SeenLess(held[p], h[p]) /\ p # j
    BY <1>4 DEF Flows, Priv, Client
  <2>2. CASE p = i
    <3>1. Seen(h2[p]) \subseteq Seen(h[p])
      BY <1>1, <2>2, NoneIn DEF Seen
    <3> QED BY <1>1, <2>1, <2>2, <3>1 DEF SeenLess
  <2>3. CASE p # i
    BY <1>1, <2>1, <2>3
  <2> QED BY <2>2, <2>3
<1>5. ASSUME NEW q \in Socks, Client(q), q # k
      PROVE  NotLess(held[q], h2[q])
  <2>1. NotLess(held[q], h[q]) /\ q # i
    BY <1>5 DEF Flows, Priv, Client
  <2> QED BY <1>1, <1>3, <2>1 DEF NotLess
<1>6. Flows(h2, k)
  BY <1>4, <1>5 DEF Flows, Carries
<1> QED BY <1>6 DEF h2

\* What the client of a tunnel has sent is relayed to the private connection.
LEMMA RequestFlows ==
    ASSUME NEW h, Holds(h), NEW k \in Socks, Flows(h, k), NEW a \in Socks, Client(a), NEW p \in Socks, Priv(p),
           tun[sock[p].tunnel].state = "connected_state", tun[sock[p].tunnel].remote = a,
           a # k => h[a] = held[a]
    PROVE  Flows(Carried(h, a, p), k)
<1> DEFINE h2 == Carried(h, a, p)
           b == h[a].rbuf
           w == h[p].wbuf
<1>1. /\ h2[p].wbuf = Join(w, b) /\ h2[p].rx = h[p].rx /\ h2[p].rbuf = h[p].rbuf
      /\ h2[a].rbuf = <<>> /\ h2[a].wbuf = h[a].wbuf
      /\ \A q \in Socks : q \notin {a, p} => h2[q] = h[q]
  <2>1. a # p
    BY DEF Priv, Client
  <2> QED BY <2>1, CarriedAt
<1>2. w \in Seq(Piece) /\ b \in Seq(Request(who[a]))
  BY DEF Holds, HoldsAt
<1>3. Join(w, b) = w \o b
  <2> HIDE DEF w, b
  <2> QED BY <1>2, JoinNamed, NotAnonymous
<1> HIDE DEF h2
<1>4. ASSUME NEW c \in Clients, Carries(h2, p, c), ~Carries(h, p, c)
      PROVE  Relays(k, p, c)
  <2>1. PICK i \in DOMAIN (w \o b) : (w \o b)[i].from = c
    BY <1>1, <1>3, <1>4 DEF Carries
  <2>2. ~(i \in DOMAIN w /\ w[i].from = c)
    BY <1>4 DEF Carries
  <2> HIDE DEF w, b
  <2>3. \E j \in DOMAIN b : b[j] = (w \o b)[i]
    BY <1>2, <2>1, <2>2, ConcatAt
  <2>4. PICK j \in DOMAIN b : b[j].from = c
    BY <2>1, <2>3
  <2>5. b[j] \in Request(who[a]) /\ b # <<>>
    BY <1>2, <2>4, LenProperties, ElementOfSeq, EmptySeq
  <2>6. c = who[a]
    BY <2>4, <2>5 DEF Request
  <2> QED BY <2>5, <2>6 DEF Relays, b
<1>5. ASSUME NEW q \in Socks, Priv(q)
      PROVE  SeenLess(held[q], h2[q]) /\ q # a /\ (q # p => h2[q] = h[q])
  <2>1. SeenLess(held[q], h[q]) /\ q # a
    BY <1>5 DEF Flows, Priv, Client
  <2> QED BY <1>1, <2>1 DEF SeenLess, Seen
<1>6. ASSUME NEW q \in Socks, Client(q), q # k
      PROVE  NotLess(held[q], h2[q])
  <2>1. NotLess(held[q], h[q]) /\ q # p
    BY <1>6 DEF Flows, Priv, Client
  <2> QED BY <1>1, <2>1 DEF NotLess
<1>7. ASSUME NEW q \in Socks, NEW c \in Clients, Priv(q), Carries(h2, q, c)
      PROVE  Carries(held, q, c) \/ Relays(k, q, c)
  <2>1. Carries(h, q, c) => Carries(held, q, c) \/ Relays(k, q, c)
    BY <1>7 DEF Flows
  <2>2. q # p => Carries(h, q, c)
    BY <1>5, <1>7 DEF Carries
  <2> QED BY <1>4, <1>7, <2>1, <2>2
<1>8. Flows(h2, k)
  BY <1>5, <1>6, <1>7 DEF Flows
<1> QED BY <1>8 DEF h2

\* What is put behind what a client is to be given, and noted.
LEMMA GivenNoted ==
    ASSUME NEW h, Fine(h, got), NEW p \in Socks, Priv(p), NEW q \in Socks, Client(q),
           tun[sock[p].tunnel].remote = q, SeenLess(held[p], h[p]), Give(h[p].rbuf, p, q)
    PROVE  Gives
<1> DEFINE b == h[p].rbuf
<1>1. b \in Seq(Named(Answers)) /\ HeadOnly(b)
  BY DEF Fine, Holds, HoldsAt, HandshakeFirst, FirstAt
<1>2. ToSet(b) \subseteq Seen(held[p])
  BY DEF SeenLess, Seen
<1>3. given' = given \o NotedIn(b, p, q)
  BY DEF Give, Client
<1> QED BY <1>1, <1>2, <1>3 DEF Given, Gives

LEMMA LeftFlows ==
    ASSUME HeapInv, StreamInv, NEW k \in Socks, sock[k].alloc, TakeLeft(k)
    PROVE  Gives /\ \E h : Settle(h) /\ Flows(h, k)
<1> DEFINE r == sock[k].tunnel
           t == tun[r]
<1>1. r \in Tunnels /\ Fine(held, got) /\ Holds(held)
  BY Standing DEF HeapInv, SockInTunnel
<1>2. Flows(held, k)
  BY DEF Flows, SeenLess, NotLess
<1>3. CASE t.state = "connected_state" /\ k = t.remote /\ t.priv # NULL
  <2> DEFINE p == t.priv
             y == [held[k] EXCEPT !.wbuf = Join(held[k].wbuf, held[p].rbuf)]
             h == [held EXCEPT ![k] = y]
  <2>1. p \in Socks /\ Priv(p) /\ Client(k) /\ sock[p].tunnel = r
    <3>1. k # NULL
      OBVIOUS
    <3> QED BY <1>1, <1>3, <3>1, EndsOf
  <2>2. Settle(h) /\ Give(held[p].rbuf, p, k)
    BY <1>3 DEF TakeLeft
  <2> HIDE DEF p
  <2>3. Gives
    <3>1. tun[sock[p].tunnel].remote = k /\ SeenLess(held[p], held[p])
      BY <1>3, <2>1 DEF SeenLess
    <3> QED BY <1>1, <2>1, <2>2, <3>1, GivenNoted
  <2> HIDE DEF y
  <2>4. Flows(h, k)
    <3>1. ~Priv(k) /\ DOMAIN held = Socks
      BY <1>1, <2>1 DEF Priv, Client, Holds
    <3> QED BY <1>2, <3>1, OneFlows
  <2> QED BY <2>2, <2>3, <2>4
<1>4. CASE ~(t.state = "connected_state" /\ k = t.remote /\ t.priv # NULL)
  BY <1>2, <1>4 DEF TakeLeft, Gives
<1> QED BY <1>3, <1>4

LEMMA ReadFlows ==
    ASSUME HeapInv, HeapInv', StreamInv, NEW k \in Socks, sock[k].alloc, TakeRead(k)
    PROVE  Gives /\ \E h : Settle(h) /\ Flows(h, k)
<1> DEFINE r == sock[k].tunnel
           t == tun[r]
           h == ReadIn(k)
           other == IF sock[k].ispriv THEN t.remote ELSE t.priv
           mine == IF sock[k].ispriv THEN t.priv ELSE t.remote
<1>1. r \in Tunnels /\ Fine(held, got) /\ Holds(held)
  BY Standing DEF HeapInv, SockInTunnel
<1>2. /\ Fine(h, got) /\ Holds(h) /\ Flows(h, k)
      /\ \A j \in Socks : SeenLess(held[j], h[j]) /\ (j # k => h[j] = held[j])
  <2>1. Fine(h, got)
    BY <1>1, ReadInFine
  <2> QED BY <1>1, <2>1, ReadInFlows DEF Fine
<1>3. /\ t.priv # NULL => t.priv \in Socks /\ Priv(t.priv) /\ sock[t.priv].tunnel = r
      /\ t.remote # NULL => t.remote \in Socks /\ Client(t.remote) /\ sock[t.remote].tunnel = r
  BY <1>1, EndsOf
<1>4. \/ TakeLeft(k)
      \/ Settle(held) /\ given' = given
      \/ t.priv # NULL /\ TakeHandshake(h, t.priv)
      \/ t.state = "connected_state" /\ other # NULL /\ mine # NULL /\ Carry(h, mine, other)
      \/ t.remote # NULL /\ TakePage(h, t.remote)
      \/ Settle(h) /\ given' = given
  BY DEF TakeRead
<1> HIDE DEF h
<1>5. CASE TakeLeft(k)
  BY <1>5, LeftFlows
<1>6. CASE Settle(held) /\ given' = given
  <2>1. Flows(held, k)
    BY DEF Flows, SeenLess, NotLess
  <2> QED BY <1>6, <2>1 DEF Gives
<1>7. CASE t.priv # NULL /\ TakeHandshake(h, t.priv)
  <2> DEFINE p == t.priv
             w == IF sock'[p].wbuf /\ h[p].wbuf = <<>> THEN <<Anonymous>> ELSE h[p].wbuf
             some == sock'[p].rbuf
  <2>1. p \in Socks /\ Priv(p) /\ some \in BOOLEAN
    BY <1>3, <1>7 DEF HeapInv, Sock
  <2>2. given' = given
    BY <1>7 DEF TakeHandshake
  <2>3. PICK rest \in Left(h[p].rbuf, some) : Settle([h EXCEPT ![p] = [@ EXCEPT !.rbuf = rest, !.wbuf = w]])
    BY <1>7 DEF TakeHandshake
  <2>4. w \in {h[p].wbuf, <<Anonymous>>}
    OBVIOUS
  <2> HIDE DEF p, w, some
  <2>5. Flows([h EXCEPT ![p] = [@ EXCEPT !.rbuf = rest, !.wbuf = w]], k)
    BY <1>2, <2>1, <2>4, ShakeFlows
  <2> QED BY <2>2, <2>3, <2>5 DEF Gives
<1>8. CASE t.state = "connected_state" /\ other # NULL /\ mine # NULL /\ Carry(h, mine, other)
  <2>1. Settle(Carried(h, mine, other)) /\ Give(h[mine].rbuf, mine, other)
    BY <1>8 DEF Carry, Carried
  <2>2. CASE sock[k].ispriv
    <3>1. /\ mine \in Socks /\ other \in Socks /\ Priv(mine) /\ Client(other)
          /\ tun[sock[mine].tunnel].remote = other
      BY <1>3, <1>8, <2>2
    <3> HIDE DEF mine, other
    <3>2. Gives
      BY <1>2, <2>1, <3>1, GivenNoted
    <3>3. Flows(Carried(h, mine, other), k)
      BY <1>2, <3>1, AnswerFlows
    <3> QED BY <2>1, <3>2, <3>3
  <2>3. CASE ~sock[k].ispriv
    <3>1. /\ mine \in Socks /\ other \in Socks /\ Client(mine) /\ Priv(other)
          /\ tun[sock[other].tunnel].remote = mine /\ tun[sock[other].tunnel].state = "connected_state"
      BY <1>3, <1>8, <2>3
    <3> HIDE DEF mine, other
    <3>2. given' = given
      BY <2>1, <3>1 DEF Give, Priv
    <3>3. Flows(Carried(h, mine, other), k)
      BY <1>2, <3>1, RequestFlows
    <3> QED BY <2>1, <3>2, <3>3 DEF Gives
  <2> QED BY <2>2, <2>3
<1>9. CASE t.remote # NULL /\ TakePage(h, t.remote)
  <2> DEFINE q == t.remote
             one == <<Anonymous>>
             w == Join(h[q].wbuf, one)
             none == <<>>
  <2>1. q \in Socks /\ Client(q) /\ given' = given /\ one \in Seq(Piece) /\ none \in {h[q].rbuf, <<>>}
    <3>1. q \in Socks /\ Client(q) /\ given' = given
      BY <1>3, <1>9 DEF TakePage
    <3>2. one \in Seq(Piece)
      BY ONLY Pieces
    <3> QED BY <3>1, <3>2
  <2>2. Settle([h EXCEPT ![q] = [@ EXCEPT !.rbuf = none, !.wbuf = w]])
    BY <1>9 DEF TakePage
  <2> HIDE DEF q, one, none
  <2>3. Flows([h EXCEPT ![q] = [@ EXCEPT !.rbuf = none, !.wbuf = w]], k)
    BY <1>2, <2>1, ClientFlows
  <2> QED BY <2>1, <2>2, <2>3 DEF Gives
<1>10. CASE Settle(h) /\ given' = given
  BY <1>2, <1>10 DEF Gives
<1> QED BY <1>4, <1>5, <1>6, <1>7, <1>8, <1>9, <1>10

\* The step MisdeliveryHasCause allows.
Caused == \A i \in DOMAIN given' \ DOMAIN given :
            LET c == given'[i].asker
            IN  c # given'[i].by /\ (\E k \in Socks : sock[k].alloc /\ ~sock[k].ispriv /\ who[k] = c) => c \in served

\* What a client is given of a connection's answers was asked there, and a tunnel on which
\* somebody asked is not bound to another.
LEMMA GivesCaused ==
    ASSUME StreamInv, TieOK, Gives
    PROVE  Caused
<1>1. CASE given' = given
  BY <1>1 DEF Caused
<1>2. ASSUME NEW b, NEW p, NEW q, Given(b, p, q)
      PROVE  Caused
  <2> DEFINE u == Numbered(b)
             N == NotedIn(b, p, q)
  <2>1. /\ p \in Socks /\ q \in Socks /\ Priv(p) /\ Client(q) /\ tun[sock[p].tunnel].remote = q
        /\ b \in Seq(Named(Answers)) /\ HeadOnly(b) /\ ToSet(b) \subseteq Seen(held[p]) /\ given' = given \o N
    BY <1>2 DEF Given
  <2>2. WhoOK /\ given \in Seq(Note)
    BY DEF StreamInv, Histories
  <2>3. N \in Seq(Note) /\ DOMAIN N = DOMAIN u
    BY <2>1, <2>2, NotedNotes
  <2>4. \A j \in DOMAIN N : N[j].asker = u[j].to /\ N[j].by = who[q]
    BY <2>3 DEF NotedIn
  <2>5. u \in Seq(Answers) /\ \E lead \in Seq({Anonymous}) : b = lead \o u
    BY <2>1, NumberedOf, NotAnonymous
  <2> SUFFICES ASSUME NEW i \in DOMAIN given', i \notin DOMAIN given, NEW k \in Socks, Client(k),
                      who[k] = given'[i].asker, given'[i].asker # given'[i].by, who[k] \notin served
               PROVE  FALSE
    BY DEF Caused, Client
  <2> HIDE DEF u, N
  <2>6. PICK j \in DOMAIN N : N[j] = given'[i]
    BY <2>1, <2>2, <2>3, ConcatAt
  <2> DEFINE z == u[j]
             c == who[k]
  <2>7. z \in Answers /\ z \in ToSet(b)
    <3>1. PICK lead \in Seq({Anonymous}) : b = lead \o u
      BY <2>5
    <3>2. Len(lead) + j \in DOMAIN b /\ b[Len(lead) + j] = z
      BY <2>3, <2>5, <2>6, <3>1, ConcatFrom
    <3>3. z \in ToSet(b)
      BY <2>1, <3>2, InSet
    <3>4. z \in Answers
      BY <2>3, <2>5, <2>6, LenProperties, ElementOfSeq
    <3> QED BY <3>3, <3>4
  <2>8. c = z.to /\ c # who[q] /\ c \in Clients /\ z.to # 0
    <3>1. c = z.to /\ c # who[q]
      BY <2>4, <2>6
    <3>2. z.to \in Clients
      BY <2>7 DEF Answers
    <3> QED BY <3>1, <3>2 DEF Clients
  <2>9. Asks(p, c)
    <3>1. z \in Seen(held[p])
      BY <2>1, <2>7
    <3> QED BY <2>1, <2>8, <3>1 DEF TieOK, AnswersAsked, Asks
  <2>10. TiedTo(tun[sock[p].tunnel], k)
    <3>1. Unserved(k, c)
      BY DEF Unserved
    <3> QED BY <2>1, <2>8, <2>9, <3>1 DEF TieOK, Tied, HeldFor
  <2>11. q = k
    BY <2>1, <2>10 DEF TiedTo
  <2> QED BY <2>8, <2>11
<1> QED BY <1>1, <1>2 DEF Gives

----------------------------------------------------------------------------
(* A read keeps the tunnels tied.                                          *)

LEMMA AskedHeld ==
    ASSUME HeapInv, PoolInv, WhoOK, TieOK, NEW k, NEW p \in Socks, Priv(p), NEW c \in Clients,
           Asks(p, c) \/ Relays(k, p, c)
    PROVE  HeldFor(p, c)
<1>1. CASE Asks(p, c)
  BY <1>1 DEF TieOK, Tied
<1>2. CASE Relays(k, p, c)
  <2> DEFINE x == sock[p].tunnel
             t == tun[x]
             q == t.remote
  <2>1. t.state = "connected_state" /\ q \in Socks /\ Client(q) /\ who[q] = c /\ q # NULL
    BY <1>2 DEF Relays
  <2>2. x \in Tunnels /\ InApp(x)
    BY DEF HeapInv, SockInTunnel, PoolInv, SocksOK, SockOK, Priv
  <2>3. t.status = "tunn_is_run" \/ c \in served
    BY <2>1, <2>2 DEF TieOK, RunServed
  <2>4. \A j \in Socks : Unserved(j, c) => j = q
    BY <2>1 DEF Unserved, WhoOK
  <2> HIDE DEF q
  <2>5. \A j \in Socks : Unserved(j, c) => TiedTo(t, j)
    BY <2>3, <2>4 DEF Unserved, TiedTo, q
  <2> QED BY <2>1, <2>5 DEF HeldFor
<1> QED BY <1>1, <1>2

\* It stays so when a handler changes the tunnel as Effect says.
LEMMA EffectHeld ==
    ASSUME HeapInv, PoolInv, NEW r \in Tunnels, Effect(r), UNCHANGED who, served \subseteq served',
           NEW p \in Socks, Priv(p), sock'[p].alloc, NEW c \in Clients, HeldFor(p, c)
    PROVE  HeldFor(p, c)'
<1> DEFINE x == sock[p].tunnel
           t == tun[x]
           u == tun'[x]
<1>1. sock'[p].tunnel = x /\ x \in Tunnels /\ InApp(x) /\ t.priv = p
  BY DEF Effect, SidesKept, PoolInv, SocksOK, SockOK, Priv, HeapInv, SockInTunnel
<1>2. t.status \in AppStatus
  BY <1>1 DEF PoolInv, TunnelsOK, AppT
<1>3. t.state = "connected_state" /\ \A j \in Socks : Unserved(j, c) => TiedTo(t, j)
  BY DEF HeldFor
<1>4. StaysTied(t, u)
  <2>1. CASE x = r
    BY <2>1 DEF Effect, Rebinds
  <2>2. CASE x # r
    <3>1. u = t
      BY <1>1, <2>2 DEF Effect
    <3> QED BY <3>1 DEF StaysTied
  <2> QED BY <2>1, <2>2
<1>5. /\ u.state = "connected_state"
      /\ \/ u.status = t.status /\ u.remote \in {t.remote, NULL}
         \/ t.remote \in Socks /\ ~sock'[t.remote].alloc
  BY <1>1, <1>2, <1>3, <1>4 DEF StaysTied
<1>6. ASSUME NEW j \in Socks, Unserved(j, c)'
      PROVE  TiedTo(u, j)
  <2>1. Unserved(j, c) /\ sock'[j].alloc
    BY <1>6 DEF Unserved, Client, Effect, SidesKept
  <2>2. t.status = "tunn_is_run" /\ t.remote \in {j, NULL}
    BY <1>3, <2>1 DEF TiedTo
  <2> QED BY <1>5, <2>1, <2>2 DEF TiedTo
<1>7. \A j \in Socks : Unserved(j, c)' => TiedTo(u, j)
  BY <1>6
<1> QED BY <1>1, <1>5, <1>7 DEF HeldFor, TiedTo

\* A tunnel changed as Effect says is in use still if it has a client.
LEMMA EffectRun ==
    ASSUME PoolInv, RunServed, NEW r \in Tunnels, Effect(r), UNCHANGED <<who, appList>>, served \subseteq served',
           tun[r].state = "request_state" /\ tun'[r].state = "connected_state" /\ tun[r].remote # NULL =>
             who[tun[r].remote] \in served'
    PROVE  RunServed'
<1> DEFINE t == tun[r]
<1> SUFFICES ASSUME NEW x \in Tunnels, InApp(x)', tun'[x].remote # NULL
             PROVE  tun'[x].status = "tunn_is_run" \/ who'[tun'[x].remote] \in served'
  BY DEF RunServed
<1>1. InApp(x)
  BY DEF InApp
<1>2. tun[x].state # "tunnel_waitting"
  BY <1>1 DEF PoolInv, TunnelsOK, AppT
<1>3. tun[x].remote # NULL => tun[x].status = "tunn_is_run" \/ who[tun[x].remote] \in served
  BY <1>1 DEF RunServed
<1>4. CASE x # r
  BY <1>3, <1>4 DEF Effect
<1>5. CASE x = r
  <2>1. tun'[x].remote = t.remote /\ StaysRun(t, tun'[x])
    BY <1>5 DEF Effect, Rebinds
  <2> QED BY <1>2, <1>3, <1>5, <2>1 DEF StaysRun
<1> QED BY <1>4, <1>5

LEMMA StreamReadTie ==
    ASSUME IInv, IInv', PoolInv, StreamInv, StreamInv', OneEvent, TieOK,
           NEW k \in Socks, StreamRead(k), fault' = "none"
    PROVE  TieOK'
<1> DEFINE r == sock[k].tunnel
           t == tun[r]
<1>1. /\ HeapInv /\ HeapInv' /\ WhoOK /\ Holds(held) /\ fault = "none" /\ BuffersAgree /\ BuffersAgree'
      /\ sock[k].alloc /\ r \in Tunnels /\ TakeRead(k)
      /\ UNCHANGED <<who, sent, got, dials, appList>>
      /\ OutEvent(k) \notin batch /\ batch' \subseteq batch
      /\ served' = IF t.state = "request_state" /\ tun'[r].state = "connected_state" /\ t.remote # NULL
                   THEN served \cup {who[t.remote]} ELSE served
  BY DEF IInv, StreamInv, StreamRead, ReadHandle, Consume, Running, Unsent, HeapInv, SockInTunnel,
         OneEvent, OutEvent
<1>2. Effect(r) /\ served \subseteq served'
  BY <1>1, StreamReadStep
<1>3. PICK h : Settle(h) /\ Flows(h, k)
  BY <1>1, ReadFlows
<1>4. /\ \A p \in Socks : Priv(p)' => Priv(p) /\ sock'[p].alloc /\ held'[p] = h[p]
      /\ \A q \in Socks : Client(q)' => Client(q) /\ sock'[q].alloc /\ held'[q] = h[q]
  BY <1>2, <1>3, SettledAt DEF Effect, SidesKept, Priv, Client
<1>5. \A p : Asked(p)' = Asked(p)
  BY <1>1 DEF Asked
<1>6. ASSUME NEW p \in Socks, NEW c \in Clients, Priv(p)', Asks(p, c)'
      PROVE  Priv(p) /\ sock'[p].alloc /\ (Asks(p, c) \/ Relays(k, p, c))
  <2>1. Priv(p) /\ sock'[p].alloc /\ held'[p] = h[p]
    BY <1>4, <1>6
  <2>2. Carries(h, p, c) => Carries(held, p, c) \/ Relays(k, p, c)
    BY <1>3, <2>1 DEF Flows
  <2>3. Carries(held', p, c) <=> Carries(h, p, c)
    BY <2>1 DEF Carries
  <2>4. Carries(held', p, c) \/ c \in Asked(p)
    BY <1>5, <1>6 DEF Asks
  <2> QED BY <2>1, <2>2, <2>3, <2>4 DEF Asks
<1>7. AnswersAsked'
  <2> SUFFICES ASSUME NEW p \in Socks, Priv(p)', NEW z \in Seen(held'[p]), z.to # 0
               PROVE  z.to \in Asked(p)'
    BY DEF AnswersAsked
  <2>1. Priv(p) /\ z \in Seen(held[p])
    BY <1>3, <1>4 DEF Flows, SeenLess
  <2> QED BY <1>5, <2>1 DEF TieOK, AnswersAsked
<1>8. GotOpened'
  BY <1>1 DEF TieOK, GotOpened, Opened
<1>9. Tied'
  <2> SUFFICES ASSUME NEW p \in Socks, NEW c \in Clients, Priv(p)', Asks(p, c)'
               PROVE  HeldFor(p, c)'
    BY DEF Tied
  <2>1. HeldFor(p, c)
    BY <1>1, <1>6, AskedHeld
  <2> QED BY <1>1, <1>2, <1>6, <2>1, EffectHeld
<1>10. RunServed'
  BY <1>1, <1>2, EffectRun DEF TieOK
<1>11. NoFalseWrite'
  <2> SUFFICES ASSUME NEW j \in Socks, Client(j)', OutEvent(j) \in batch', ~sock'[j].wbuf
               PROVE  ~sock'[j].rbuf /\ \A p \in Socks : Priv(p)' => ~Asks(p, who[j])'
    BY <1>1 DEF NoFalseWrite
  <2>1. Client(j) /\ held'[j] = h[j] /\ OutEvent(j) \in batch /\ j # k
    BY <1>1, <1>4
  <2>2. NotLess(held[j], h[j])
    BY <1>3, <2>1 DEF Flows
  <2>3. ~sock[j].wbuf
    BY <1>1, <2>1, <2>2 DEF BuffersAgree, NotLess
  <2>4. ~sock[j].rbuf /\ \A p \in Socks : Priv(p) => ~Asks(p, who[j])
    BY <2>1, <2>3 DEF TieOK, NoFalseWrite
  <2>5. ~sock'[j].rbuf /\ held[j].rbuf = <<>>
    BY <1>1, <2>1, <2>2, <2>4 DEF BuffersAgree, NotLess
  <2>6. ASSUME NEW p \in Socks, Priv(p)', Asks(p, who[j])'
        PROVE  FALSE
    <3>1. who[j] \in Clients
      BY <1>1, <2>1 DEF WhoOK
    <3>2. Relays(k, p, who[j])
      <4>1. PICK c \in Clients : c = who[j] /\ Asks(p, c)'
        BY <1>1, <2>6, <3>1
      <4>2. Priv(p) /\ (Asks(p, c) \/ Relays(k, p, c))
        BY <1>6, <2>6, <4>1
      <4> QED BY <2>4, <4>1, <4>2
    <3> DEFINE q == tun[sock[p].tunnel].remote
    <3>3. q \in Socks /\ Client(q) /\ who[q] = who[j] /\ (q = k \/ held[q].rbuf # <<>>)
      BY <3>2 DEF Relays
    <3>4. q = j
      BY <1>1, <2>1, <3>3 DEF WhoOK
    <3> QED BY <2>1, <2>5, <3>3, <3>4
  <2> QED BY <2>5, <2>6
<1> QED BY <1>7, <1>8, <1>9, <1>10, <1>11 DEF TieOK

----------------------------------------------------------------------------
(* A write keeps them tied.                                                *)

\* The answer of the client k is flushed: its tunnel is idle again, and it is parked.
Flushed(k) ==
    LET r == sock[k].tunnel
    IN  /\ tun[r].status = "tunn_is_run" /\ tun[r].remote = k /\ ~sock[k].ispriv
        /\ tun'[r].remote = NULL /\ tun'[r].state = tun[r].state
        /\ \A x \in Tunnels : InApp(x) /\ x # r => tun'[x] = tun[x]
        /\ sock'[k].alloc /\ ~sock'[k].wbuf

LEMMA AfterWriteCases ==
    ASSUME IInv, PoolInv, Empty(sock), NEW k \in Socks, sock[k].alloc, NEW x \in BOOLEAN,
           NEW s, s = Wrote(k, x), AfterWrite(k, s), UNCHANGED appList, fault' = "none"
    PROVE  (Effect(sock[k].tunnel) /\ UNCHANGED tun) \/ Flushed(k)
<1> DEFINE r == sock[k].tunnel
           t == tun[r]
<1>1. HeapInv /\ ListsOK /\ LoopOK
  BY DEF IInv
<1>2. r \in Tunnels /\ t \in Tunnel /\ tun \in [Tunnels -> Tunnel] /\ sock[k] \in Sock
  BY <1>1 DEF HeapInv, SockInTunnel
<1>3. /\ s[k].tunnel = r /\ s[k].alloc /\ s[k].ispriv = sock[k].ispriv
      /\ s[k] \in Sock /\ s \in [Socks -> Sock] /\ \A j \in Socks : j # k => s[j] = sock[j]
  <2>1. SameOwners(s)
    BY <1>1, WrittenBuf
  <2> QED BY <1>1, <2>1, WrittenBuf DEF SameOwners
<1>4. ASSUME NEW m, sock' = [s EXCEPT ![k] = [@ EXCEPT !.mask = m]], UNCHANGED tun
      PROVE  Effect(r)
  <2>1. sock'[k] = [s[k] EXCEPT !.mask = m] /\ \A j \in Socks : j # k => sock'[j] = sock[j]
    BY <1>3, <1>4
  <2>2. sock'[k].alloc = s[k].alloc /\ sock'[k].ispriv = s[k].ispriv /\ sock'[k].tunnel = s[k].tunnel
    BY <1>3, <2>1 DEF Sock
  <2>3. SidesKept
    <3>1. sock'[k].alloc /\ sock[k].alloc /\ sock'[k].ispriv = sock[k].ispriv /\ sock'[k].tunnel = sock[k].tunnel
      BY <1>3, <2>2
    <3>2. \A j \in Socks : ~sock[j].alloc => sock[j] = NoSock
      BY DEF Empty
    <3> QED BY ONLY <2>1, <3>1, <3>2 DEF SidesKept
  <2> QED BY <1>1, <1>2, <1>4, <2>3, StillEffect
<1>5. ASSUME t.status = "tunn_is_run", k = t.remote, ~s[k].wbuf, NEW w \in WaitObj,
             tun' = [[tun EXCEPT ![r] = LetGo(@, "tunn_is_idle")]
                       EXCEPT ![w] = Parked(@, k, "tmptun_is_alive")],
             waitList' = WaitListWith(w), UNCHANGED appList,
             sock' = [s EXCEPT ![k] = [@ EXCEPT !.mask = {"in"}, !.tunnel = w]]
      PROVE  Flushed(k)
  <2>1. w \in Tunnels /\ ~InApp(w)
    BY <1>1, <1>5, EntryTaken
  <2>2. InApp(r)
    BY <1>1, <1>5, EntryOf, OwnerListed
  <2>3. w # r
    BY <2>1, <2>2
  <2>4. tun'[r] = LetGo(t, "tunn_is_idle") /\ \A q \in Tunnels : q \notin {r, w} => tun'[q] = tun[q]
    BY <1>2, <1>5, <2>1, <2>3
  <2>5. tun'[r].remote = NULL /\ tun'[r].state = t.state
    BY <1>2, <2>4 DEF LetGo, Tunnel
  <2>6. sock'[k] = [s[k] EXCEPT !.mask = {"in"}, !.tunnel = w]
    BY <1>3, <1>5
  <2>7. sock'[k].alloc = s[k].alloc /\ sock'[k].wbuf = s[k].wbuf
    <3> HIDE DEF r, t
    <3> QED BY ONLY <1>3, <2>6 DEF Sock
  <2>8. ~sock[k].ispriv
    BY <1>1, <1>2, <1>5, EndsOf DEF Client
  <2> QED BY <1>3, <1>5, <2>1, <2>4, <2>5, <2>7, <2>8 DEF Flushed
<1>6. \/ \E m : sock' = [s EXCEPT ![k] = [@ EXCEPT !.mask = m]] /\ UNCHANGED tun
      \/ /\ t.status = "tunn_is_run" /\ k = t.remote /\ ~s[k].wbuf
         /\ \E w \in WaitObj :
              /\ tun' = [[tun EXCEPT ![r] = LetGo(@, "tunn_is_idle")]
                           EXCEPT ![w] = Parked(@, k, "tmptun_is_alive")]
              /\ waitList' = WaitListWith(w)
              /\ sock' = [s EXCEPT ![k] = [@ EXCEPT !.mask = {"in"}, !.tunnel = w]]
  <2>1. s[k].tunnel = sock[k].tunnel /\ ~Crash("null")
    BY <1>3 DEF Crash
  <2>2. CASE t.status = "tunn_is_run" /\ TunnelSwitch(k, s)
    <3>1. \/ \E m : sock' = [s EXCEPT ![k] = [@ EXCEPT !.mask = m]] /\ UNCHANGED tun
          \/ /\ ~s[k].wbuf /\ k = t.remote
             /\ \E w \in WaitObj :
                  /\ tun' = [[tun EXCEPT ![r] = LetGo(@, "tunn_is_idle")]
                               EXCEPT ![w] = Parked(@, k, "tmptun_is_alive")]
                  /\ waitList' = WaitListWith(w)
                  /\ sock' = [s EXCEPT ![k] = [@ EXCEPT !.mask = {"in"}, !.tunnel = w]]
      BY ONLY <2>1, <2>2 DEF TunnelSwitch
    <3> QED BY <2>2, <3>1
  <2>3. CASE sock' = [s EXCEPT ![k] = [@ EXCEPT !.mask = IF s[k].wbuf THEN {"in", "out"} ELSE {"in"}]]
             /\ UNCHANGED tun
    BY <2>3
  <2> QED BY <2>1, <2>2, <2>3 DEF AfterWrite
<1> HIDE DEF r, t
<1>7. CASE \E m : sock' = [s EXCEPT ![k] = [@ EXCEPT !.mask = m]] /\ UNCHANGED tun
  BY <1>4, <1>7 DEF r
<1>8. CASE /\ t.status = "tunn_is_run" /\ k = t.remote /\ ~s[k].wbuf
           /\ \E w \in WaitObj :
                /\ tun' = [[tun EXCEPT ![r] = LetGo(@, "tunn_is_idle")]
                             EXCEPT ![w] = Parked(@, k, "tmptun_is_alive")]
                /\ waitList' = WaitListWith(w)
                /\ sock' = [s EXCEPT ![k] = [@ EXCEPT !.mask = {"in"}, !.tunnel = w]]
  BY <1>5, <1>8
<1> QED BY <1>6, <1>7, <1>8

LEMMA WriteCases ==
    ASSUME IInv, PoolInv, Empty(sock), NEW k \in Socks, WriteHandle(k), fault' = "none"
    PROVE  \/ Effect(sock[k].tunnel) /\ tun'[sock[k].tunnel].state = tun[sock[k].tunnel].state
           \/ Flushed(k)
<1> DEFINE r == sock[k].tunnel
<1>1. HeapInv /\ sock[k].alloc /\ UNCHANGED appList /\ SameOwners(sock) /\ SockOK(k) /\ r \in Tunnels
  BY SelfOwners DEF IInv, WriteHandle, PoolInv, SocksOK, HeapInv, SockInTunnel
<1>2. CASE SockForceShutdown(k, sock)
  <2>1. Effect(r)
    BY <1>1, <1>2, ForceEffect
  <2>2. tun'[r] = ForcedT(tun[r], k, sock[k].ispriv) /\ tun[r] \in Tunnel /\ sock[k].ispriv \in BOOLEAN
    BY <1>1, <1>2 DEF SockForceShutdown, HeapInv, Sock
  <2>3. tun'[r].state = tun[r].state
    BY <2>2, ForcedType
  <2> QED BY <2>1, <2>3
<1>3. ASSUME NEW x \in BOOLEAN, AfterWrite(k, Wrote(k, x))
      PROVE  (Effect(r) /\ UNCHANGED tun) \/ Flushed(k)
  BY <1>1, <1>3, AfterWriteCases
<1>4. CASE ~sock[k].wbuf /\ AfterWrite(k, sock)
  <2>1. sock \in [Socks -> Sock] /\ sock[k] \in Sock
    BY <1>1 DEF HeapInv
  <2>2. sock = Wrote(k, FALSE)
    <3>1. sock[k] = [sock[k] EXCEPT !.wbuf = FALSE]
      BY <1>4, <2>1 DEF Sock
    <3> QED BY <2>1, <3>1 DEF Wrote
  <2>3. AfterWrite(k, Wrote(k, FALSE))
    BY <1>4, <2>2
  <2> QED BY <1>3, <2>3
<1>5. \/ SockForceShutdown(k, sock) \/ (~sock[k].wbuf /\ AfterWrite(k, sock))
      \/ \E x \in BOOLEAN : AfterWrite(k, Wrote(k, x))
  BY DEF WriteHandle, Wrote
<1> QED BY <1>2, <1>3, <1>4, <1>5

\* What a write leaves to be written, and what it adds to the history, was there to be written.
LEMMA WriteAsks ==
    ASSUME IInv, PoolInv, StreamInv, NEW k \in Socks, StreamWrite(k)
    PROVE  /\ \A p \in Socks : Priv(p)' => Seen(held'[p]) = Seen(held[p]) /\ Asked(p) \subseteq Asked(p)'
           /\ \A p \in Socks, c \in Clients : Priv(p)' /\ Asks(p, c)' => Asks(p, c)
           /\ GotOpened => GotOpened'
           /\ served \subseteq served'
           /\ Client(k) /\ sock'[k].alloc /\ ~sock'[k].wbuf => who[k] \in served' \/ held[k].wbuf = <<>>
<1> DEFINE x == held[k]
           q == x.wbuf
           some == sock'[k].alloc /\ sock'[k].wbuf
           moved(rest) == Addressed(Numbered(SubSeq(q, 1, Len(q) - Len(rest))), who[k])
<1>1. PICK rest \in Left(q, some) :
        /\ Settle([held EXCEPT ![k] = [@ EXCEPT !.wbuf = rest]])
        /\ got' = IF sock[k].ispriv /\ sock'[k].alloc THEN got \o moved(rest) ELSE got
        /\ served' = IF sock[k].ispriv \/ q = rest THEN served ELSE served \cup {who[k]}
  BY DEF StreamWrite
<1>2. UNCHANGED <<who, sent, given>> /\ WriteHandle(k)
  BY DEF StreamWrite
<1>3. /\ HeapInv /\ Empty(sock) /\ Fine(held, got) /\ Holds(held) /\ WhoOK /\ Histories
      /\ sock[k].alloc /\ sock[k].ispriv \in BOOLEAN
  <2>1. HeapInv /\ sock[k].alloc
    BY <1>2 DEF IInv, WriteHandle
  <2> QED BY <2>1, Standing DEF StreamInv, HeapInv, Sock
<1>4. /\ Sides /\ \A j \in Socks : j # k => sock'[j] = sock[j]
      /\ UNCHANGED dials
  BY <1>2, <1>3, WriteEffect
<1>5. x \in [rx : Seq(Piece), rbuf : Seq(Piece), wbuf : Seq(Piece)] /\ q \in Seq(Piece)
  BY <1>3 DEF Holds, HoldsAt
<1> DEFINE y == [x EXCEPT !.wbuf = rest]
           pre == SubSeq(q, 1, Len(q) - Len(rest))
<1>6. /\ rest \in Seq(Piece) /\ (some <=> rest # <<>>)
      /\ pre \in Seq(Piece) /\ q = pre \o rest
  <2>1. some \in BOOLEAN
    OBVIOUS
  <2> HIDE DEF some, q, pre
  <2>2. q \in Seq(Piece) /\ rest \in Left(q, some)
    BY <1>1, <1>5
  <2>3. pre = SubSeq(q, 1, Len(q) - Len(rest))
    BY DEF pre
  <2> QED BY ONLY <2>1, <2>2, <2>3, LeftOf
<1>7. y.rx = x.rx /\ y.rbuf = x.rbuf /\ y.wbuf = rest
  BY <1>5, <1>6
<1>8. /\ \A p \in Socks : Priv(p)' => Priv(p) /\ sock'[p].alloc
      /\ \A p \in Socks : sock'[p].alloc => held'[p] = IF p = k THEN y ELSE held[p]
  <2> HIDE DEF y
  <2>1. Settle([held EXCEPT ![k] = y])
    BY <1>1 DEF y
  <2>2. \A p \in Socks : sock'[p].alloc => held'[p] = [held EXCEPT ![k] = y][p]
    BY <2>1, SettledAt
  <2>3. DOMAIN held = Socks
    BY <1>3 DEF Holds
  <2> QED BY <1>4, <2>2, <2>3 DEF Sides, Priv
<1> HIDE DEF y
<1>9. \A c : Includes(pre, c) \/ Includes(rest, c) => Carries(held, k, c)
  <2> HIDE DEF pre, q
  <2>1. (\A i \in DOMAIN pre : i \in DOMAIN (pre \o rest) /\ (pre \o rest)[i] = pre[i])
        /\ \A j \in DOMAIN rest : Len(pre) + j \in DOMAIN (pre \o rest) /\ (pre \o rest)[Len(pre) + j] = rest[j]
    BY <1>6, ConcatFrom
  <2>2. \A c : Carries(held, k, c) <=> Includes(q, c)
    BY DEF Carries, Includes, q
  <2> QED BY <1>6, <2>1, <2>2 DEF Includes
<1>10. ASSUME Priv(k), sock'[k].alloc
       PROVE  LET z == moved(rest)
              IN  /\ z \in Seq(Delivered) /\ got' = got \o z /\ \A i \in DOMAIN z : z[i].to = who[k]
                  /\ \A i \in DOMAIN z : Includes(pre, z[i].from)
  <2> DEFINE u == Numbered(pre)
             z == Addressed(u, who[k])
  <2>1. q \in Seq(Named(Requests)) /\ HeadOnly(q) /\ who[k] \in Connections
    BY <1>3, <1>10 DEF Fine, Holds, HoldsAt, HandshakeFirst, FirstAt, WhoOK
  <2>2. pre \in Seq(Named(Requests)) /\ HeadOnly(pre)
    <3> HIDE DEF q, pre
    <3>1. HeadOnly(pre)
      BY <1>6, <2>1, HeadOnlyParts
    <3>2. \A i \in DOMAIN pre : i \in DOMAIN q /\ q[i] = pre[i]
      BY <1>6, ConcatFrom
    <3> DEFINE T == Named(Requests)
    <3>3. \A i \in DOMAIN pre : pre[i] \in T
      <4> HIDE DEF T
      <4> QED BY <2>1, <3>2, LenProperties, ElementOfSeq DEF T
    <3> HIDE DEF T
    <3>4. pre \in Seq(T)
      BY <1>6, <3>3
    <3> QED BY <3>1, <3>4 DEF T
  <2> HIDE DEF pre
  <2>3. u \in Seq(Requests) /\ \A c : Includes(u, c) => Includes(pre, c)
    <3>1. Anonymous \notin Requests
      BY NotAnonymous
    <3>2. Numbered(pre) \in Seq(Requests)
      BY ONLY <2>2, <3>1, NumberedOf
    <3>3. \A c : (\E i \in DOMAIN Numbered(pre) : Numbered(pre)[i].from = c) => \E i \in DOMAIN pre : pre[i].from = c
      BY ONLY <2>2, <3>1, NumberedMono
    <3> QED BY <3>2, <3>3 DEF Includes
  <2> HIDE DEF u
  <2>4. z \in Seq(Delivered) /\ DOMAIN z = DOMAIN u /\ \A i \in DOMAIN u : z[i].from = u[i].from
    BY <2>1, <2>3, AddressedOf
  <2>5. \A i \in DOMAIN z : z[i].to = who[k]
    <3>1. \A i \in DOMAIN u : u[i] \in Requests /\ z[i] = [u[i] EXCEPT !.to = who[k]]
      BY <2>3, LenProperties, ElementOfSeq DEF Addressed
    <3> QED BY <2>4, <3>1 DEF Requests
  <2>6. got' = got \o z
    BY <1>1, <1>10 DEF Priv, u, pre
  <2>7. \A i \in DOMAIN z : Includes(pre, z[i].from)
    BY <2>3, <2>4 DEF Includes
  <2>8. z = moved(rest)
    BY DEF u, pre
  <2> HIDE DEF z
  <2> QED BY <2>4, <2>5, <2>6, <2>7, <2>8
<1> HIDE DEF moved, pre
<1>11. \/ got' = got
       \/ /\ Priv(k) /\ sock'[k].alloc
          /\ \E z \in Seq(Delivered) : /\ got' = got \o z /\ \A i \in DOMAIN z : z[i].to = who[k]
                                      /\ \A i \in DOMAIN z : Includes(pre, z[i].from)
  BY <1>1, <1>3, <1>10 DEF Priv
<1>12. got \in Seq(Delivered)
  BY <1>3 DEF Histories
<1>13. ASSUME NEW p \in Socks
       PROVE  Asked(p) \subseteq Asked(p)'
  <2>1. \A i \in DOMAIN got : i \in DOMAIN got' /\ got'[i] = got[i]
    BY <1>11, <1>12, ConcatFrom
  <2> QED BY <1>2, <2>1 DEF Asked
<1>14. ASSUME NEW p \in Socks, NEW c \in Clients, Priv(p)', Asks(p, c)'
       PROVE  Asks(p, c)
  <2>1. Priv(p) /\ sock'[p].alloc
    BY <1>8, <1>14
  <2>2. Carries(held', p, c) => Asks(p, c)
    <3>1. CASE p = k
      <4>1. held'[k].wbuf = rest
        BY <1>7, <1>8, <2>1, <3>1
      <4> QED BY <1>9, <3>1, <4>1 DEF Carries, Includes, Asks
    <3>2. CASE p # k
      BY <1>8, <2>1, <3>2 DEF Carries, Asks
    <3> QED BY <3>1, <3>2
  <2>3. ASSUME NEW i \in DOMAIN got', got'[i].to = who[p], got'[i].from = c
        PROVE  Asks(p, c)
    <3>1. CASE i \in DOMAIN got /\ got'[i] = got[i]
      BY <2>3, <3>1 DEF Asks, Asked
    <3>2. CASE Priv(k) /\ got'[i].to = who[k] /\ Includes(pre, got'[i].from)
      <4>1. p = k
        BY <1>3, <2>1, <2>3, <3>2 DEF WhoOK
      <4> QED BY <1>9, <2>3, <3>2, <4>1 DEF Asks
    <3>3. \/ i \in DOMAIN got /\ got'[i] = got[i]
          \/ Priv(k) /\ got'[i].to = who[k] /\ Includes(pre, got'[i].from)
      <4>1. CASE got' = got
        BY <2>3, <4>1
      <4>2. ASSUME Priv(k), NEW z \in Seq(Delivered), got' = got \o z, \A m \in DOMAIN z : z[m].to = who[k],
                   \A m \in DOMAIN z : Includes(pre, z[m].from)
            PROVE  \/ i \in DOMAIN got /\ got'[i] = got[i]
                   \/ Priv(k) /\ got'[i].to = who[k] /\ Includes(pre, got'[i].from)
        <5>1. \/ i \in DOMAIN got /\ got'[i] = got[i]
              \/ \E m \in DOMAIN z : got'[i] = z[m]
          BY <1>12, <2>3, <4>2, ConcatAt
        <5> QED BY <4>2, <5>1
      <4> QED BY <1>11, <4>1, <4>2
    <3> QED BY <3>1, <3>2, <3>3
  <2>4. Carries(held', p, c) \/ \E i \in DOMAIN got' : got'[i].to = who[p] /\ got'[i].from = c
    BY <1>2, <1>14 DEF Asks, Asked
  <2> QED BY <2>2, <2>3, <2>4
<1>15. GotOpened => GotOpened'
  <2> SUFFICES ASSUME GotOpened, NEW i \in DOMAIN got'
               PROVE  got'[i].to <= Opened
    BY <1>4 DEF GotOpened, Opened
  <2>1. CASE got' = got
    BY <2>1 DEF GotOpened
  <2>2. ASSUME Priv(k), NEW z \in Seq(Delivered), got' = got \o z, \A m \in DOMAIN z : z[m].to = who[k]
        PROVE  got'[i].to <= Opened
    <3>1. \/ i \in DOMAIN got /\ got'[i] = got[i]
          \/ \E m \in DOMAIN z : got'[i] = z[m]
      BY <1>12, <2>2, ConcatAt
    <3>2. who[k] <= Opened
      BY <1>3, <2>2 DEF WhoOK
    <3> QED BY <2>2, <3>1, <3>2 DEF GotOpened
  <2> QED BY <1>11, <2>1, <2>2
<1>16. ASSUME Client(k), sock'[k].alloc, ~sock'[k].wbuf
       PROVE  who[k] \in served' \/ held[k].wbuf = <<>>
  <2>1. rest = <<>> /\ ~sock[k].ispriv
    BY <1>6, <1>16 DEF Client
  <2> QED BY <1>1, <2>1
<1>17. \A p \in Socks : Priv(p)' => Seen(held'[p]) = Seen(held[p])
  BY <1>7, <1>8 DEF Seen
<1>18. served \subseteq served'
  BY <1>1
<1> QED BY <1>13, <1>14, <1>15, <1>16, <1>17, <1>18

LEMMA StreamWriteTie ==
    ASSUME IInv, PoolInv, StreamInv, StreamInv', OneEvent, TieOK,
           NEW k \in Socks, StreamWrite(k), fault' = "none"
    PROVE  TieOK'
<1> DEFINE r == sock[k].tunnel
           t == tun[r]
<1>1. /\ HeapInv /\ WhoOK /\ Empty(sock) /\ fault = "none" /\ BuffersAgree /\ BuffersAgree'
      /\ sock[k].alloc /\ r \in Tunnels /\ WriteHandle(k) /\ UNCHANGED <<who, sent, given, appList>>
      /\ OutEvent(k) \in batch /\ OutEvent(k) \notin batch' /\ batch' \subseteq batch
  <2>1. HeapInv /\ WriteHandle(k) /\ UNCHANGED <<who, sent, given>>
    BY DEF IInv, StreamWrite
  <2> QED BY <2>1, Standing DEF StreamInv, WriteHandle, Consume, Running, HeapInv, SockInTunnel, OutEvent
<1>2. /\ Sides /\ \A j \in Socks : j # k => sock'[j] = sock[j]
      /\ UNCHANGED dials
  BY <1>1, WriteEffect
<1>3. /\ \A p \in Socks : Priv(p)' => Seen(held'[p]) = Seen(held[p]) /\ Asked(p) \subseteq Asked(p)'
      /\ \A p \in Socks, c \in Clients : Priv(p)' /\ Asks(p, c)' => Asks(p, c)
      /\ GotOpened' /\ served \subseteq served'
      /\ Client(k) /\ sock'[k].alloc /\ ~sock'[k].wbuf => who[k] \in served' \/ held[k].wbuf = <<>>
  BY WriteAsks DEF TieOK
<1>4. /\ \A p \in Socks : Priv(p)' => Priv(p) /\ sock'[p].alloc
      /\ \A q \in Socks : Client(q)' => Client(q) /\ sock'[q].alloc
  BY <1>2 DEF Sides, Priv, Client
<1>5. AnswersAsked'
  <2> SUFFICES ASSUME NEW p \in Socks, Priv(p)', NEW z \in Seen(held'[p]), z.to # 0
               PROVE  z.to \in Asked(p)'
    BY DEF AnswersAsked
  <2>1. Priv(p) /\ z \in Seen(held[p]) /\ Asked(p) \subseteq Asked(p)'
    BY <1>3, <1>4
  <2> QED BY <2>1 DEF TieOK, AnswersAsked
<1>6. NoFalseWrite'
  <2> SUFFICES ASSUME NEW j \in Socks, Client(j)', OutEvent(j) \in batch', ~sock'[j].wbuf
               PROVE  ~sock'[j].rbuf /\ \A p \in Socks : Priv(p)' => ~Asks(p, who[j])'
    BY <1>1 DEF NoFalseWrite
  <2>1. Client(j) /\ OutEvent(j) \in batch /\ j # k /\ sock'[j] = sock[j]
    BY <1>1, <1>2, <1>4
  <2>2. ~sock[j].rbuf /\ \A p \in Socks : Priv(p) => ~Asks(p, who[j])
    BY <2>1 DEF TieOK, NoFalseWrite
  <2>3. PICK c \in Clients : c = who[j] /\ c = who'[j]
    BY <1>1, <2>1 DEF WhoOK
  <2>4. \A p \in Socks : Priv(p)' => ~Asks(p, c)'
    BY <1>3, <1>4, <2>2, <2>3
  <2> QED BY <1>1, <2>1, <2>2, <2>3, <2>4
<1>7. CASE Effect(r) /\ tun'[r].state = t.state
  <2>1. Tied'
    <3> SUFFICES ASSUME NEW p \in Socks, NEW c \in Clients, Priv(p)', Asks(p, c)'
                 PROVE  HeldFor(p, c)'
      BY DEF Tied
    <3>1. HeldFor(p, c) /\ Priv(p) /\ sock'[p].alloc
      BY <1>3, <1>4 DEF TieOK, Tied
    <3> QED BY <1>1, <1>3, <1>7, <3>1, EffectHeld
  <2>2. RunServed'
    BY <1>1, <1>3, <1>7, EffectRun DEF TieOK
  <2> QED BY <1>3, <1>5, <1>6, <2>1, <2>2 DEF TieOK
<1>8. CASE Flushed(k)
  <2>1. /\ t.status = "tunn_is_run" /\ t.remote = k /\ Client(k)
        /\ tun'[r].remote = NULL /\ tun'[r].state = t.state
        /\ \A x \in Tunnels : InApp(x) /\ x # r => tun'[x] = tun[x]
        /\ sock'[k].alloc /\ ~sock'[k].wbuf
    BY <1>1, <1>8 DEF Flushed, Client
  <2>2. who[k] \in served' \/ \A p \in Socks : Priv(p) => ~Asks(p, who[k])
    <3>1. CASE held[k].wbuf = <<>>
      <4>1. ~sock[k].wbuf
        BY <1>1, <3>1 DEF BuffersAgree
      <4> QED BY <1>1, <2>1, <4>1 DEF TieOK, NoFalseWrite
    <3> QED BY <1>3, <2>1, <3>1
  <2>3. Tied'
    <3> SUFFICES ASSUME NEW p \in Socks, NEW c \in Clients, Priv(p)', Asks(p, c)'
                 PROVE  HeldFor(p, c)'
      BY DEF Tied
    <3>1. Asks(p, c) /\ HeldFor(p, c) /\ Priv(p) /\ p # k
      BY <1>3, <1>4, <2>1 DEF TieOK, Tied, Priv, Client
    <3> DEFINE x == sock[p].tunnel
    <3>2. x \in Tunnels /\ InApp(x) /\ sock'[p].tunnel = x
      BY <1>1, <1>2, <3>1 DEF HeapInv, SockInTunnel, PoolInv, SocksOK, SockOK, Priv
    <3>3. tun[x].state = "connected_state" /\ \A j \in Socks : Unserved(j, c) => TiedTo(tun[x], j)
      BY <3>1 DEF HeldFor
    <3>4. \A j \in Socks : Unserved(j, c)' => Unserved(j, c) /\ c \notin served'
      BY <1>1, <1>3, <1>4 DEF Unserved
    <3>5. CASE x # r
      BY <2>1, <3>2, <3>3, <3>4, <3>5 DEF HeldFor, TiedTo
    <3>6. CASE x = r
      <4>1. \A j \in Socks : ~Unserved(j, c)'
        <5> SUFFICES ASSUME NEW j \in Socks, Unserved(j, c)'
                     PROVE  FALSE
          OBVIOUS
        <5>1. Unserved(j, c) /\ c \notin served'
          BY <3>4
        <5>2. j = k
          BY <2>1, <3>3, <3>6, <5>1 DEF TiedTo
        <5>3. who[k] = c
          BY <5>1, <5>2 DEF Unserved
        <5> QED BY <2>2, <3>1, <5>1, <5>3
      <4> QED BY <2>1, <3>2, <3>3, <3>6, <4>1 DEF HeldFor
    <3> QED BY <3>5, <3>6
  <2>4. RunServed'
    <3> SUFFICES ASSUME NEW x \in Tunnels, InApp(x)', tun'[x].remote # NULL
                 PROVE  tun'[x].status = "tunn_is_run" \/ who'[tun'[x].remote] \in served'
      BY DEF RunServed
    <3>1. InApp(x) /\ x # r
      BY <1>1, <2>1 DEF InApp
    <3> QED BY <1>1, <1>3, <2>1, <3>1 DEF TieOK, RunServed
  <2> QED BY <1>3, <1>5, <1>6, <2>3, <2>4 DEF TieOK
<1> QED BY <1>1, <1>7, <1>8, WriteCases

----------------------------------------------------------------------------
(* A connection is accepted.                                               *)

\* Who has sent nothing has asked nothing.
LEMMA SilentAsks ==
    ASSUME StreamInv, NEW p \in Socks, Priv(p), NEW c \in Clients, sent[c] = 0
    PROVE  ~Asks(p, c)
<1> DEFINE w == held[p].wbuf
<1>1. /\ Holds(held) /\ InLine(held, got) /\ got \in Seq(Delivered) /\ c # 0
  BY DEF StreamInv, Histories, Clients
<1>2. ~Carries(held, p, c)
  <2> SUFFICES ASSUME NEW i \in DOMAIN w, w[i].from = c
               PROVE  FALSE
    BY DEF Carries
  <2>1. w \in Seq(Named(Requests)) /\ Sent(w)
    BY <1>1 DEF Holds, HoldsAt, InLine
  <2> HIDE DEF w
  <2>2. w[i] \in Named(Requests)
    BY <2>1, LenProperties, ElementOfSeq
  <2>3. w[i].n \in 1..MaxPieces
    BY <1>1, <2>2 DEF Named, Anonymous, Requests
  <2>4. w[i].n <= 0
    BY <1>1, <2>1 DEF Sent
  <2> QED BY <2>3, <2>4
<1>3. c \notin Asked(p)
  <2> SUFFICES ASSUME NEW i \in DOMAIN got, got[i].from = c
               PROVE  FALSE
    BY DEF Asked
  <2>1. got[i] \in Delivered /\ Sent(got)
    BY <1>1, LenProperties, ElementOfSeq DEF InLine
  <2>2. got[i].n \in 1..MaxPieces
    BY <2>1 DEF Delivered
  <2>3. got[i].n <= 0
    BY <1>1, <2>1 DEF Sent
  <2> QED BY <2>2, <2>3
<1> QED BY <1>2, <1>3 DEF Asks

\* Nothing is asked on the accepted connection, or by its peer; on the others, what was.
LEMMA AcceptedAsks ==
    ASSUME StreamInv, GotOpened, NEW k \in Socks, NEW r \in Tunnels, Accepted(k, r), UNCHANGED <<held, got>>,
           \A j \in Socks : j # k => who'[j] = who[j],
           Priv(k)' => who'[k] > Opened, Opened \in Nat,
           Client(k)' => who'[k] \in Clients /\ sent[who'[k]] = 0
    PROVE  /\ \A p \in Socks, c \in Clients : Priv(p)' /\ Asks(p, c)' => p # k /\ Priv(p) /\ Asks(p, c)
           /\ \A p \in Socks : Priv(p) => Asked(p)' = Asked(p)
           /\ held[k] = Nothing
           /\ Client(k)' => \A p \in Socks : Priv(p) => ~Asks(p, who'[k])
<1>1. held[k] = Nothing /\ got \in Seq(Delivered)
  BY DEF StreamInv, Freed, Accepted, Histories
<1>2. \A p \in Socks : p # k => (Asked(p)' = Asked(p) /\ (Priv(p)' <=> Priv(p)))
  BY DEF Asked, Accepted, Priv
<1>3. ASSUME NEW c \in Clients, Priv(k)', Asks(k, c)'
      PROVE  FALSE
  <2>1. ~Carries(held', k, c)
    BY <1>1, NothingFine DEF Carries
  <2>2. PICK i \in DOMAIN got : got[i].to = who'[k]
    BY <1>3, <2>1 DEF Asks, Asked
  <2>3. got[i].to <= Opened /\ got[i].to \in Nat
    <3>1. got[i] \in Delivered
      BY <1>1, LenProperties, ElementOfSeq
    <3> QED BY <3>1 DEF GotOpened, Delivered, Connections
  <2> QED BY <1>3, <2>2, <2>3
<1>4. ~Priv(k)
  BY DEF Accepted, Priv
<1>5. \A p \in Socks, c \in Clients : Priv(p)' /\ Asks(p, c)' => p # k /\ Priv(p) /\ Asks(p, c)
  <2> SUFFICES ASSUME NEW p \in Socks, NEW c \in Clients, Priv(p)', Asks(p, c)'
               PROVE  p # k /\ Priv(p) /\ Asks(p, c)
    OBVIOUS
  <2>1. p # k
    BY <1>3
  <2>2. Priv(p) /\ Asked(p)' = Asked(p)
    BY <1>2, <2>1
  <2>3. Carries(held', p, c) => Carries(held, p, c)
    OBVIOUS
  <2> QED BY <2>1, <2>2, <2>3 DEF Asks
<1>6. Client(k)' => \A p \in Socks : Priv(p) => ~Asks(p, who'[k])
  BY SilentAsks
<1> QED BY <1>1, <1>2, <1>4, <1>5, <1>6

\* The tunnel it goes to was nobody's, or idle: held for none.
LEMMA AcceptedTie ==
    ASSUME HeapInv, PoolInv, StreamInv, TieOK, NEW k \in Socks, NEW r \in Tunnels, Accepted(k, r),
           UNCHANGED <<held, got, served>>, batch' \subseteq batch,
           \A j \in Socks : j # k => who'[j] = who[j],
           Priv(k)' => who'[k] > Opened, Opened \in Nat, Opened' \in Nat, Opened <= Opened',
           Client(k)' => who'[k] \in Clients /\ sent[who'[k]] = 0,
           \/ \A p \in Socks : Priv(p) => sock[p].tunnel # r
           \/ tun[r].status # "tunn_is_run" /\ tun'[r].state = "connected_state",
           \A x : InApp(x)' => InApp(x) \/ x = r,
           InApp(r)' => tun'[r].remote = NULL \/ tun'[r].status = "tunn_is_run"
    PROVE  TieOK'
<1>1. /\ \A p \in Socks, c \in Clients : Priv(p)' /\ Asks(p, c)' => p # k /\ Priv(p) /\ Asks(p, c)
      /\ \A p \in Socks : Priv(p) => Asked(p)' = Asked(p)
      /\ held[k] = Nothing
      /\ Client(k)' => \A p \in Socks : Priv(p) => ~Asks(p, who'[k])
  BY AcceptedAsks DEF TieOK
<1>2. \A j \in Socks : j # k => sock'[j] = sock[j] /\ (Priv(j)' <=> Priv(j)) /\ (Client(j)' <=> Client(j))
  BY DEF Accepted, Priv, Client
<1>3. AnswersAsked'
  <2> SUFFICES ASSUME NEW p \in Socks, Priv(p)', NEW z \in Seen(held[p]), z.to # 0
               PROVE  z.to \in Asked(p)'
    BY DEF AnswersAsked
  <2>1. Seen(Nothing) = {}
    BY NoneIn DEF Seen, Nothing
  <2>2. p # k
    BY <1>1, <2>1
  <2> QED BY <1>1, <1>2, <2>2 DEF TieOK, AnswersAsked
<1>4. GotOpened'
  <2> SUFFICES ASSUME NEW i \in DOMAIN got
               PROVE  got[i].to <= Opened'
    BY DEF GotOpened
  <2>1. got[i] \in Delivered
    BY LenProperties, ElementOfSeq DEF StreamInv, Histories
  <2>2. got[i].to \in Nat /\ got[i].to <= Opened
    BY <2>1 DEF Delivered, Connections, TieOK, GotOpened
  <2> QED BY <2>2
<1>5. Tied'
  <2> SUFFICES ASSUME NEW p \in Socks, NEW c \in Clients, Priv(p)', Asks(p, c)'
               PROVE  HeldFor(p, c)'
    BY DEF Tied
  <2> DEFINE x == sock[p].tunnel
  <2>1. p # k /\ Priv(p) /\ Asks(p, c) /\ sock'[p].tunnel = x /\ x \in Tunnels
    BY <1>1, <1>2 DEF HeapInv, SockInTunnel, Priv
  <2>2. tun[x].state = "connected_state" /\ \A j \in Socks : Unserved(j, c) => TiedTo(tun[x], j)
    BY <2>1 DEF TieOK, Tied, HeldFor
  <2>3. \A j \in Socks : Unserved(j, c)' => Unserved(j, c)
    <3> SUFFICES ASSUME NEW j \in Socks, Unserved(j, c)'
                 PROVE  Unserved(j, c)
      OBVIOUS
    <3>1. j # k
      BY <1>1, <2>1 DEF Unserved
    <3> QED BY <1>2, <3>1 DEF Unserved
  <2>4. CASE x # r
    <3>1. tun'[x] = tun[x]
      BY <2>1, <2>4 DEF Accepted
    <3> QED BY <2>1, <2>2, <2>3, <3>1 DEF HeldFor, TiedTo
  <2>5. CASE x = r
    <3>1. tun[r].status # "tunn_is_run" /\ tun'[r].state = "connected_state"
      BY <2>1, <2>5
    <3>2. \A j \in Socks : ~Unserved(j, c)'
      BY <2>2, <2>3, <2>5, <3>1 DEF TiedTo
    <3> QED BY <2>1, <2>5, <3>1, <3>2 DEF HeldFor
  <2> QED BY <2>4, <2>5
<1>6. RunServed'
  <2> SUFFICES ASSUME NEW x \in Tunnels, InApp(x)', tun'[x].remote # NULL
               PROVE  tun'[x].status = "tunn_is_run" \/ who'[tun'[x].remote] \in served'
    BY DEF RunServed
  <2>1. CASE x = r
    BY <2>1
  <2>2. CASE x # r
    <3>1. tun'[x] = tun[x] /\ InApp(x)
      BY <2>2 DEF Accepted
    <3>2. tun[x].remote # k
      <4>1. tun[x].remote # NULL => Client(tun[x].remote)
        BY EndsOf
      <4> QED BY <4>1, <3>1 DEF Client, Accepted
    <3>3. tun[x].remote \in Socks
      BY <3>1, EndsOf
    <3> QED BY <3>1, <3>2, <3>3 DEF TieOK, RunServed
  <2> QED BY <2>1, <2>2
<1>7. NoFalseWrite'
  <2> SUFFICES ASSUME NEW j \in Socks, Client(j)', OutEvent(j) \in batch', ~sock'[j].wbuf
               PROVE  ~sock'[j].rbuf /\ \A p \in Socks : Priv(p)' => ~Asks(p, who[j])'
    BY DEF NoFalseWrite
  <2>1. CASE j = k
    <3>1. PICK c \in Clients : c = who'[k]
      BY <2>1
    <3>2. \A p \in Socks : Priv(p)' => ~Asks(p, c)'
      BY <1>1, <2>1, <3>1
    <3> QED BY <2>1, <3>1, <3>2 DEF Accepted
  <2>2. CASE j # k
    <3>1. PICK c \in Clients : c = who[j] /\ c = who'[j]
      BY <1>2, <2>2 DEF StreamInv, WhoOK
    <3>2. ~sock[j].rbuf /\ \A p \in Socks : Priv(p) => ~Asks(p, c)
      BY <1>2, <2>2, <3>1 DEF TieOK, NoFalseWrite
    <3>3. \A p \in Socks : Priv(p)' => ~Asks(p, c)'
      BY <1>1, <3>2
    <3> QED BY <1>2, <2>2, <3>1, <3>2, <3>3
  <2> QED BY <2>1, <2>2
<1> QED BY <1>3, <1>4, <1>5, <1>6, <1>7 DEF TieOK

\* The tunnel of the connection that is accepted: no private socket's, or idle and now in use.
Placed(r) ==
    /\ \/ \A p \in Socks : Priv(p) => sock[p].tunnel # r
       \/ tun[r].status # "tunn_is_run" /\ tun'[r].state = "connected_state"
    /\ \A x : InApp(x)' => InApp(x) \/ x = r
    /\ InApp(r)' => tun'[r].remote = NULL \/ tun'[r].status = "tunn_is_run"

\* There is one accepted connection.
LEMMA OneAccepted ==
    ASSUME HeapInv, NEW k \in Socks, ~sock[k].alloc, NEW r, NEW ispriv,
           sock' = [sock EXCEPT ![k] = NewSock(r, ispriv)],
           NEW j \in Socks, NEW x \in Tunnels, Accepted(j, x)
    PROVE  j = k /\ x = r
<1> DEFINE b == NewSock(r, ispriv)
<1>1. b.alloc /\ b.tunnel = r
  BY NewSockHolds
<1>2. sock \in [Socks -> Sock] /\ sock' = [sock EXCEPT ![k] = b]
  BY DEF HeapInv
<1> HIDE DEF b
<1>3. sock'[k] = b
  BY <1>2
<1> QED BY <1>1, <1>3 DEF Accepted

LEMMA AcceptPrivPlaced ==
    ASSUME IInv, PoolInv, AcceptPriv
    PROVE  \E k \in Socks, r \in Tunnels : Accepted(k, r) /\ sock'[k].ispriv /\ Placed(r)
<1>1. HeapInv /\ LoopOK /\ tun \in [Tunnels -> Tunnel]
  BY DEF IInv, HeapInv
<1>2. PICK j \in Socks, x \in Tunnels : Accepted(j, x) /\ sock'[j].ispriv
  BY AcceptPrivMoves
<1>3. PICK k \in Socks, r \in Tunnels :
        /\ ~sock[k].alloc
        /\ \/ r \in AppListFnd("tunn_is_free") /\ ReusePriv(r, k)
           \/ r = Fresh /\ NewPriv(r, k)
        /\ sock' = [sock EXCEPT ![k] = NewSock(r, TRUE)]
  BY DEF AcceptPriv
<1>4. j = k /\ x = r
  BY <1>1, <1>2, <1>3, OneAccepted
<1>5. \A p \in Socks : Priv(p) /\ sock[p].tunnel = r => InApp(r) /\ tun[r].priv = p
  BY DEF PoolInv, SocksOK, SockOK, Priv
<1>6. CASE r \in AppListFnd("tunn_is_free") /\ ReusePriv(r, k)
  <2>1. InApp(r) /\ tun[r].status = "tunn_is_free"
    BY <1>1, <1>6, FoundInApp
  <2>2. tun[r].priv = NULL
    BY <2>1 DEF PoolInv, TunnelsOK, AppT
  <2> DEFINE t == [tun[r] EXCEPT !.state = "open_state", !.status = "tunn_is_run", !.priv = k]
  <2>3. t.status = "tunn_is_run"
    BY <1>1 DEF Tunnel
  <2>4. tun' = [tun EXCEPT ![r] = t] /\ UNCHANGED appList
    BY <1>6 DEF ReusePriv
  <2> HIDE DEF t
  <2>5. tun'[r].status = "tunn_is_run" /\ \A y : InApp(y)' => InApp(y)
    BY <1>1, <2>3, <2>4 DEF InApp
  <2> QED BY <1>2, <1>4, <1>5, <2>2, <2>5 DEF Placed
<1>7. CASE r = Fresh /\ NewPriv(r, k)
  <2>1. ~InApp(r)
    BY <1>7 DEF PoolInv, ListsApart, Tunnels
  <2>2. \A y : InApp(y)' => InApp(y) \/ y = r
    BY <1>1, <1>7, FrontOf DEF NewPriv, InApp, LoopOK
  <2> DEFINE t == [ZeroTunnel EXCEPT !.priv = k]
  <2>3. t.remote = NULL
    BY DEF ZeroTunnel
  <2>4. tun' = [tun EXCEPT ![r] = t]
    BY <1>7 DEF NewPriv
  <2> HIDE DEF t
  <2>5. tun'[r].remote = NULL
    BY <1>1, <2>3, <2>4
  <2> QED BY <1>2, <1>4, <1>5, <2>1, <2>2, <2>5 DEF Placed
<1> QED BY <1>3, <1>6, <1>7

LEMMA AcceptRemotePlaced ==
    ASSUME IInv, PoolInv, AcceptRemote, fault' = "none"
    PROVE  \E k \in Socks, r \in Tunnels : Accepted(k, r) /\ ~sock'[k].ispriv /\ Placed(r)
<1>1. HeapInv /\ LoopOK /\ ListsOK /\ tun \in [Tunnels -> Tunnel] /\ UNCHANGED appList
  BY DEF IInv, HeapInv, AcceptRemote
<1>2. PICK j \in Socks, x \in Tunnels : Accepted(j, x) /\ ~sock'[j].ispriv
  BY AcceptRemoteMoves
<1>3. PICK k \in Socks :
        /\ ~sock[k].alloc
        /\ \/ \E r \in AppListFnd("tunn_is_idle") : BindRemote(r, k)
           \/ \E w \in WaitObj : ParkRemote(w, k)
  BY DEF AcceptRemote
<1>4. \A y : InApp(y)' => InApp(y)
  BY <1>1 DEF InApp
<1>5. ASSUME NEW r \in AppListFnd("tunn_is_idle"), BindRemote(r, k)
      PROVE  \E q \in Socks, y \in Tunnels : Accepted(q, y) /\ ~sock'[q].ispriv /\ Placed(y)
  <2>1. InApp(r) /\ tun[r].status = "tunn_is_idle" /\ r \in Tunnels
    BY <1>1, <1>5, FoundInApp
  <2> DEFINE t == [tun[r] EXCEPT !.status = "tunn_is_run", !.state = "connected_state", !.remote = k]
  <2>2. t.state = "connected_state" /\ t.status = "tunn_is_run"
    BY <1>1, <2>1 DEF Tunnel
  <2>3. tun' = [tun EXCEPT ![r] = t] /\ sock' = [sock EXCEPT ![k] = NewSock(r, FALSE)]
    BY <1>5 DEF BindRemote, Crash
  <2> HIDE DEF t
  <2>4. tun'[r].state = "connected_state" /\ tun'[r].status = "tunn_is_run"
    BY <1>1, <2>1, <2>2, <2>3
  <2>5. j = k /\ x = r
    BY <1>1, <1>2, <1>3, <2>3, OneAccepted
  <2> QED BY <1>2, <1>4, <2>1, <2>4, <2>5 DEF Placed
<1>6. ASSUME NEW w \in WaitObj, ParkRemote(w, k)
      PROVE  \E q \in Socks, y \in Tunnels : Accepted(q, y) /\ ~sock'[q].ispriv /\ Placed(y)
  <2>1. w \in Tunnels /\ ~InApp(w)
    BY <1>1, <1>6, EntryTaken DEF ParkRemote
  <2>2. sock' = [sock EXCEPT ![k] = NewSock(w, FALSE)]
    BY <1>6 DEF ParkRemote
  <2>3. j = k /\ x = w
    BY <1>1, <1>2, <1>3, <2>2, OneAccepted
  <2>4. \A p \in Socks : Priv(p) => sock[p].tunnel # w
    BY <2>1 DEF PoolInv, SocksOK, SockOK, Priv
  <2> QED BY <1>2, <1>4, <2>1, <2>3, <2>4 DEF Placed
<1> QED BY <1>3, <1>5, <1>6

LEMMA StreamAcceptTie ==
    ASSUME IInv, IInv', PoolInv, StreamInv, TieOK, StreamAccept, fault' = "none"
    PROVE  TieOK'
<1>1. /\ HeapInv /\ HeapInv' /\ batch' \subseteq batch
      /\ dials["rmtfd"] \in Nat /\ dials'["rmtfd"] \in Nat
      /\ dials["listenfd"] \in Nat /\ dials'["listenfd"] \in Nat
      /\ dials["listenfd"] <= MaxPriv
  BY DEF IInv, LoopOK, Listeners, StreamAccept, AcceptPriv, AcceptRemote, Consume, StreamInv, WhoOK
<1>2. /\ UNCHANGED <<held, got, served, sent>>
      /\ who' = [k \in Socks |-> IF ~sock'[k].alloc \/ sock[k].alloc THEN who[k]
                                 ELSE IF sock'[k].ispriv THEN 1 + MaxPriv - dials["listenfd"]
                                 ELSE 1 + MaxRmt - dials["rmtfd"]]
  BY DEF StreamAccept, Same, Unsent
<1>3. ASSUME NEW k \in Socks, NEW r \in Tunnels, Accepted(k, r), Placed(r),
             dials'["rmtfd"] = IF sock'[k].ispriv THEN dials["rmtfd"] ELSE dials["rmtfd"] - 1,
             dials'["listenfd"] = IF sock'[k].ispriv THEN dials["listenfd"] - 1 ELSE dials["listenfd"]
      PROVE  TieOK'
  <2>1. sock'[k].ispriv \in BOOLEAN
    BY <1>1 DEF HeapInv, Sock
  <2>2. /\ \A j \in Socks : j # k => who'[j] = who[j]
        /\ Client(k)' => who'[k] \in Clients /\ sent[who'[k]] = 0
    BY <1>1, <1>2, <1>3, <2>1, AcceptedWho
  <2>3. Opened \in Nat /\ Opened' \in Nat /\ Opened <= Opened'
    <3> DEFINE d == dials["listenfd"]
               e == dials'["listenfd"]
    <3>1. d \in Nat /\ e \in Nat /\ d <= MaxPriv /\ e <= d /\ MaxPriv \in Nat
      BY <1>1, <1>3
    <3> HIDE DEF d, e
    <3>2. Opened = MaxPriv - d /\ Opened' = MaxPriv - e
      BY DEF Opened, d, e
    <3> QED BY <3>1, <3>2
  <2>4. Priv(k)' => who'[k] > Opened
    <3> DEFINE d == dials["listenfd"]
    <3>1. Priv(k)' => who'[k] = 1 + MaxPriv - d
      BY <1>2, <1>3 DEF Priv, Accepted
    <3>2. d \in Nat /\ MaxPriv \in Nat
      BY <1>1
    <3>3. Opened = MaxPriv - d
      BY DEF Opened
    <3> HIDE DEF d
    <3>4. 1 + MaxPriv - d > MaxPriv - d
      BY <3>2
    <3> QED BY <3>1, <3>3, <3>4
  <2>5. /\ \/ \A p \in Socks : Priv(p) => sock[p].tunnel # r
           \/ tun[r].status # "tunn_is_run" /\ tun'[r].state = "connected_state"
        /\ \A x : InApp(x)' => InApp(x) \/ x = r
        /\ InApp(r)' => tun'[r].remote = NULL \/ tun'[r].status = "tunn_is_run"
    BY <1>3 DEF Placed
  <2> QED BY <1>1, <1>2, <1>3, <2>2, <2>3, <2>4, <2>5, AcceptedTie
<1>4. CASE AcceptPriv
  BY <1>3, <1>4, AcceptPrivPlaced, AcceptPrivMoves
<1>5. CASE AcceptRemote
  BY <1>3, <1>5, AcceptRemotePlaced, AcceptRemoteMoves
<1> QED BY <1>4, <1>5 DEF StreamAccept

----------------------------------------------------------------------------
(* A parked client is paired.                                              *)

\* It goes to an idle tunnel, which keeps its state; the entry it leaves is in no list
\* of tunnels.
LEMMA PairedIdle ==
    ASSUME IInv, PoolInv, PairBind, NEW w \in Tunnels, NEW r \in Tunnels, NEW k \in Socks, Paired(w, r, k)
    PROVE  /\ tun[r].status = "tunn_is_idle" /\ tun'[r].status = "tunn_is_run" /\ tun'[r].state = tun[r].state
           /\ ~InApp(w)
<1>1. HeapInv /\ LoopOK /\ AtIdle /\ scan \in DOMAIN appList
  BY BindAt DEF IInv
<1> DEFINE x == appList[scan]
<1>2. x \in Tunnels /\ tun[x].status = "tunn_is_idle"
  BY ONLY <1>1 DEF LoopOK, AtIdle
<1>3. PICK i \in First(WaitPending) :
        LET j == tun[waitList[i]].remote
            p == tun[x].priv
        IN  /\ tun' = [[tun EXCEPT ![waitList[i]] = LetGo(@, "tmptun_is_free")]
                         EXCEPT ![x] = [@ EXCEPT !.status = "tunn_is_run", !.remote = j]]
            /\ sock' = IF p # NULL /\ sock[j].rbuf
                       THEN [Relay(sock, j, p) EXCEPT ![j] = [@ EXCEPT !.tunnel = x]]
                       ELSE [sock EXCEPT ![j] = [@ EXCEPT !.tunnel = x]]
  BY DEF PairBind
<1> DEFINE v == waitList[i]
           j == tun[v].remote
<1>4. /\ v \in Tunnels /\ tun[v].state = "tunnel_waitting" /\ ~InApp(v)
      /\ j \in Socks /\ sock[j].tunnel = v /\ ~sock[j].rbuf
  BY PairedClient
<1>5. tun \in [Tunnels -> Tunnel] /\ sock \in [Socks -> Sock] /\ tun[x] \in Tunnel /\ sock[j] \in Sock
  BY <1>1, <1>2, <1>4 DEF HeapInv
<1>6. InApp(x)
  BY <1>1 DEF InApp
<1>7. /\ tun' = [[tun EXCEPT ![v] = LetGo(@, "tmptun_is_free")]
                   EXCEPT ![x] = [@ EXCEPT !.status = "tunn_is_run", !.remote = j]]
      /\ sock' = [sock EXCEPT ![j] = [sock[j] EXCEPT !.tunnel = x]]
  BY <1>3, <1>4
<1> HIDE DEF x, v, j
<1>8. v # x
  BY <1>4, <1>6
<1>9. tun'[x] = [tun[x] EXCEPT !.status = "tunn_is_run", !.remote = j]
  BY <1>2, <1>4, <1>5, <1>7, <1>8
<1>10. tun'[x].status = "tunn_is_run" /\ tun'[x].state = tun[x].state
  BY <1>5, <1>9 DEF Tunnel
<1>11. sock'[j].tunnel = x /\ \A q \in Socks : q # j => sock'[q] = sock[q]
  BY <1>4, <1>5, <1>7 DEF Sock
<1>12. k = j
  BY <1>11 DEF Paired
<1>13. r = x /\ w = v
  BY <1>4, <1>11, <1>12 DEF Paired
<1> QED BY <1>2, <1>4, <1>10, <1>13

LEMMA StreamPairTie ==
    ASSUME IInv, IInv', PoolInv, BatchFirst, StreamInv, TieOK, StreamPair
    PROVE  TieOK'
<1>1. /\ HeapInv /\ PairBind /\ UNCHANGED <<who, sent, got, served, dials, batch, appList>>
      /\ batch' = {}
  BY DEF IInv, StreamPair, Unsent, PairBind, Running, BatchFirst
<1>2. PICK w \in Tunnels, r \in Tunnels, k \in Socks : Paired(w, r, k)
  BY <1>1, PairMoves
<1>3. \A j \in Socks : sock'[j].alloc <=> sock[j].alloc
  BY <1>2, PairSides
<1>4. Settle(held)
  BY <1>3, PairHeld
<1>5. /\ tun[r].status = "tunn_is_idle" /\ tun'[r].status = "tunn_is_run" /\ tun'[r].state = tun[r].state
      /\ ~InApp(w)
  BY <1>1, <1>2, PairedIdle
<1>6. /\ \A j \in Socks : (Client(j)' <=> Client(j))
      /\ \A p \in Socks : Priv(p)' => Priv(p) /\ sock'[p] = sock[p] /\ held'[p] = held[p]
  BY <1>2, <1>4, SettledAt DEF Paired, Client, Priv
<1>7. \A x \in Tunnels : x \notin {w, r} => tun'[x] = tun[x]
  BY <1>2 DEF Paired
<1>8. \A p : Asked(p)' = Asked(p)
  BY <1>1 DEF Asked
<1>9. AnswersAsked'
  BY <1>6, <1>8 DEF TieOK, AnswersAsked
<1>10. GotOpened'
  BY <1>1 DEF TieOK, GotOpened, Opened
<1>11. NoFalseWrite'
  BY <1>1 DEF NoFalseWrite
<1>12. Tied'
  <2> SUFFICES ASSUME NEW p \in Socks, NEW c \in Clients, Priv(p)', Asks(p, c)'
               PROVE  HeldFor(p, c)'
    BY DEF Tied
  <2> DEFINE x == sock[p].tunnel
  <2>1. Priv(p) /\ Asks(p, c) /\ sock'[p].tunnel = x
    BY <1>6, <1>8 DEF Asks, Carries
  <2>2. x \in Tunnels /\ x # w
    BY <1>1, <1>5, <2>1 DEF HeapInv, SockInTunnel, PoolInv, SocksOK, SockOK, Priv
  <2>3. tun[x].state = "connected_state" /\ \A j \in Socks : Unserved(j, c) => TiedTo(tun[x], j)
    BY <2>1 DEF TieOK, Tied, HeldFor
  <2>4. \A j \in Socks : Unserved(j, c)' => Unserved(j, c)
    BY <1>1, <1>6 DEF Unserved
  <2>5. CASE x = r
    <3>1. \A j \in Socks : ~Unserved(j, c)'
      BY <1>5, <2>3, <2>4, <2>5 DEF TiedTo
    <3> QED BY <1>5, <2>1, <2>3, <2>5, <3>1 DEF HeldFor
  <2>6. CASE x # r
    <3>1. tun'[x] = tun[x]
      BY <1>7, <2>2, <2>6
    <3> QED BY <2>1, <2>3, <2>4, <3>1 DEF HeldFor, TiedTo
  <2> QED BY <2>5, <2>6
<1>13. RunServed'
  <2> SUFFICES ASSUME NEW x \in Tunnels, InApp(x)', tun'[x].remote # NULL
               PROVE  tun'[x].status = "tunn_is_run" \/ who'[tun'[x].remote] \in served'
    BY DEF RunServed
  <2>1. InApp(x) /\ x # w
    BY <1>1, <1>5 DEF InApp
  <2> QED BY <1>1, <1>5, <1>7, <2>1 DEF TieOK, RunServed
<1> QED BY <1>9, <1>10, <1>11, <1>12, <1>13 DEF TieOK

----------------------------------------------------------------------------
(* The steps that bind, relay and write nothing.                           *)

\* What they leave alone: the tunnels, and whom each socket belongs to.
Still == /\ UNCHANGED <<tun, appList, dials, who, got, served>>
         /\ \A j \in Socks : /\ sock'[j].alloc = sock[j].alloc /\ sock'[j].ispriv = sock[j].ispriv
                             /\ sock'[j].tunnel = sock[j].tunnel
                             /\ sock'[j].wbuf = sock[j].wbuf /\ sock'[j].rbuf = sock[j].rbuf
                             /\ held'[j].wbuf = held[j].wbuf

LEMMA StillTie ==
    ASSUME TieOK, Still, AnswersAsked',
           \A j \in Socks : Client(j) /\ OutEvent(j) \in batch' /\ ~sock[j].wbuf => OutEvent(j) \in batch
    PROVE  TieOK'
<1>1. \A j \in Socks : (Client(j)' <=> Client(j)) /\ (Priv(j)' <=> Priv(j))
  BY DEF Still, Client, Priv
<1>2. \A p \in Socks : \A c : Asks(p, c)' <=> Asks(p, c)
  BY DEF Asks, Asked, Carries, Still
<1>3. GotOpened'
  BY DEF TieOK, GotOpened, Opened, Still
<1>4. Tied'
  <2>1. \A j \in Socks : \A c : Unserved(j, c)' <=> Unserved(j, c)
    BY <1>1 DEF Unserved, Still
  <2>2. \A p \in Socks : \A c : HeldFor(p, c) => HeldFor(p, c)'
    BY <2>1 DEF HeldFor, TiedTo, Still
  <2> QED BY <1>1, <1>2, <2>2 DEF TieOK, Tied
<1>5. RunServed'
  BY DEF TieOK, RunServed, InApp, Still
<1>6. NoFalseWrite'
  <2> SUFFICES ASSUME NEW j \in Socks, Client(j)', OutEvent(j) \in batch', ~sock'[j].wbuf
               PROVE  ~sock'[j].rbuf /\ \A p \in Socks : Priv(p)' => ~Asks(p, who[j])'
    BY DEF NoFalseWrite, Still
  <2>1. ~sock[j].rbuf /\ \A p \in Socks : Priv(p) => ~Asks(p, who[j])
    BY <1>1 DEF TieOK, NoFalseWrite, Still
  <2>2. who'[j] = who[j] /\ ~sock'[j].rbuf
    BY <2>1 DEF Still
  <2>3. \A p \in Socks : Priv(p)' => ~Asks(p, who[j])'
    BY <1>1, <2>1, <2>2 DEF Asks, Asked, Carries, Still
  <2> QED BY <2>2, <2>3
<1> QED BY <1>3, <1>4, <1>5, <1>6 DEF TieOK

\* Only a socket with something to write is watched for room, unless it is a private one.
LEMMA EpollTie ==
    ASSUME AllArmed(sock), EpollWait
    PROVE  \A j \in Socks : Client(j) /\ OutEvent(j) \in batch' => sock[j].wbuf
<1>1. PICK more \in SUBSET MayReport :
        batch' \in IF Cardinality(MustReport \cup more) <= MaxEvents THEN {MustReport \cup more}
                   ELSE kSubset(MaxEvents, MustReport \cup more)
  BY DEF EpollWait
<1>2. batch' \subseteq MustReport \cup MayReport
  BY <1>1 DEF kSubset
<1>3. \A j \in Socks : OutEvent(j) \in MustReport \cup MayReport => OutReady(j)
  BY ListenersAssumption DEF MustReport, MayReport, Listeners, OutEvent
<1> QED BY <1>2, <1>3 DEF OutReady, AllArmed, Armed, Client

LEMMA QuietTie ==
    ASSUME IInv, AllArmed(sock), TieOK, fault' = "none",
           \/ EpollWait \/ PairSkip \/ PairingDone \/ \E l \in Listeners : AcceptFails(l)
           \/ \E k \in Socks : StaleEvent(k) \/ PeerFin(k) \/ PeerReset(k),
           Same, Unsent, UNCHANGED <<who, served>>
    PROVE  TieOK'
<1>1. UNCHANGED <<held, who, got, served>>
  BY DEF Same, Unsent
<1>2. \A k \in Socks : ~StaleEvent(k)
  BY DEF StaleEvent, Crash
<1>3. CASE EpollWait \/ PairSkip \/ PairingDone \/ \E l \in Listeners : AcceptFails(l)
  <2>1. UNCHANGED <<sock, tun, appList, dials>>
    BY <1>3 DEF EpollWait, PairSkip, PairingDone, AcceptFails
  <2>2. Still /\ AnswersAsked'
    BY <1>1, <2>1 DEF Still, TieOK, AnswersAsked, Priv, Asked
  <2>3. \A j \in Socks : Client(j) /\ OutEvent(j) \in batch' /\ ~sock[j].wbuf => OutEvent(j) \in batch
    <3>1. batch' \subseteq batch \/ EpollWait
      BY <1>3 DEF PairSkip, PairingDone, AcceptFails
    <3> QED BY <3>1, EpollTie
  <2> QED BY <2>2, <2>3, StillTie
<1>4. ASSUME NEW k \in Socks, PeerFin(k) \/ PeerReset(k)
      PROVE  TieOK'
  <2>1. UNCHANGED <<tun, appList, dials, batch>>
    BY <1>4 DEF PeerFin, PeerReset, Peer
  <2>2. sock \in [Socks -> Sock] /\ sock[k] \in Sock
    BY DEF IInv, HeapInv
  <2>3. /\ \A j \in Socks : j # k => sock'[j] = sock[j]
        /\ \/ sock'[k] = [sock[k] EXCEPT !.peer = "fin"]
           \/ sock'[k] = [sock[k] EXCEPT !.peer = "rst"]
    BY <1>4, <2>2 DEF PeerFin, PeerReset
  <2>4. /\ sock'[k].alloc = sock[k].alloc /\ sock'[k].ispriv = sock[k].ispriv
        /\ sock'[k].tunnel = sock[k].tunnel
        /\ sock'[k].wbuf = sock[k].wbuf /\ sock'[k].rbuf = sock[k].rbuf
    BY <2>2, <2>3 DEF Sock
  <2>5. Still
    BY <1>1, <2>1, <2>3, <2>4 DEF Still
  <2>6. AnswersAsked'
    BY <1>1, <2>5 DEF Still, TieOK, AnswersAsked, Priv, Asked
  <2> QED BY <2>1, <2>5, <2>6, StillTie
<1> QED BY <1>2, <1>3, <1>4

\* A peer sends: a private one nothing but what it was asked for.
LEMMA SendsTie ==
    ASSUME IInv, StreamInv, TieOK, NEW k \in Socks, PeerSend(k), NEW z,
           held' = [held EXCEPT ![k] = [@ EXCEPT !.rx = <<z>>]], UNCHANGED <<who, got, served>>,
           Priv(k) /\ z.to # 0 => z.to \in Asked(k)
    PROVE  TieOK'
<1> DEFINE x == held[k]
           y == [x EXCEPT !.rx = <<z>>]
<1>1. /\ HeapInv /\ held \in [Socks -> Buffers] /\ x \in Buffers /\ sock \in [Socks -> Sock] /\ sock[k] \in Sock
      /\ sock' = [sock EXCEPT ![k] = [sock[k] EXCEPT !.rx = TRUE]] /\ UNCHANGED <<tun, appList, dials, batch>>
  BY PeerSends DEF HeapInv, PeerSend, Peer
<1>2. /\ \A j \in Socks : j # k => held'[j] = held[j] /\ sock'[j] = sock[j]
      /\ held'[k] = y /\ sock'[k] = [sock[k] EXCEPT !.rx = TRUE]
  BY <1>1
<1>3. y.rx = <<z>> /\ y.rbuf = x.rbuf /\ y.wbuf = x.wbuf
  BY <1>1 DEF Buffers
<1>4. /\ sock'[k].alloc = sock[k].alloc /\ sock'[k].ispriv = sock[k].ispriv
      /\ sock'[k].tunnel = sock[k].tunnel
      /\ sock'[k].wbuf = sock[k].wbuf /\ sock'[k].rbuf = sock[k].rbuf
  BY <1>1, <1>2 DEF Sock
<1> HIDE DEF y
<1>5. Still
  BY <1>1, <1>2, <1>3, <1>4 DEF Still
<1>6. AnswersAsked'
  <2> SUFFICES ASSUME NEW p \in Socks, Priv(p)', NEW u \in Seen(held'[p]), u.to # 0
               PROVE  u.to \in Asked(p)
    BY DEF AnswersAsked, Asked
  <2>1. Priv(p)
    BY <1>5 DEF Still, Priv
  <2>2. CASE p # k
    BY <1>2, <2>1, <2>2 DEF TieOK, AnswersAsked
  <2>3. CASE p = k
    <3>1. ToSet(<<z>>) = {z}
      BY DEF ToSet
    <3>2. u = z \/ u \in Seen(held[k])
      BY <1>2, <1>3, <2>3, <3>1 DEF Seen
    <3> QED BY <2>1, <2>3, <3>2 DEF TieOK, AnswersAsked
  <2> QED BY <2>2, <2>3
<1> QED BY <1>1, <1>5, <1>6, StillTie

LEMMA PeersTie ==
    ASSUME IInv, StreamInv, TieOK, NEW k \in Socks, ClientSends(k) \/ PrivateShakes(k) \/ PrivateAnswers(k)
    PROVE  TieOK'
<1>1. PeerSend(k) /\ UNCHANGED <<who, got, served>>
  BY DEF ClientSends, PrivateShakes, PrivateAnswers
<1>2. CASE ClientSends(k)
  <2>1. /\ held' = [held EXCEPT ![k] = [@ EXCEPT !.rx = <<[from |-> who[k], n |-> sent[who[k]] + 1, to |-> 0]>>]]
        /\ ~Priv(k)
    BY <1>2 DEF ClientSends, Priv
  <2> QED BY <1>1, <2>1, SendsTie
<1>3. CASE PrivateShakes(k)
  <2>1. held' = [held EXCEPT ![k] = [@ EXCEPT !.rx = <<Anonymous>>]] /\ Anonymous.to = 0
    BY <1>3 DEF PrivateShakes, Anonymous
  <2> QED BY <1>1, <2>1, SendsTie
<1>4. CASE PrivateAnswers(k)
  <2>1. PICK c \in Asked(k) :
          held' = [held EXCEPT ![k] = [@ EXCEPT !.rx = <<[from |-> 0, n |-> sent[0] + 1, to |-> c]>>]]
    BY <1>4 DEF PrivateAnswers
  <2> DEFINE z == [from |-> 0, n |-> sent[0] + 1, to |-> c]
  <2>2. z.to \in Asked(k)
    OBVIOUS
  <2>3. held' = [held EXCEPT ![k] = [@ EXCEPT !.rx = <<z>>]]
    BY <2>1
  <2> HIDE DEF z
  <2> QED BY <1>1, <2>2, <2>3, SendsTie
<1> QED BY <1>2, <1>3, <1>4

----------------------------------------------------------------------------
(* Every step.                                                             *)

LEMMA TieInitInv ==
    ASSUME StreamsInit
    PROVE  TieInv /\ OneEvent /\ AllArmed(sock)
<1>1. /\ batch = {} /\ appList = <<>> /\ got = <<>>
      /\ \A k \in Socks : ~sock[k].alloc
  BY DEF StreamsInit, Init, NoSock
<1>2. AnswersAsked /\ GotOpened /\ Tied /\ RunServed /\ NoFalseWrite
  BY <1>1 DEF AnswersAsked, GotOpened, Tied, RunServed, NoFalseWrite, InApp, Priv
<1> QED BY <1>1, <1>2 DEF TieInv, TieOK, OneEvent, AllArmed

LEMMA StreamsTie ==
    ASSUME PoolIInv, StreamInv, StreamInv', OneEvent, AllArmed(sock), TieInv, StreamsNext
    PROVE  TieInv' /\ Caused
<1>1. IInv /\ PoolInv /\ BatchFirst /\ HeapInv
  BY DEF PoolIInv, IInv
<1>2. IInv' /\ HeapInv'
  BY NextPool, StreamsStep DEF PoolIInv, IInv
<1>3. given' = given => Caused
  BY DEF Caused
<1>4. CASE StreamAccept
  <2>1. fault = "none" /\ given' = given
    BY <1>4 DEF StreamAccept, AcceptPriv, AcceptRemote, Consume, Running, Same
  <2> QED BY <1>1, <1>2, <1>3, <1>4, <2>1, StreamAcceptTie DEF TieInv
<1>5. CASE StreamPair
  <2>1. fault = "none" /\ PairBind
    BY <1>5 DEF StreamPair, PairBind, Running
  <2>2. PICK w \in Tunnels, r \in Tunnels, k \in Socks : Paired(w, r, k)
    BY <1>1, <2>1, PairMoves
  <2>3. \A j \in Socks : sock'[j].alloc <=> sock[j].alloc
    BY <1>1, <1>2, <2>2, PairSides
  <2>4. given' = given
    BY <1>1, <1>5, <2>3, PairHeld
  <2> QED BY <1>1, <1>2, <1>3, <1>5, <2>1, <2>4, StreamPairTie DEF TieInv
<1>6. ASSUME NEW k \in Socks, StreamRead(k)
      PROVE  TieInv' /\ Caused
  <2>1. fault = "none" /\ sock[k].alloc /\ TakeRead(k)
    BY <1>6 DEF StreamRead, ReadHandle, Consume, Running
  <2>2. Gives
    BY <1>1, <1>2, <2>1, ReadFlows
  <2> QED BY <1>1, <1>2, <1>6, <2>1, <2>2, GivesCaused, StreamReadTie DEF TieInv
<1>7. ASSUME NEW k \in Socks, StreamWrite(k)
      PROVE  TieInv' /\ Caused
  <2>1. fault = "none" /\ given' = given
    BY <1>7 DEF StreamWrite, WriteHandle, Consume, Running
  <2> QED BY <1>1, <1>3, <1>7, <2>1, StreamWriteTie DEF TieInv
<1>8. ASSUME NEW k \in Socks, ClientSends(k) \/ PrivateShakes(k) \/ PrivateAnswers(k)
      PROVE  TieInv' /\ Caused
  <2>1. fault = "none" /\ given' = given
    BY <1>8 DEF ClientSends, PrivateShakes, PrivateAnswers, PeerSend, Peer
  <2> QED BY <1>1, <1>3, <1>8, <2>1, PeersTie DEF TieInv
<1>9. CASE /\ \/ EpollWait \/ PairSkip \/ PairingDone \/ \E l \in Listeners : AcceptFails(l)
              \/ \E k \in Socks : StaleEvent(k) \/ PeerFin(k) \/ PeerReset(k)
           /\ Same /\ Unsent /\ UNCHANGED <<who, served>>
  <2>1. fault = "none" /\ given' = given
    BY <1>9 DEF EpollWait, PairSkip, PairingDone, AcceptFails, StaleEvent, Consume, PeerFin, PeerReset, Peer,
                Running, Same
  <2> QED BY <1>1, <1>3, <1>9, <2>1, QuietTie DEF TieInv
<1> QED BY <1>4, <1>5, <1>6, <1>7, <1>8, <1>9 DEF StreamsNext

LEMMA StutterTie ==
    ASSUME TieInv, UNCHANGED streamVars
    PROVE  TieInv'
<1>1. UNCHANGED <<tun, sock, appList, dials, batch, fault, held, who, got, served>>
  BY DEF streamVars, vars
<1>2. CASE fault = "none"
  <2>1. Still /\ TieOK /\ AnswersAsked'
    BY <1>1, <1>2 DEF Still, TieInv, TieOK, AnswersAsked, Priv, Asked
  <2> QED BY <1>1, <2>1, StillTie DEF TieInv
<1> QED BY <1>1, <1>2 DEF TieInv

\* A client is given another client's answer only when that one is gone or was taken for
\* served: until then the tunnel on which it has asked is in use, by it or by nobody, and
\* the next client goes to another tunnel or waits.
THEOREM MisdeliveryCaused == StreamsSpec => MisdeliveryHasCause
<1>1. StreamsInit => TieInv /\ OneEvent /\ AllArmed(sock)
  BY TieInitInv
<1>2. PoolIInv /\ StreamInv /\ OneEvent /\ AllArmed(sock) /\ TieInv /\ [StreamsNext]_streamVars =>
        (OneEvent /\ AllArmed(sock) /\ TieInv)'
  <2> SUFFICES ASSUME PoolIInv, StreamInv, OneEvent, AllArmed(sock), TieInv, [StreamsNext]_streamVars
               PROVE  (OneEvent /\ AllArmed(sock) /\ TieInv)'
    OBVIOUS
  <2>1. [Next]_vars
    BY StreamsStep
  <2>2. OneEvent' /\ AllArmed(sock')
    BY <2>1, NextOneEvent, NextArmed
  <2>3. TieInv'
    BY StreamsKeep, StreamsTie, StutterTie
  <2> QED BY <2>2, <2>3 DEF AllArmed
<1>3. PoolIInv /\ StreamInv /\ OneEvent /\ AllArmed(sock) /\ TieInv /\ [StreamsNext]_streamVars =>
        [\A i \in DOMAIN given' \ DOMAIN given :
           LET c == given'[i].asker
           IN  c # given'[i].by /\ (\E k \in Socks : sock[k].alloc /\ ~sock[k].ispriv /\ who[k] = c) =>
                 c \in served]_streamVars
  BY StreamsKeep, StreamsTie DEF Caused
<1> QED BY <1>1, <1>2, <1>3, StreamsAlways, PTL DEF StreamsSpec, MisdeliveryHasCause
=============================================================================
