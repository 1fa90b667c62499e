---------------------------- MODULE StreamsProofs ----------------------------
(***************************************************************************)
(* What TunnelServer's buffers hold, for every number of sockets, tunnels, *)
(* clients and pieces: the bits agree with the pieces, requests reach the  *)
(* private side in their order and no piece of one disappears without a    *)
(* cause.  The invariant says whose pieces each buffer may hold, and where *)
(* the pieces of one client can be: it is bound to one tunnel in its life. *)
(***************************************************************************)
EXTENDS Streams, TunnelServerProofs, SequenceTheorems

USE SocksAssumption, BoundsAssumption, PiecesAssumption

Request(c) == [from : {c}, n : 1..MaxPieces, to : {0}]
Requests == [from : Clients, n : 1..MaxPieces, to : {0}]
Delivered == [from : Clients, n : 1..MaxPieces, to : Connections]
Answers == [from : {0}, n : 1..MaxAnswers, to : Clients]
Named(S) == S \cup {Anonymous}

Priv(k) == sock[k].alloc /\ sock[k].ispriv
Client(k) == sock[k].alloc /\ ~sock[k].ispriv

\* Whose pieces a buffer may hold: requests go from the client to the private side.
HoldsAt(k, x) ==
    /\ x \in [rx : Seq(Piece), rbuf : Seq(Piece), wbuf : Seq(Piece)]
    /\ Priv(k) => /\ x.rx \in Seq(Named(Answers)) /\ x.rbuf \in Seq(Named(Answers))
                  /\ x.wbuf \in Seq(Named(Requests))
    /\ Client(k) => /\ x.rx \in Seq(Request(who[k])) /\ x.rbuf \in Seq(Request(who[k]))
                    /\ x.wbuf \in Seq(Named(Answers))
Holds(h) == DOMAIN h = Socks /\ \A k \in Socks : HoldsAt(k, h[k])

\* Bytes that are nobody's come first: those of the handshake, before any request was given.
HeadOnly(q) == \A i \in DOMAIN q : i > 1 => q[i] # Anonymous
Nobodys(q) == \A i \in DOMAIN q : q[i] = Anonymous
\* Nothing was written to the connection of k yet.
Unasked(k, g) == \A i \in DOMAIN g : g[i].to # who[k]
FirstAt(x, k, g) ==
    /\ HeadOnly(x.rbuf) /\ HeadOnly(x.rx) /\ HeadOnly(x.wbuf)
    /\ x.rx # <<>> /\ x.rx[1] = Anonymous => Nobodys(x.rbuf)
    /\ Unasked(k, g) => Nobodys(x.rbuf) /\ Nobodys(x.rx)
HandshakeFirst(h, g) == \A k \in Socks : Priv(k) => FirstAt(h[k], k, g)

\* The order of a client's pieces, inside a buffer and from one buffer to the next.
Sorted(q) == \A i, j \in DOMAIN q : i < j /\ q[i].from = q[j].from /\ q[i].from # 0 => q[i].n < q[j].n
Before(q, r) == \A i \in DOMAIN q, j \in DOMAIN r : q[i].from = r[j].from /\ q[i].from # 0 => q[i].n < r[j].n
Sent(q) == \A i \in DOMAIN q : q[i].from # 0 => q[i].n <= sent[q[i].from]
Coming(x) == x.rbuf \o x.rx

InLine(h, g) ==
    /\ Sorted(g) /\ Sent(g)
    /\ \A p \in Socks : Priv(p) => Sorted(h[p].wbuf) /\ Sent(h[p].wbuf) /\ Before(g, h[p].wbuf)
    /\ \A k \in Socks : Client(k) => Sorted(Coming(h[k])) /\ Sent(Coming(h[k])) /\ Before(g, Coming(h[k]))
    /\ \A p, k \in Socks : Priv(p) /\ Client(k) => Before(h[p].wbuf, Coming(h[k]))

\* Pieces of one client wait to be written to one private socket at most ...
Carries(h, p, c) == \E i \in DOMAIN h[p].wbuf : h[p].wbuf[i].from = c
OneCarrier(h) ==
    \A p, q \in Socks, c \in Clients : Priv(p) /\ Priv(q) /\ Carries(h, p, c) /\ Carries(h, q, c) => p = q

\* ... the one the client is bound to, as long as it is; one that waits to be bound has none.
Bound(h) ==
    \A p, k \in Socks :
      LET t == tun[sock[k].tunnel]
      IN  Priv(p) /\ Client(k) /\ Carries(h, p, who[k]) /\ t.remote = k =>
            IF t.state = "tunnel_waitting" THEN t.status # "tmptun_is_wait" ELSE t.priv = p

\* Every peer has a number of its own; clients to come have sent nothing.
Arrived == MaxRmt - dials["rmtfd"]
Opened == MaxPriv - dials["listenfd"]
WhoOK == /\ who \in [Socks -> Clients \cup Connections \cup {0}] /\ sent \in [Clients \cup {0} -> Nat]
         /\ dials["listenfd"] <= MaxPriv
         /\ \A k \in Socks : Priv(k) => who[k] \in Connections /\ who[k] \in 1..Opened
         /\ \A j, k \in Socks : Priv(j) /\ Priv(k) /\ who[j] = who[k] => j = k
         /\ dials["rmtfd"] <= MaxRmt
         /\ \A k \in Socks : Client(k) => who[k] \in Clients /\ who[k] \in 1..Arrived
         /\ \A j, k \in Socks : Client(j) /\ Client(k) /\ who[j] = who[k] => j = k
         /\ \A c \in Clients : c > Arrived => sent[c] = 0

Freed(h) == \A k \in Socks : ~sock[k].alloc => h[k] = Nothing /\ sock[k] = NoSock

\* The bits of a sock_t and what it holds.
Match(x, y) == /\ x.rx <=> y.rx # <<>>
               /\ x.rbuf <=> y.rbuf # <<>>
               /\ x.wbuf <=> y.wbuf # <<>>

Note == [n : Nat, asker : Clients, via : Connections, by : Clients, fin : BOOLEAN]
Histories == got \in Seq(Delivered) /\ served \subseteq Clients /\ given \in Seq(Note)

Buffers == [rx : Seq(Piece), rbuf : Seq(Piece), wbuf : Seq(Piece)]
StreamInv == /\ Histories /\ WhoOK /\ Freed(held) /\ BuffersAgree
             /\ held \in [Socks -> Buffers] /\ Holds(held) /\ HandshakeFirst(held, got)
             /\ InLine(held, got) /\ OneCarrier(held) /\ Bound(held)

----------------------------------------------------------------------------
(* Sequences of pieces.                                                    *)

LEMMA ConcatAt ==
    ASSUME NEW S, NEW q \in Seq(S), NEW r \in Seq(S), NEW i \in DOMAIN (q \o r)
    PROVE  \/ i \in DOMAIN q /\ (q \o r)[i] = q[i]
           \/ \E j \in DOMAIN r : i = Len(q) + j /\ (q \o r)[i] = r[j]
<1>1. /\ q \o r \in Seq(S) /\ Len(q \o r) = Len(q) + Len(r) /\ Len(q) \in Nat /\ Len(r) \in Nat
      /\ DOMAIN q = 1..Len(q) /\ DOMAIN r = 1..Len(r) /\ DOMAIN (q \o r) = 1..Len(q \o r)
      /\ \A m \in 1..Len(q) + Len(r) : (q \o r)[m] = IF m <= Len(q) THEN q[m] ELSE r[m - Len(q)]
  BY ConcatProperties, LenProperties
<1> DEFINE a == Len(q)  b == Len(r)  z == q \o r
<1>2. i \in 1..(a + b) /\ a \in Nat /\ b \in Nat
  BY <1>1
<1>3. CASE i <= a
  BY <1>1, <1>2, <1>3
<1>4. CASE i > a
  <2>1. i - a \in 1..b /\ i = a + (i - a)
    BY <1>2, <1>4
  <2>2. z[i] = r[i - a]
    BY <1>1, <1>2, <1>4
  <2> QED BY <1>1, <2>1, <2>2
<1> QED BY <1>2, <1>3, <1>4

\* The other way round: where the elements of the parts are.
LEMMA ConcatFrom ==
    ASSUME NEW S, NEW q \in Seq(S), NEW r \in Seq(S)
    PROVE  /\ \A i \in DOMAIN q : i \in DOMAIN (q \o r) /\ (q \o r)[i] = q[i] /\ i <= Len(q)
           /\ \A j \in DOMAIN r : Len(q) + j \in DOMAIN (q \o r) /\ (q \o r)[Len(q) + j] = r[j] /\ j >= 1
<1>1. /\ q \o r \in Seq(S) /\ Len(q \o r) = Len(q) + Len(r) /\ Len(q) \in Nat /\ Len(r) \in Nat
      /\ DOMAIN q = 1..Len(q) /\ DOMAIN r = 1..Len(r) /\ DOMAIN (q \o r) = 1..Len(q \o r)
      /\ \A m \in 1..Len(q) + Len(r) : (q \o r)[m] = IF m <= Len(q) THEN q[m] ELSE r[m - Len(q)]
  BY ConcatProperties, LenProperties
<1> QED BY <1>1

LEMMA ConcatSent ==
    ASSUME NEW S, NEW q \in Seq(S), NEW r \in Seq(S)
    PROVE  Sent(q \o r) <=> Sent(q) /\ Sent(r)
<1> DEFINE z == q \o r
<1>0. /\ \A i \in DOMAIN q : i \in DOMAIN z /\ z[i] = q[i]
      /\ \A j \in DOMAIN r : Len(q) + j \in DOMAIN z /\ z[Len(q) + j] = r[j]
  BY ConcatFrom
<1>1. /\ \A i \in DOMAIN q : i \in DOMAIN z /\ z[i] = q[i]
      /\ \A j \in DOMAIN r : \E i \in DOMAIN z : z[i] = r[j]
  BY <1>0
<1>2. \A i \in DOMAIN z : \/ i \in DOMAIN q /\ z[i] = q[i]
                          \/ \E j \in DOMAIN r : z[i] = r[j]
  BY ConcatAt
<1> HIDE DEF z
<1>3. Sent(z) <=> Sent(q) /\ Sent(r)
  BY <1>1, <1>2 DEF Sent
<1> QED BY <1>3 DEF z

LEMMA ConcatBefore ==
    ASSUME NEW S, NEW q \in Seq(S), NEW r \in Seq(S), NEW x
    PROVE  /\ Before(q \o r, x) <=> Before(q, x) /\ Before(r, x)
           /\ Before(x, q \o r) <=> Before(x, q) /\ Before(x, r)
<1> DEFINE z == q \o r
<1>0. /\ \A i \in DOMAIN q : i \in DOMAIN z /\ z[i] = q[i]
      /\ \A j \in DOMAIN r : Len(q) + j \in DOMAIN z /\ z[Len(q) + j] = r[j]
  BY ConcatFrom
<1>1. /\ \A i \in DOMAIN q : i \in DOMAIN z /\ z[i] = q[i]
      /\ \A j \in DOMAIN r : \E i \in DOMAIN z : z[i] = r[j]
  BY <1>0
<1>2. \A i \in DOMAIN z : \/ i \in DOMAIN q /\ z[i] = q[i]
                          \/ \E j \in DOMAIN r : z[i] = r[j]
  BY ConcatAt
<1> HIDE DEF z
<1>3. Before(z, x) <=> Before(q, x) /\ Before(r, x)
  BY <1>1, <1>2, SMTT(30) DEF Before
<1>4. Before(x, z) <=> Before(x, q) /\ Before(x, r)
  BY <1>1, <1>2, SMTT(30) DEF Before
<1> QED BY <1>3, <1>4 DEF z

LEMMA ConcatSorted ==
    ASSUME NEW S, NEW q \in Seq(S), NEW r \in Seq(S)
    PROVE  Sorted(q \o r) <=> Sorted(q) /\ Sorted(r) /\ Before(q, r)
<1> DEFINE z == q \o r
           a == Len(q)
<1>1. a \in Nat /\ DOMAIN q = 1..a /\ DOMAIN r = 1..Len(r) /\ Len(r) \in Nat
  BY LenProperties
<1>2. /\ \A i \in DOMAIN q : i \in DOMAIN z /\ z[i] = q[i] /\ i <= a
      /\ \A j \in DOMAIN r : a + j \in DOMAIN z /\ z[a + j] = r[j] /\ j >= 1
  BY ConcatFrom
<1>3. \A i \in DOMAIN z : \/ i \in DOMAIN q /\ z[i] = q[i]
                          \/ \E j \in DOMAIN r : i = a + j /\ z[i] = r[j]
  BY ConcatAt
<1> HIDE DEF z, a
<1>4. ASSUME Sorted(z)
      PROVE  Sorted(q) /\ Sorted(r) /\ Before(q, r)
  <2>1. Sorted(q)
    BY <1>2, <1>4 DEF Sorted
  <2>2. Sorted(r)
    <3> SUFFICES ASSUME NEW i \in DOMAIN r, NEW j \in DOMAIN r, i < j, r[i].from = r[j].from, r[i].from # 0
                 PROVE  r[i].n < r[j].n
      BY DEF Sorted
    <3>1. a + i < a + j
      BY <1>1
    <3> QED BY <1>2, <1>4, <3>1 DEF Sorted
  <2>3. Before(q, r)
    <3> SUFFICES ASSUME NEW i \in DOMAIN q, NEW j \in DOMAIN r, q[i].from = r[j].from, q[i].from # 0
                 PROVE  q[i].n < r[j].n
      BY DEF Before
    <3>1. i < a + j
      BY <1>1
    <3> QED BY <1>2, <1>4, <3>1 DEF Sorted
  <2> QED BY <2>1, <2>2, <2>3
<1>5. ASSUME Sorted(q), Sorted(r), Before(q, r)
      PROVE  Sorted(z)
  <2> SUFFICES ASSUME NEW i \in DOMAIN z, NEW j \in DOMAIN z, i < j, z[i].from = z[j].from, z[i].from # 0
               PROVE  z[i].n < z[j].n
    BY DEF Sorted
  <2>1. CASE i \in DOMAIN q /\ z[i] = q[i]
    BY <1>3, <1>5, <2>1 DEF Sorted, Before
  <2>2. CASE \E m \in DOMAIN r : i = a + m /\ z[i] = r[m]
    <3>1. PICK m \in DOMAIN r : i = a + m /\ z[i] = r[m]
      BY <2>2
    <3>2. j \notin DOMAIN q
      BY <1>1, <3>1
    <3>3. PICK l \in DOMAIN r : j = a + l /\ z[j] = r[l]
      BY <1>3, <3>2
    <3>4. m < l
      BY <1>1, <3>1, <3>3
    <3> QED BY <1>5, <3>1, <3>3, <3>4 DEF Sorted
  <2> QED BY <1>3, <2>1, <2>2
<1> QED BY <1>4, <1>5 DEF z

LEMMA JoinCases ==
    ASSUME NEW S, NEW q \in Seq(S), NEW r \in Seq(S)
    PROVE  /\ Join(q, r) \in Seq(S)
           /\ Join(q, r) = <<>> <=> q = <<>> /\ r = <<>>
           /\ \/ Join(q, r) = q \o r
              \/ /\ q # <<>> /\ r # <<>> /\ q[Len(q)] = Anonymous /\ r[1] = Anonymous
                 /\ Join(q, r) = q \o Tail(r) /\ Tail(r) \in Seq(S)
<1>1. q \o r \in Seq(S) /\ (q \o r = <<>> <=> q = <<>> /\ r = <<>>)
  BY ConcatProperties, ConcatEqualIffEmpty
<1>2. CASE q # <<>> /\ r # <<>> /\ q[Len(q)] = Anonymous /\ r[1] = Anonymous
  <2>1. Join(q, r) = q \o Tail(r)
    BY <1>2 DEF Join
  <2>2. Tail(r) \in Seq(S)
    BY <1>2, HeadTailProperties
  <2>3. q \o Tail(r) \in Seq(S) /\ q \o Tail(r) # <<>>
    BY <1>2, <2>2, ConcatProperties, ConcatEqualIffEmpty
  <2> QED BY <1>2, <2>1, <2>2, <2>3
<1>3. CASE ~(q # <<>> /\ r # <<>> /\ q[Len(q)] = Anonymous /\ r[1] = Anonymous)
  <2>1. Join(q, r) = q \o r
    BY <1>3 DEF Join
  <2> QED BY <1>1, <2>1
<1> QED BY <1>2, <1>3

\* Pieces that are somebody's are put behind as they are.
LEMMA JoinNamed ==
    ASSUME NEW S, NEW q \in Seq(S), NEW T, NEW r \in Seq(T), Anonymous \notin T
    PROVE  Join(q, r) = q \o r
<1>1. r # <<>> => r[1] \in T
  BY LenProperties, EmptySeq
<1> QED BY <1>1 DEF Join

LEMMA NotAnonymous ==
    /\ Anonymous \notin Requests /\ Anonymous \notin Answers
    /\ \A c : Anonymous \notin Request(c)
  BY DEF Anonymous, Requests, Answers, Request

\* What is not anonymous is in the joined buffer.
LEMMA JoinKeeps ==
    ASSUME NEW S, NEW q \in Seq(S), NEW r \in Seq(S), NEW x \in ToSet(q) \cup ToSet(r), x # Anonymous
    PROVE  x \in ToSet(Join(q, r))
<1>1. CASE Join(q, r) = q \o r
  BY <1>1, ConcatFrom, SMTT(30) DEF ToSet
<1>2. CASE /\ q # <<>> /\ r # <<>> /\ q[Len(q)] = Anonymous /\ r[1] = Anonymous
           /\ Join(q, r) = q \o Tail(r) /\ Tail(r) \in Seq(S)
  <2>1. CASE x \in ToSet(q)
    BY <1>2, <2>1, ConcatFrom DEF ToSet
  <2>2. CASE x \in ToSet(r)
    <3>1. PICK i \in DOMAIN r : r[i] = x
      BY <2>2 DEF ToSet
    <3>2. i \in 1..Len(r) /\ i # 1 /\ Len(r) \in Nat /\ Len(Tail(r)) = Len(r) - 1
          /\ \A j \in 1..Len(Tail(r)) : Tail(r)[j] = r[j + 1]
      BY <1>2, <3>1, LenProperties, HeadTailProperties
    <3>3. i - 1 \in 1..Len(Tail(r)) /\ Tail(r)[i - 1] = r[i]
      BY <3>2
    <3>4. i - 1 \in DOMAIN Tail(r)
      BY <1>2, <3>3, LenProperties
    <3> DEFINE y == Tail(r)
    <3>5. Len(q) + (i - 1) \in DOMAIN (q \o y) /\ (q \o y)[Len(q) + (i - 1)] = y[i - 1]
      <4> y \in Seq(S) /\ i - 1 \in DOMAIN y
        BY <1>2, <3>4
      <4> HIDE DEF y
      <4> QED BY ConcatFrom
    <3> QED BY <1>2, <3>1, <3>3, <3>5 DEF ToSet
  <2> QED BY <2>1, <2>2
<1>3. \/ Join(q, r) = q \o r
      \/ /\ q # <<>> /\ r # <<>> /\ q[Len(q)] = Anonymous /\ r[1] = Anonymous
         /\ Join(q, r) = q \o Tail(r) /\ Tail(r) \in Seq(S)
  BY JoinCases
<1> QED BY <1>1, <1>2, <1>3

\* What a read or a write leaves of a buffer.
LEMMA LeftOf ==
    ASSUME NEW S, NEW q \in Seq(S), NEW some \in BOOLEAN, NEW rest \in Left(q, some)
    PROVE  LET pre == SubSeq(q, 1, Len(q) - Len(rest))
           IN  /\ rest \in Seq(S) /\ (some <=> rest # <<>>)
               /\ pre \in Seq(S) /\ q = pre \o rest
<1> DEFINE n == Len(q)
<1>1. n \in Nat /\ DOMAIN q = 1..n /\ \A i \in 1..n : q[i] \in S
  BY LenProperties, ElementOfSeq
<1>2. CASE ~some
  <2>1. rest = <<>> /\ Len(rest) = 0
    BY <1>2, EmptySeq DEF Left
  <2>2. SubSeq(q, 1, n) = q
    BY SubSeqFull
  <2> QED BY <1>1, <1>2, <2>1, <2>2, EmptySeq, ConcatEmptySeq
<1>3. CASE some
  <2>1. rest # <<>>
    BY <1>3 DEF Left
  <2>2. PICK l \in 1..n : rest = SubSeq(q, l, n)
    BY <1>3, <2>1 DEF Left, Suffixes
  <2>3. rest \in Seq(S) /\ Len(rest) = n - l + 1
    <3>1. l \in Int /\ n \in Int /\ l <= n /\ \A i \in l..n : q[i] \in S
      BY <1>1, <2>2
    <3> QED BY <2>2, <3>1, SubSeqProperties
  <2>4. n - Len(rest) = l - 1
    BY <1>1, <2>2, <2>3
  <2>5. SubSeq(q, 1, l - 1) \o SubSeq(q, (l - 1) + 1, n) = SubSeq(q, 1, n)
    <3>1. 1 \in 1..n + 1 /\ l - 1 \in 1 - 1..n /\ n \in l - 1..n
      BY <1>1, <2>2
    <3> QED BY <3>1, ConcatAdjacentSubSeq
  <2>6. (l - 1) + 1 = l
    BY <2>2
  <2>7. SubSeq(q, 1, n) = q
    BY SubSeqFull
  <2>8. SubSeq(q, 1, l - 1) \in Seq(S)
    <3>1. 1 \in Int /\ l - 1 \in Int /\ \A i \in 1..l - 1 : q[i] \in S
      BY <1>1, <2>2
    <3> QED BY <3>1, SubSeqProperties
  <2> QED BY <1>3, <2>1, <2>2, <2>3, <2>4, <2>5, <2>6, <2>7, <2>8
<1> QED BY <1>2, <1>3

LEMMA HeadOnlyParts ==
    ASSUME NEW S, NEW q \in Seq(S), NEW r \in Seq(S), HeadOnly(q \o r)
    PROVE  HeadOnly(q) /\ HeadOnly(r)
<1> DEFINE z == q \o r
<1>1. /\ \A i \in DOMAIN q : i \in DOMAIN z /\ z[i] = q[i]
      /\ \A j \in DOMAIN r : Len(q) + j \in DOMAIN z /\ z[Len(q) + j] = r[j]
  BY ConcatFrom
<1>2. Len(q) \in Nat /\ DOMAIN r = 1..Len(r) /\ Len(r) \in Nat
  BY LenProperties
<1> DEFINE a == Len(q)
<1> HIDE DEF z, a
<1>3. HeadOnly(z)
  BY DEF z
<1>4. HeadOnly(q)
  BY <1>1, <1>3 DEF HeadOnly
<1>5. HeadOnly(r)
  <2> SUFFICES ASSUME NEW j \in DOMAIN r, j > 1
               PROVE  r[j] # Anonymous
    BY DEF HeadOnly
  <2>1. a + j > 1
    BY <1>2 DEF a
  <2> QED BY <1>1, <1>3, <2>1 DEF HeadOnly, a
<1> QED BY <1>4, <1>5

\* Behind a piece that is somebody's comes no other.
LEMMA HeadOnlyConcat ==
    ASSUME NEW S, NEW q \in Seq(S), HeadOnly(q), NEW T, NEW r \in Seq(T), Anonymous \notin T
    PROVE  HeadOnly(q \o r)
<1> DEFINE U == S \cup T
           z == q \o r
<1>1. q \in Seq(U) /\ r \in Seq(U)
  BY SeqMonotonic
<1>2. \A j \in DOMAIN r : r[j] # Anonymous
  BY LenProperties, ElementOfSeq
<1> HIDE DEF U
<1>3. \A i \in DOMAIN z : \/ i \in DOMAIN q /\ z[i] = q[i]
                          \/ \E j \in DOMAIN r : z[i] = r[j]
  BY <1>1, ConcatAt
<1> QED BY <1>2, <1>3 DEF HeadOnly

\* The pieces of a buffer, without the handshake's bytes in front of them.
LEMMA NumberedOf ==
    ASSUME NEW T, Anonymous \notin T, NEW q \in Seq(Named(T)), HeadOnly(q)
    PROVE  /\ Numbered(q) \in Seq(T)
           /\ \E lead \in Seq({Anonymous}) : q = lead \o Numbered(q)
<1> DEFINE n == Len(q)
<1>1. n \in Nat /\ DOMAIN q = 1..n /\ \A i \in 1..n : q[i] \in Named(T)
  BY LenProperties, ElementOfSeq
<1>2. \A i \in 1..n : i > 1 => q[i] \in T
  BY <1>1 DEF HeadOnly, Named
<1>3. CASE q # <<>> /\ q[1] = Anonymous
  <2>1. Numbered(q) = Tail(q)
    BY <1>3 DEF Numbered
  <2>2. Tail(q) = SubSeq(q, 2, n) /\ 1 \in 1..n
    BY <1>1, <1>3, TailIsSubSeq, EmptySeq
  <2>3. \A i \in 2..n : q[i] \in T
    BY <1>1, <1>2
  <2>4. SubSeq(q, 2, n) \in Seq(T)
    BY <1>1, <2>3, SubSeqProperties
  <2>5. q = <<q[1]>> \o Tail(q)
    <3>1. SubSeq(q, 1, n) = <<q[1]>> \o SubSeq(q, 1 + 1, n)
      BY <1>1, <2>2, SubSeqRecursiveFirst
    <3>2. SubSeq(q, 1, n) = q /\ 1 + 1 = 2
      BY SubSeqFull
    <3> QED BY <2>2, <3>1, <3>2
  <2>6. <<Anonymous>> \in Seq({Anonymous})
    OBVIOUS
  <2> QED BY <1>3, <2>1, <2>2, <2>4, <2>5, <2>6
<1>4. CASE ~(q # <<>> /\ q[1] = Anonymous)
  <2>1. Numbered(q) = q
    BY <1>4 DEF Numbered
  <2>2. \A i \in 1..n : q[i] \in T
    <3> SUFFICES ASSUME NEW i \in 1..n
                 PROVE  q[i] \in T
      OBVIOUS
    <3>1. CASE i = 1
      <4>1. q # <<>>
        BY <1>1
      <4> QED BY <1>1, <1>4, <3>1, <4>1 DEF Named
    <3> QED BY <1>1, <1>2, <3>1
  <2>3. q \in Seq(T)
    <3>1. SubSeq(q, 1, n) \in Seq(T)
      BY <1>1, <2>2, SubSeqProperties
    <3> QED BY <3>1, SubSeqFull
  <2>4. <<>> \in Seq({Anonymous}) /\ q = <<>> \o q
    BY EmptySeq, ConcatEmptySeq
  <2> QED BY <2>1, <2>3, <2>4
<1> QED BY <1>3, <1>4

LEMMA NumberedMono ==
    ASSUME NEW T, Anonymous \notin T, NEW q \in Seq(Named(T)), HeadOnly(q)
    PROVE  /\ Sorted(q) => Sorted(Numbered(q))
           /\ Sent(q) => Sent(Numbered(q))
           /\ \A x : (Before(q, x) => Before(Numbered(q), x)) /\ (Before(x, q) => Before(x, Numbered(q)))
           /\ \A x \in ToSet(q) : x # Anonymous => x \in ToSet(Numbered(q))
           /\ \A c : (\E i \in DOMAIN Numbered(q) : Numbered(q)[i].from = c) => \E i \in DOMAIN q : q[i].from = c
<1> DEFINE z == Numbered(q)
<1>1. z \in Seq(T) /\ \E lead \in Seq({Anonymous}) : q = lead \o z
  BY NumberedOf
<1> HIDE DEF z
<1>2. PICK lead \in Seq({Anonymous}) : q = lead \o z
  BY <1>1
<1> DEFINE U == Named(T)
<1>3. lead \in Seq(U) /\ z \in Seq(U)
  BY <1>1, SeqMonotonic DEF Named
<1> HIDE DEF U
<1>4. \A x : /\ Sorted(lead \o z) <=> Sorted(lead) /\ Sorted(z) /\ Before(lead, z)
             /\ Sent(lead \o z) <=> Sent(lead) /\ Sent(z)
             /\ Before(lead \o z, x) <=> Before(lead, x) /\ Before(z, x)
             /\ Before(x, lead \o z) <=> Before(x, lead) /\ Before(x, z)
  BY <1>3, ConcatSorted, ConcatSent, ConcatBefore
<1>5. \A i \in DOMAIN lead : lead[i] = Anonymous
  BY LenProperties, ElementOfSeq
<1>6. \A i \in DOMAIN q : \/ i \in DOMAIN lead /\ q[i] = lead[i]
                          \/ \E j \in DOMAIN z : q[i] = z[j]
  BY <1>2, <1>3, ConcatAt
<1>7. \A x \in ToSet(q) : x # Anonymous => x \in ToSet(z)
  BY <1>5, <1>6 DEF ToSet
<1>8. \A j \in DOMAIN z : Len(lead) + j \in DOMAIN q /\ q[Len(lead) + j] = z[j]
  BY <1>2, <1>3, ConcatFrom
<1>9. \A c : (\E i \in DOMAIN z : z[i].from = c) => \E i \in DOMAIN q : q[i].from = c
  BY <1>8
<1> QED BY <1>2, <1>4, <1>7, <1>9 DEF z

\* Handshake bytes are read behind handshake bytes only.
LEMMA HeadOnlyJoin ==
    ASSUME NEW S, NEW q \in Seq(S), NEW r \in Seq(S), HeadOnly(q), HeadOnly(r),
           r # <<>> /\ r[1] = Anonymous => Nobodys(q)
    PROVE  HeadOnly(Join(q, r))
<1> DEFINE n == Len(q)
<1>1. n \in Nat /\ DOMAIN q = 1..n /\ DOMAIN r = 1..Len(r) /\ Len(r) \in Nat
      /\ (q # <<>> => n > 0) /\ (r # <<>> => Len(r) > 0)
  BY LenProperties, EmptySeq
<1>2. CASE r # <<>> /\ r[1] = Anonymous
  <2>1. CASE q = <<>>
    <3>1. Join(q, r) = q \o r
      BY <2>1 DEF Join
    <3> QED BY <2>1, <3>1, ConcatEmptySeq
  <2>2. CASE q # <<>>
    <3>1. n = 1
      <4>1. n > 1 => q[n] # Anonymous
        BY <1>1 DEF HeadOnly
      <4> QED BY <1>1, <1>2, <2>2, <4>1 DEF Nobodys
    <3>2. q[n] = Anonymous
      BY <1>1, <1>2, <3>1 DEF Nobodys
    <3>3. Join(q, r) = q \o Tail(r)
      BY <1>2, <2>2, <3>2 DEF Join
    <3>4. Tail(r) \in Seq(S) /\ Len(Tail(r)) = Len(r) - 1 /\ DOMAIN Tail(r) = 1..Len(Tail(r))
          /\ \A i \in 1..Len(Tail(r)) : Tail(r)[i] = r[i + 1]
      BY <1>2, HeadTailProperties, LenProperties
    <3> DEFINE t == Tail(r)
               z == q \o t
    <3>5. \A j \in DOMAIN t : t[j] # Anonymous
      <4> SUFFICES ASSUME NEW j \in DOMAIN t
                   PROVE  r[j + 1] # Anonymous
        BY <3>4
      <4>1. j + 1 \in DOMAIN r /\ j + 1 > 1
        BY <1>1, <3>4
      <4> QED BY <4>1 DEF HeadOnly
    <3>6. t \in Seq(S)
      BY <3>4
    <3> HIDE DEF t
    <3>7. \A i \in DOMAIN z : \/ i \in DOMAIN q /\ z[i] = q[i]
                              \/ \E j \in DOMAIN t : z[i] = t[j]
      BY <3>6, ConcatAt
    <3>8. HeadOnly(z)
      BY <3>5, <3>7 DEF HeadOnly
    <3> QED BY <3>3, <3>8 DEF t
  <2> QED BY <2>1, <2>2
<1>3. CASE ~(r # <<>> /\ r[1] = Anonymous)
  <2>1. Join(q, r) = q \o r
    BY <1>3 DEF Join
  <2>2. \A j \in DOMAIN r : r[j] # Anonymous
    <3> SUFFICES ASSUME NEW j \in DOMAIN r
                 PROVE  r[j] # Anonymous
      OBVIOUS
    <3>1. CASE j = 1
      <4>1. r # <<>>
        BY <1>1, <3>1
      <4> QED BY <1>3, <3>1, <4>1
    <3>2. CASE j # 1
      <4>1. j > 1
        BY <1>1, <3>2
      <4> QED BY <4>1 DEF HeadOnly
    <3> QED BY <3>1, <3>2
  <2> DEFINE z == q \o r
  <2>3. \A i \in DOMAIN z : \/ i \in DOMAIN q /\ z[i] = q[i]
                            \/ \E j \in DOMAIN r : z[i] = r[j]
    BY ConcatAt
  <2>4. HeadOnly(z)
    BY <2>2, <2>3 DEF HeadOnly
  <2> QED BY <2>1, <2>4
<1> QED BY <1>2, <1>3

LEMMA NobodysJoin ==
    ASSUME NEW S, NEW q \in Seq(S), NEW r \in Seq(S), Nobodys(q), Nobodys(r)
    PROVE  Nobodys(Join(q, r))
<1>1. ASSUME NEW t \in Seq(S), Nobodys(t)
      PROVE  Nobodys(q \o t)
  <2> DEFINE z == q \o t
  <2>1. \A i \in DOMAIN z : \/ i \in DOMAIN q /\ z[i] = q[i]
                            \/ \E j \in DOMAIN t : z[i] = t[j]
    BY ConcatAt
  <2> QED BY <1>1, <2>1 DEF Nobodys
<1>2. ASSUME r # <<>>
      PROVE  Nobodys(Tail(r))
  <2>1. Tail(r) \in Seq(S) /\ Len(Tail(r)) = Len(r) - 1 /\ DOMAIN Tail(r) = 1..Len(Tail(r))
        /\ DOMAIN r = 1..Len(r) /\ Len(r) \in Nat
        /\ \A i \in 1..Len(Tail(r)) : Tail(r)[i] = r[i + 1]
    BY <1>2, HeadTailProperties, LenProperties
  <2>2. \A i \in DOMAIN Tail(r) : i + 1 \in DOMAIN r
    BY <2>1
  <2> QED BY <2>1, <2>2 DEF Nobodys
<1>3. \/ Join(q, r) = q \o r
      \/ /\ q # <<>> /\ r # <<>> /\ q[Len(q)] = Anonymous /\ r[1] = Anonymous
         /\ Join(q, r) = q \o Tail(r) /\ Tail(r) \in Seq(S)
  BY JoinCases
<1> QED BY <1>1, <1>2, <1>3

----------------------------------------------------------------------------
(* What the calls of buff.c make of the pieces of one socket.              *)

LEMMA JoinEmpty ==
    ASSUME NEW q \in Seq(Piece), NEW r \in Seq(Piece)
    PROVE  Join(q, r) \in Seq(Piece) /\ (Join(q, r) = <<>> <=> q = <<>> /\ r = <<>>)
  BY JoinCases

LEMMA Pieces ==
    /\ Anonymous \in Piece /\ Requests \subseteq Piece /\ Answers \subseteq Piece
    /\ Named(Requests) \subseteq Piece /\ Named(Answers) \subseteq Piece
    /\ \A c \in Clients : Request(c) \subseteq Requests
    /\ Delivered \subseteq Piece
<1>1. Anonymous \in Piece
  BY DEF Anonymous, Piece
<1>2. Requests \subseteq Piece
  BY DEF Requests, Piece, Clients
<1>3. Answers \subseteq Piece
  BY DEF Answers, Piece, Clients
<1>4. \A c \in Clients : Request(c) \subseteq Requests
  BY DEF Request, Requests
<1>5. Delivered \subseteq Piece
  BY DEF Delivered, Piece, Clients, Connections
<1> QED BY <1>1, <1>2, <1>3, <1>4, <1>5 DEF Named

\* A step on the buffers of one socket that keeps the order of requests: what a private
\* socket has to write stays or is the handshake's, what is to come of a client stays or
\* loses what was read.
CalmAt(k, x, y) == /\ Priv(k) => y.wbuf \in {x.wbuf, <<Anonymous>>}
                   /\ Client(k) => Coming(y) \in {Coming(x), x.rx}
Calm(h, h2) == \A k \in Socks : CalmAt(k, h[k], h2[k])
Fine(h, g) == Holds(h) /\ HandshakeFirst(h, g)

LEMMA AnonymousFree ==
    ASSUME NEW x
    PROVE  /\ Sorted(<<Anonymous>>) /\ Sent(<<Anonymous>>)
           /\ Before(<<Anonymous>>, x) /\ Before(x, <<Anonymous>>)
           /\ HeadOnly(<<Anonymous>>) /\ Nobodys(<<Anonymous>>)
           /\ \A S : Anonymous \in S => <<Anonymous>> \in Seq(S)
<1> DEFINE a == Anonymous
           q == <<a>>
<1>1. a.from = 0
  BY DEF Anonymous
<1>2. DOMAIN q = {1} /\ q[1] = a
  OBVIOUS
<1>3. \A S : a \in S => q \in Seq(S)
  OBVIOUS
<1> HIDE DEF a, q
<1>4. Sorted(q) /\ Sent(q) /\ Before(q, x) /\ Before(x, q)
  BY <1>1, <1>2 DEF Sorted, Sent, Before
<1>5. HeadOnly(q) /\ Nobodys(q)
  BY <1>2 DEF HeadOnly, Nobodys, a
<1> QED BY <1>3, <1>4, <1>5 DEF q, a

LEMMA EmptyFree ==
    ASSUME NEW x
    PROVE  /\ Sorted(<<>>) /\ Sent(<<>>) /\ Before(<<>>, x) /\ Before(x, <<>>)
           /\ HeadOnly(<<>>) /\ Nobodys(<<>>)
  BY DEF Sorted, Sent, Before, HeadOnly, Nobodys

LEMMA ComingType ==
    ASSUME NEW k \in Socks, NEW x, HoldsAt(k, x)
    PROVE  /\ x.rbuf \in Seq(Piece) /\ x.rx \in Seq(Piece) /\ x.wbuf \in Seq(Piece)
           /\ Sorted(Coming(x)) => Sorted(x.rx) /\ Sorted(x.rbuf) /\ Before(x.rbuf, x.rx)
           /\ Sent(Coming(x)) => Sent(x.rx) /\ Sent(x.rbuf)
           /\ \A q : Before(q, Coming(x)) => Before(q, x.rx) /\ Before(q, x.rbuf)
<1> DEFINE b == x.rbuf
           c == x.rx
<1>1. b \in Seq(Piece) /\ c \in Seq(Piece) /\ x.wbuf \in Seq(Piece)
  BY DEF HoldsAt
<1>2. Coming(x) = b \o c
  BY DEF Coming
<1> HIDE DEF b, c
<1>3. \A q : /\ Sorted(b \o c) <=> Sorted(b) /\ Sorted(c) /\ Before(b, c)
             /\ Sent(b \o c) <=> Sent(b) /\ Sent(c)
             /\ Before(q, b \o c) <=> Before(q, b) /\ Before(q, c)
  BY <1>1, ConcatSorted, ConcatSent, ConcatBefore
<1> QED BY <1>1, <1>2, <1>3 DEF b, c

LEMMA CalmLine ==
    ASSUME NEW h, NEW h2, NEW g, Holds(h), InLine(h, g), OneCarrier(h), Calm(h, h2)
    PROVE  /\ InLine(h2, g) /\ OneCarrier(h2)
           /\ \A p \in Socks, c \in Clients : Priv(p) /\ Carries(h2, p, c) => Carries(h, p, c)
<1>1. ASSUME NEW p \in Socks, Priv(p)
      PROVE  /\ Sorted(h2[p].wbuf) /\ Sent(h2[p].wbuf) /\ Before(g, h2[p].wbuf)
             /\ \A x : Before(h[p].wbuf, x) => Before(h2[p].wbuf, x)
  <2>1. h2[p].wbuf \in {h[p].wbuf, <<Anonymous>>}
    BY <1>1 DEF Calm, CalmAt
  <2>2. Sorted(h[p].wbuf) /\ Sent(h[p].wbuf) /\ Before(g, h[p].wbuf)
    BY <1>1 DEF InLine
  <2> QED BY <2>1, <2>2, AnonymousFree
<1>2. ASSUME NEW k \in Socks, Client(k)
      PROVE  /\ Sorted(Coming(h2[k])) /\ Sent(Coming(h2[k])) /\ Before(g, Coming(h2[k]))
             /\ \A x : Before(x, Coming(h[k])) => Before(x, Coming(h2[k]))
  <2>1. Coming(h2[k]) \in {Coming(h[k]), h[k].rx}
    BY <1>2 DEF Calm, CalmAt
  <2>2. Sorted(Coming(h[k])) /\ Sent(Coming(h[k])) /\ Before(g, Coming(h[k]))
    BY <1>2 DEF InLine
  <2>3. HoldsAt(k, h[k])
    BY DEF Holds
  <2> QED BY <2>1, <2>2, <2>3, ComingType
<1>3. ASSUME NEW p \in Socks, NEW c \in Clients, Priv(p), Carries(h2, p, c)
      PROVE  Carries(h, p, c)
  <2>1. h2[p].wbuf \in {h[p].wbuf, <<Anonymous>>}
    BY <1>3 DEF Calm, CalmAt
  <2>2. \A i \in DOMAIN <<Anonymous>> : <<Anonymous>>[i].from = 0
    BY DEF Anonymous
  <2>3. c # 0
    BY DEF Clients
  <2> QED BY <1>3, <2>1, <2>2, <2>3 DEF Carries
<1>4. OneCarrier(h2)
  BY <1>3 DEF OneCarrier
<1>5. Sorted(g) /\ Sent(g) /\ \A p, k \in Socks : Priv(p) /\ Client(k) => Before(h[p].wbuf, Coming(h[k]))
  BY DEF InLine
<1>6. \A p, k \in Socks : Priv(p) /\ Client(k) => Before(h2[p].wbuf, Coming(h2[k]))
  BY <1>1, <1>2, <1>5
<1>7. InLine(h2, g)
  BY <1>1, <1>2, <1>5, <1>6 DEF InLine
<1> QED BY <1>3, <1>4, <1>7

\* Only one socket's buffers change.
LEMMA OneChanged ==
    ASSUME NEW h, NEW g, Fine(h, g), NEW k \in Socks, NEW y,
           HoldsAt(k, y), Priv(k) => FirstAt(y, k, g), CalmAt(k, h[k], y)
    PROVE  LET h2 == [h EXCEPT ![k] = y] IN Fine(h2, g) /\ Calm(h, h2)
<1> DEFINE h2 == [h EXCEPT ![k] = y]
<1>1. DOMAIN h2 = Socks /\ \A j \in Socks : h2[j] = IF j = k THEN y ELSE h[j]
  BY DEF Fine, Holds
<1> HIDE DEF h2
<1>2. Holds(h2) /\ HandshakeFirst(h2, g)
  BY <1>1 DEF Fine, Holds, HandshakeFirst
<1>3. Calm(h, h2)
  BY <1>1 DEF Calm, CalmAt
<1> QED BY <1>2, <1>3 DEF Fine, h2

LEMMA ReadAt ==
    ASSUME NEW k \in Socks, NEW x, NEW g, HoldsAt(k, x), Priv(k) => FirstAt(x, k, g)
    PROVE  LET y == [rx |-> <<>>, rbuf |-> Join(x.rbuf, x.rx), wbuf |-> x.wbuf]
           IN  HoldsAt(k, y) /\ (Priv(k) => FirstAt(y, k, g)) /\ CalmAt(k, x, y)
<1> DEFINE b == x.rbuf
           c == x.rx
           j == Join(b, c)
           y == [rx |-> <<>>, rbuf |-> j, wbuf |-> x.wbuf]
<1>1. b \in Seq(Piece) /\ c \in Seq(Piece) /\ x.wbuf \in Seq(Piece) /\ \A S : <<>> \in Seq(S)
  BY ComingType, EmptySeq
<1>2. j \in Seq(Piece)
  BY <1>1, JoinCases
<1>3. Priv(k) => /\ b \in Seq(Named(Answers)) /\ c \in Seq(Named(Answers)) /\ x.wbuf \in Seq(Named(Requests))
                 /\ HeadOnly(b) /\ HeadOnly(c) /\ HeadOnly(x.wbuf) /\ (c # <<>> /\ c[1] = Anonymous => Nobodys(b))
                 /\ Unasked(k, g) => Nobodys(b) /\ Nobodys(c)
  BY DEF HoldsAt, FirstAt
<1>4. Client(k) => /\ b \in Seq(Request(who[k])) /\ c \in Seq(Request(who[k])) /\ x.wbuf \in Seq(Named(Answers))
  BY DEF HoldsAt
<1>5. ~(Priv(k) /\ Client(k))
  BY DEF Priv, Client
<1>6. Priv(k) => j \in Seq(Named(Answers)) /\ HeadOnly(j) /\ (Unasked(k, g) => Nobodys(j))
  BY <1>3, JoinCases, HeadOnlyJoin, NobodysJoin
<1>7. Client(k) => j \in Seq(Request(who[k])) /\ j = b \o c
  <2> SUFFICES ASSUME Client(k)
               PROVE  j \in Seq(Request(who[k])) /\ j = b \o c
    OBVIOUS
  <2> DEFINE T == Request(who[k])
  <2>1. b \in Seq(T) /\ c \in Seq(T) /\ Anonymous \notin T
    BY <1>4, NotAnonymous
  <2> HIDE DEF T, b, c
  <2>2. j \in Seq(T) /\ j = b \o c
    BY ONLY <2>1, JoinCases, JoinNamed, ZenonT(30)
  <2> QED BY <2>2 DEF T
<1>8. Client(k) => Coming(y) = Coming(x)
  <2>1. Client(k) => j \o <<>> = j
    BY <1>7, ConcatEmptySeq
  <2> QED BY <1>7, <2>1 DEF Coming
<1> HIDE DEF j
<1>9. y.rx = <<>> /\ y.rbuf = j /\ y.wbuf = x.wbuf
  OBVIOUS
<1>10. y \in [rx : Seq(Piece), rbuf : Seq(Piece), wbuf : Seq(Piece)]
  BY <1>1, <1>2
<1> HIDE DEF y
<1>11. HoldsAt(k, y)
  BY <1>1, <1>3, <1>4, <1>6, <1>7, <1>9, <1>10 DEF HoldsAt
<1>12. Priv(k) => FirstAt(y, k, g)
  BY <1>3, <1>6, <1>9, EmptyFree DEF FirstAt
<1>13. CalmAt(k, x, y)
  BY <1>8, <1>9 DEF CalmAt
<1> QED BY <1>11, <1>12, <1>13 DEF y, j

LEMMA ReadInFine ==
    ASSUME NEW g, Fine(held, g), NEW k \in Socks
    PROVE  Fine(ReadIn(k), g) /\ Calm(held, ReadIn(k))
<1> DEFINE x == held[k]
           y == [rx |-> <<>>, rbuf |-> Join(x.rbuf, x.rx), wbuf |-> x.wbuf]
<1>1. HoldsAt(k, x) /\ (Priv(k) => FirstAt(x, k, g))
  BY DEF Fine, Holds, HandshakeFirst
<1> HIDE DEF x
<1>2. HoldsAt(k, y) /\ (Priv(k) => FirstAt(y, k, g)) /\ CalmAt(k, x, y)
  BY <1>1, ReadAt
<1> HIDE DEF y
<1>3. Fine([held EXCEPT ![k] = y], g) /\ Calm(held, [held EXCEPT ![k] = y])
  BY <1>2, OneChanged DEF x
<1>4. ReadIn(k) = [held EXCEPT ![k] = y]
  BY DEF ReadIn, y, x
<1> QED BY <1>3, <1>4

\* A handshake handler takes bytes off a private socket's read buffer, and may answer.
LEMMA ShakeFine ==
    ASSUME NEW h, NEW g, Fine(h, g), NEW p \in Socks, Priv(p), NEW some \in BOOLEAN,
           NEW rest \in Left(h[p].rbuf, some), NEW w \in {h[p].wbuf, <<Anonymous>>}
    PROVE  LET h2 == [h EXCEPT ![p] = [@ EXCEPT !.rbuf = rest, !.wbuf = w]]
           IN  Fine(h2, g) /\ Calm(h, h2)
<1> DEFINE x == h[p]
           y == [x EXCEPT !.rbuf = rest, !.wbuf = w]
<1>1. HoldsAt(p, x) /\ FirstAt(x, p, g) /\ ~Client(p)
  BY DEF Fine, Holds, HandshakeFirst, Priv, Client
<1> HIDE DEF x
<1>2. /\ x \in [rx : Seq(Piece), rbuf : Seq(Piece), wbuf : Seq(Piece)]
      /\ x.rx \in Seq(Named(Answers)) /\ x.rbuf \in Seq(Named(Answers)) /\ x.wbuf \in Seq(Named(Requests))
  BY <1>1 DEF HoldsAt
<1>3. y.rx = x.rx /\ y.rbuf = rest /\ y.wbuf = w
  BY <1>2
<1>4. PICK pre \in Seq(Named(Answers)) : x.rbuf = pre \o rest /\ rest \in Seq(Named(Answers))
  <2> DEFINE q == x.rbuf
             pre == SubSeq(q, 1, Len(q) - Len(rest))
  <2>1. q \in Seq(Named(Answers)) /\ rest \in Left(q, some)
    BY <1>2 DEF x
  <2> HIDE DEF q
  <2>2. rest \in Seq(Named(Answers)) /\ pre \in Seq(Named(Answers)) /\ q = pre \o rest
    BY <2>1, LeftOf
  <2> HIDE DEF pre
  <2> QED BY <2>2 DEF q
<1>5. HeadOnly(rest) /\ (Nobodys(x.rbuf) => Nobodys(rest))
  <2>1. HeadOnly(rest)
    BY <1>1, <1>4, HeadOnlyParts DEF FirstAt
  <2>2. \A j \in DOMAIN rest : Len(pre) + j \in DOMAIN x.rbuf /\ x.rbuf[Len(pre) + j] = rest[j]
    BY <1>4, ConcatFrom
  <2>3. Nobodys(x.rbuf) => Nobodys(rest)
    BY <2>2 DEF Nobodys
  <2> QED BY <2>1, <2>3
<1>6. rest \in Seq(Piece)
  BY <1>4, Pieces, SeqMonotonic
<1>7. w \in Seq(Named(Requests)) /\ w \in Seq(Piece) /\ HeadOnly(w)
  <2>1. <<Anonymous>> \in Seq(Named(Requests)) /\ <<Anonymous>> \in Seq(Piece) /\ HeadOnly(<<Anonymous>>)
    BY Pieces, AnonymousFree DEF Named
  <2>2. x.wbuf \in Seq(Piece) /\ HeadOnly(x.wbuf)
    BY <1>1, <1>2 DEF FirstAt
  <2> QED BY <1>2, <2>1, <2>2 DEF x
<1>8. y \in [rx : Seq(Piece), rbuf : Seq(Piece), wbuf : Seq(Piece)]
  BY <1>2, <1>6, <1>7
<1> HIDE DEF y
<1>9. HoldsAt(p, y)
  BY <1>1, <1>2, <1>3, <1>4, <1>7, <1>8 DEF HoldsAt
<1>10. FirstAt(y, p, g)
  BY <1>1, <1>3, <1>5, <1>7 DEF FirstAt
<1>11. CalmAt(p, x, y)
  BY <1>1, <1>3 DEF CalmAt, x
<1>12. Fine([h EXCEPT ![p] = y], g) /\ Calm(h, [h EXCEPT ![p] = y])
  BY <1>9, <1>10, <1>11, OneChanged DEF x
<1> QED BY <1>12 DEF y, x

\* Something that is not a request is put behind what a client is to be given; what the
\* client has sent may be cleared.
LEMMA GiveFine ==
    ASSUME NEW h, NEW g, Fine(h, g), NEW q \in Socks, Client(q), NEW b \in {h[q].rbuf, <<>>},
           NEW d \in Seq(Named(Answers))
    PROVE  LET h2 == [h EXCEPT ![q] = [@ EXCEPT !.rbuf = b, !.wbuf = Join(h[q].wbuf, d)]]
           IN  Fine(h2, g) /\ Calm(h, h2)
<1> DEFINE x == h[q]
           w == Join(x.wbuf, d)
           y == [x EXCEPT !.rbuf = b, !.wbuf = w]
<1>1. HoldsAt(q, x) /\ ~Priv(q)
  BY DEF Fine, Holds, Priv, Client
<1> HIDE DEF x
<1>2. /\ x \in [rx : Seq(Piece), rbuf : Seq(Piece), wbuf : Seq(Piece)]
      /\ x.rx \in Seq(Request(who[q])) /\ x.rbuf \in Seq(Request(who[q])) /\ x.wbuf \in Seq(Named(Answers))
  BY <1>1 DEF HoldsAt
<1>3. w \in Seq(Named(Answers))
  BY <1>2, JoinCases
<1>4. w \in Seq(Piece)
  BY <1>3, Pieces, SeqMonotonic
<1> HIDE DEF w
<1>5. b \in Seq(Request(who[q])) /\ b \in Seq(Piece)
  BY <1>2, EmptySeq DEF x
<1>6. y.rx = x.rx /\ y.rbuf = b /\ y.wbuf = w
  BY <1>2
<1>7. y \in [rx : Seq(Piece), rbuf : Seq(Piece), wbuf : Seq(Piece)]
  BY <1>2, <1>4, <1>5
<1>8. Coming(y) \in {Coming(x), x.rx}
  <2>1. CASE b = x.rbuf
    BY <1>6, <2>1 DEF Coming
  <2>2. CASE b = <<>>
    <3>1. <<>> \o x.rx = x.rx
      BY <1>2, ConcatEmptySeq
    <3> QED BY <1>6, <2>2, <3>1 DEF Coming
  <2> QED BY <2>1, <2>2 DEF x
<1> HIDE DEF y
<1>9. HoldsAt(q, y)
  BY <1>1, <1>2, <1>3, <1>5, <1>6, <1>7 DEF HoldsAt
<1>10. CalmAt(q, x, y)
  BY <1>1, <1>8 DEF CalmAt
<1>11. Fine([h EXCEPT ![q] = y], g) /\ Calm(h, [h EXCEPT ![q] = y])
  BY <1>1, <1>9, <1>10, OneChanged DEF x
<1> QED BY <1>11 DEF y, w, x

LEMMA ClearFine ==
    ASSUME NEW h, NEW g, Fine(h, g), NEW p \in Socks, Priv(p)
    PROVE  LET h2 == [h EXCEPT ![p] = [@ EXCEPT !.rbuf = <<>>]]
           IN  Fine(h2, g) /\ Calm(h, h2)
<1> DEFINE x == h[p]
           y == [x EXCEPT !.rbuf = <<>>]
           z == [x EXCEPT !.rbuf = <<>>, !.wbuf = x.wbuf]
<1>1. <<>> \in Left(x.rbuf, FALSE)
  BY DEF Left
<1>2. x \in [rx : Seq(Piece), rbuf : Seq(Piece), wbuf : Seq(Piece)]
  BY DEF Fine, Holds, HoldsAt
<1>3. y = z
  BY <1>2
<1>4. Fine([h EXCEPT ![p] = z], g) /\ Calm(h, [h EXCEPT ![p] = z])
  BY <1>1, ShakeFine
<1> QED BY <1>3, <1>4

----------------------------------------------------------------------------
(* Relaying.                                                               *)

\* All that a step on the buffers keeps, if nothing is relayed to the private side.
Ordered(h, g) == Fine(h, g) /\ InLine(h, g) /\ OneCarrier(h)
NoMore(h, h2) == \A p \in Socks, c \in Clients : Priv(p) /\ Carries(h2, p, c) => Carries(h, p, c)

LEMMA CalmOrdered ==
    ASSUME NEW h, NEW g, Ordered(h, g), NEW h2, Fine(h2, g), Calm(h, h2)
    PROVE  Ordered(h2, g) /\ NoMore(h, h2)
<1>1. Holds(h) /\ InLine(h, g) /\ OneCarrier(h)
  BY DEF Ordered, Fine
<1>2. /\ InLine(h2, g) /\ OneCarrier(h2)
      /\ \A p \in Socks, c \in Clients : Priv(p) /\ Carries(h2, p, c) => Carries(h, p, c)
  BY <1>1, CalmLine
<1> QED BY <1>2 DEF Ordered, NoMore

Carried(h, from, to) == [h EXCEPT ![to] = [@ EXCEPT !.wbuf = Join(h[to].wbuf, h[from].rbuf)],
                                  ![from] = [@ EXCEPT !.rbuf = <<>>]]

LEMMA CarriedTwice ==
    ASSUME NEW h, DOMAIN h = Socks, NEW p \in Socks, NEW q \in Socks, p # q
    PROVE  Carried(h, p, q) = [[h EXCEPT ![q] = [h[q] EXCEPT !.wbuf = Join(h[q].wbuf, h[p].rbuf)]]
                                 EXCEPT ![p] = [h[p] EXCEPT !.rbuf = <<>>]]
<1> DEFINE u == [h[q] EXCEPT !.wbuf = Join(h[q].wbuf, h[p].rbuf)]
           v == [h[p] EXCEPT !.rbuf = <<>>]
<1>1. Carried(h, p, q) = [h EXCEPT ![q] = u, ![p] = v]
  BY DEF Carried
<1> HIDE DEF u, v
<1>2. [h EXCEPT ![q] = u, ![p] = v] = [[h EXCEPT ![q] = u] EXCEPT ![p] = v]
  OBVIOUS
<1> QED BY <1>1, <1>2 DEF u, v

\* An answer: from the private socket p to the client q.
LEMMA AnswerCarried ==
    ASSUME NEW h, NEW g, Ordered(h, g), NEW p \in Socks, Priv(p), NEW q \in Socks, Client(q)
    PROVE  Ordered(Carried(h, p, q), g) /\ NoMore(h, Carried(h, p, q))
<1> DEFINE d == h[p].rbuf
           x == h[q]
           w == Join(x.wbuf, d)
           h1 == [h EXCEPT ![q] = [@ EXCEPT !.rbuf = x.rbuf, !.wbuf = w]]
           h2 == [h1 EXCEPT ![p] = [@ EXCEPT !.rbuf = <<>>]]
<1>1. Fine(h, g) /\ p # q /\ DOMAIN h = Socks
      /\ x \in [rx : Seq(Piece), rbuf : Seq(Piece), wbuf : Seq(Piece)] /\ d \in Seq(Named(Answers))
  BY DEF Ordered, Fine, Holds, HoldsAt, Priv, Client
<1>2. Fine(h1, g) /\ Calm(h, h1)
  BY <1>1, GiveFine
<1>3. Ordered(h1, g) /\ NoMore(h, h1)
  BY <1>2, CalmOrdered
<1> HIDE DEF h1
<1>4. Fine(h2, g) /\ Calm(h1, h2)
  BY <1>2, ClearFine
<1>5. Ordered(h2, g) /\ NoMore(h1, h2)
  BY <1>3, <1>4, CalmOrdered
<1>6. Carried(h, p, q) = h2
  <2> HIDE DEF w
  <2>1. [x EXCEPT !.wbuf = w] = [x EXCEPT !.rbuf = x.rbuf, !.wbuf = w]
    BY <1>1
  <2>2. h1 = [h EXCEPT ![q] = [x EXCEPT !.wbuf = w]]
    BY <2>1 DEF h1
  <2> DEFINE v == [x EXCEPT !.wbuf = w]
  <2>3. Carried(h, p, q) = [[h EXCEPT ![q] = v] EXCEPT ![p] = [h[p] EXCEPT !.rbuf = <<>>]]
    <3>0. p \in Socks /\ q \in Socks /\ p # q /\ DOMAIN h = Socks
      BY <1>1
    <3>1. Carried(h, p, q) = [[h EXCEPT ![q] = [h[q] EXCEPT !.wbuf = Join(h[q].wbuf, h[p].rbuf)]]
                                EXCEPT ![p] = [h[p] EXCEPT !.rbuf = <<>>]]
      BY ONLY <3>0, CarriedTwice
    <3> QED BY ONLY <3>1 DEF w
  <2>4. h1[p] = h[p]
    BY <1>1 DEF h1
  <2> HIDE DEF v, x
  <2> QED BY <2>2, <2>3, <2>4 DEF v
<1>7. NoMore(h, h2)
  BY <1>3, <1>5 DEF NoMore
<1> QED BY <1>5, <1>6, <1>7

\* What a request carried from the client a to the private socket p leaves of both.
RequestHeld(h2, h, g, a, p) ==
    /\ DOMAIN h2 = Socks /\ Fine(h2, g)
    /\ h2[p].wbuf = h[p].wbuf \o h[a].rbuf
    /\ Coming(h2[a]) = h[a].rx
    /\ \A k \in Socks : k # p => h2[k].wbuf = h[k].wbuf
    /\ \A k \in Socks : Client(k) /\ k # a => Coming(h2[k]) = Coming(h[k])

\* A request: from the client a to the private socket p, the only one that can hold some
\* of a's pieces.
LEMMA RequestHolds ==
    ASSUME NEW h, NEW g, Ordered(h, g), NEW p \in Socks, Priv(p), NEW a \in Socks, Client(a), who[a] \in Clients
    PROVE  RequestHeld(Carried(h, a, p), h, g, a, p)
<1> DEFINE T == Request(who[a])
           b == h[a].rbuf
           w == Join(h[p].wbuf, b)
           x == h[a]
           v == h[p]
           y == [x EXCEPT !.rbuf = <<>>]
           z == [v EXCEPT !.wbuf = w]
           h2 == Carried(h, a, p)
<1>1. Fine(h, g) /\ p # a /\ DOMAIN h = Socks /\ HoldsAt(a, x) /\ HoldsAt(p, v) /\ FirstAt(v, p, g)
  BY DEF Ordered, Fine, Holds, HandshakeFirst, Priv, Client
<1>2. b \in Seq(T) /\ x.rx \in Seq(T) /\ x.wbuf \in Seq(Named(Answers))
      /\ x \in [rx : Seq(Piece), rbuf : Seq(Piece), wbuf : Seq(Piece)]
  BY <1>1 DEF HoldsAt
<1>3. v.wbuf \in Seq(Named(Requests)) /\ v.rx \in Seq(Named(Answers)) /\ v.rbuf \in Seq(Named(Answers))
      /\ v \in [rx : Seq(Piece), rbuf : Seq(Piece), wbuf : Seq(Piece)]
  BY <1>1 DEF HoldsAt
<1>4. Anonymous \notin T /\ T \subseteq Named(Requests)
  BY Pieces, NotAnonymous DEF Named
<1> HIDE DEF T, b
<1>5. w = v.wbuf \o b
  BY <1>2, <1>3, <1>4, JoinNamed
<1>6. w \in Seq(Named(Requests)) /\ w \in Seq(Piece)
  <2>1. b \in Seq(Named(Requests))
    BY <1>2, <1>4, SeqMonotonic
  <2>2. w \in Seq(Named(Requests))
    BY <1>3, <1>5, <2>1, ConcatProperties
  <2> QED BY <2>2, Pieces, SeqMonotonic
<1>7. HeadOnly(w)
  <2>1. HeadOnly(v.wbuf)
    BY <1>1 DEF FirstAt
  <2> HIDE DEF v
  <2> QED BY <1>2, <1>3, <1>4, <1>5, <2>1, HeadOnlyConcat
<1> HIDE DEF w
<1>8. h2 = [[h EXCEPT ![p] = z] EXCEPT ![a] = y]
  BY <1>1, CarriedTwice DEF w, b
<1>9. y.rx = x.rx /\ y.rbuf = <<>> /\ y.wbuf = x.wbuf /\ y \in [rx : Seq(Piece), rbuf : Seq(Piece), wbuf : Seq(Piece)]
  BY <1>2, EmptySeq
<1>10. z.rx = v.rx /\ z.rbuf = v.rbuf /\ z.wbuf = w /\ z \in [rx : Seq(Piece), rbuf : Seq(Piece), wbuf : Seq(Piece)]
  BY <1>3, <1>6
<1>11. DOMAIN h2 = Socks /\ h2[p] = z /\ h2[a] = y /\ \A k \in Socks : k \notin {a, p} => h2[k] = h[k]
  <2> HIDE DEF z, h2
  <2> QED BY <1>1, <1>8
<1> HIDE DEF y, z, h2
<1>12. HoldsAt(a, y) /\ HoldsAt(p, z)
  <2>1. ~Priv(a) /\ ~Client(p)
    BY DEF Priv, Client
  <2>2. HoldsAt(a, y)
    BY <1>2, <1>9, <2>1, EmptySeq DEF HoldsAt, T
  <2>3. HoldsAt(p, z)
    BY <1>3, <1>6, <1>10, <2>1 DEF HoldsAt
  <2> QED BY <2>2, <2>3
<1>13. FirstAt(z, p, g)
  BY <1>1, <1>7, <1>10 DEF FirstAt
<1>14. Fine(h2, g)
  <2>1. Holds(h2)
    BY <1>1, <1>11, <1>12 DEF Holds, Fine
  <2>2. HandshakeFirst(h2, g)
    BY <1>1, <1>11, <1>13 DEF HandshakeFirst, Fine, Priv, Client
  <2> QED BY <2>1, <2>2 DEF Fine
<1>15. Coming(h2[a]) = x.rx
  BY <1>2, <1>9, <1>11, ConcatEmptySeq DEF Coming
<1>16. \A k \in Socks : k # p => h2[k].wbuf = h[k].wbuf
  BY <1>9, <1>11
<1>17. \A k \in Socks : Client(k) /\ k # a => Coming(h2[k]) = Coming(h[k])
  BY <1>11 DEF Client, Priv
<1> QED BY <1>5, <1>10, <1>11, <1>14, <1>15, <1>16, <1>17 DEF h2, b, RequestHeld

LEMMA RequestCarried ==
    ASSUME NEW h, NEW g, Ordered(h, g), NEW p \in Socks, Priv(p), NEW a \in Socks, Client(a), who[a] \in Clients,
           \A k \in Socks : Client(k) /\ who[k] = who[a] => k = a,
           \A q \in Socks : Priv(q) /\ Carries(h, q, who[a]) => q = p
    PROVE  LET h2 == Carried(h, a, p)
           IN  /\ Ordered(h2, g)
               /\ \A q \in Socks, c \in Clients :
                    Priv(q) /\ Carries(h2, q, c) => Carries(h, q, c) \/ (q = p /\ c = who[a])
<1> DEFINE h2 == Carried(h, a, p)
           b == h[a].rbuf
           w == h[p].wbuf
           T == Request(who[a])
<1>1. /\ DOMAIN h2 = Socks /\ Fine(h2, g)
      /\ h2[p].wbuf = w \o b
      /\ Coming(h2[a]) = h[a].rx
      /\ \A k \in Socks : k # p => h2[k].wbuf = h[k].wbuf
      /\ \A k \in Socks : Client(k) /\ k # a => Coming(h2[k]) = Coming(h[k])
  <2> HIDE DEF h2
  <2>1. Ordered(h, g) /\ p \in Socks /\ Priv(p) /\ a \in Socks /\ Client(a) /\ who[a] \in Clients
    OBVIOUS
  <2>2. h2 = Carried(h, a, p)
    BY DEF h2
  <2>3. RequestHeld(h2, h, g, a, p)
    BY ONLY <2>1, <2>2, RequestHolds
  <2> HIDE DEF w, b
  <2> QED BY ONLY <2>3 DEF w, b, RequestHeld
<1> HIDE DEF h2
<1>2. /\ w \in Seq(Piece) /\ b \in Seq(Piece) /\ b \in Seq(T)
      /\ HoldsAt(a, h[a]) /\ \A k \in Socks : HoldsAt(k, h[k])
  BY DEF Ordered, Fine, Holds, HoldsAt, Priv, Client
<1>3. \A i \in DOMAIN b : b[i].from = who[a]
  <2>1. \A i \in DOMAIN b : b[i] \in T
    BY <1>2, LenProperties, ElementOfSeq
  <2> QED BY <2>1 DEF Request
<1>4. /\ Sorted(g) /\ Sent(g) /\ Sorted(w) /\ Sent(w) /\ Before(g, w)
      /\ Sorted(Coming(h[a])) /\ Sent(Coming(h[a])) /\ Before(g, Coming(h[a]))
      /\ \A q \in Socks : Priv(q) => Before(h[q].wbuf, Coming(h[a]))
  BY DEF Ordered, InLine
<1>5. /\ Sorted(h[a].rx) /\ Sorted(b) /\ Before(b, h[a].rx) /\ Sent(h[a].rx) /\ Sent(b)
      /\ Before(g, h[a].rx) /\ Before(g, b)
      /\ \A q \in Socks : Priv(q) => Before(h[q].wbuf, h[a].rx) /\ Before(h[q].wbuf, b)
  BY <1>2, <1>4, ComingType
<1>6. \A x : /\ Sorted(w \o b) <=> Sorted(w) /\ Sorted(b) /\ Before(w, b)
             /\ Sent(w \o b) <=> Sent(w) /\ Sent(b)
             /\ Before(w \o b, x) <=> Before(w, x) /\ Before(b, x)
             /\ Before(x, w \o b) <=> Before(x, w) /\ Before(x, b)
  BY <1>2, ConcatSorted, ConcatSent, ConcatBefore
<1>7. ASSUME NEW q \in Socks, Priv(q)
      PROVE  Sorted(h2[q].wbuf) /\ Sent(h2[q].wbuf) /\ Before(g, h2[q].wbuf)
  <2>1. CASE q = p
    BY <1>1, <1>4, <1>5, <1>6, <2>1
  <2>2. CASE q # p
    BY <1>1, <1>7, <2>2 DEF Ordered, InLine
  <2> QED BY <2>1, <2>2
<1>8. ASSUME NEW k \in Socks, Client(k)
      PROVE  Sorted(Coming(h2[k])) /\ Sent(Coming(h2[k])) /\ Before(g, Coming(h2[k]))
  <2>1. CASE k = a
    BY <1>1, <1>5, <2>1
  <2>2. CASE k # a
    BY <1>1, <1>8, <2>2 DEF Ordered, InLine
  <2> QED BY <2>1, <2>2
<1>9. ASSUME NEW k \in Socks, Client(k), k # a
      PROVE  Before(b, Coming(h[k]))
  <2> DEFINE U == Request(who[k])
  <2>1. h[k].rbuf \in Seq(U) /\ h[k].rx \in Seq(U)
    BY <1>2, <1>9 DEF HoldsAt
  <2>2. Coming(h[k]) \in Seq(U)
    BY <2>1, ConcatProperties DEF Coming
  <2>3. \A i \in DOMAIN Coming(h[k]) : Coming(h[k])[i] \in U
    <3> HIDE DEF U
    <3> QED BY <2>2, LenProperties, ElementOfSeq
  <2>4. \A i \in DOMAIN Coming(h[k]) : Coming(h[k])[i].from = who[k]
    BY <2>3 DEF Request
  <2> QED BY <1>3, <1>9, <2>4 DEF Before
<1>10. ASSUME NEW q \in Socks, Priv(q), NEW k \in Socks, Client(k)
       PROVE  Before(h2[q].wbuf, Coming(h2[k]))
  <2>1. Before(h[q].wbuf, Coming(h2[k])) /\ Before(b, Coming(h2[k]))
    <3>1. CASE k = a
      BY <1>1, <1>5, <1>10, <3>1
    <3>2. CASE k # a
      BY <1>1, <1>9, <1>10, <3>2 DEF Ordered, InLine
    <3> QED BY <3>1, <3>2
  <2>2. CASE q = p
    BY <1>1, <1>6, <2>1, <2>2
  <2>3. CASE q # p
    BY <1>1, <2>1, <2>3
  <2> QED BY <2>2, <2>3
<1>11. InLine(h2, g)
  BY <1>4, <1>7, <1>8, <1>10 DEF InLine
<1>12. ASSUME NEW q \in Socks, NEW c \in Clients, Priv(q), Carries(h2, q, c)
       PROVE  Carries(h, q, c) \/ (q = p /\ c = who[a])
  <2>1. CASE q # p
    BY <1>1, <1>12, <2>1 DEF Carries
  <2>2. CASE q = p
    <3>1. \A i \in DOMAIN (w \o b) : \/ i \in DOMAIN w /\ (w \o b)[i] = w[i]
                                     \/ \E j \in DOMAIN b : i = Len(w) + j /\ (w \o b)[i] = b[j]
      <4> HIDE DEF w, b, T
      <4> QED BY ONLY <1>2, ConcatAt
    <3>2. PICK i \in DOMAIN (w \o b) : (w \o b)[i].from = c
      BY <1>1, <1>12, <2>2 DEF Carries
    <3>3. CASE i \in DOMAIN w /\ (w \o b)[i] = w[i]
      BY <2>2, <3>2, <3>3 DEF Carries
    <3>4. CASE \E j \in DOMAIN b : (w \o b)[i] = b[j]
      BY <1>3, <2>2, <3>2, <3>4
    <3> QED BY <3>1, <3>3, <3>4
  <2> QED BY <2>1, <2>2
<1>13. OneCarrier(h2)
  <2> SUFFICES ASSUME NEW q \in Socks, NEW r \in Socks, NEW c \in Clients, Priv(q), Priv(r),
                      Carries(h2, q, c), Carries(h2, r, c)
               PROVE  q = r
    BY DEF OneCarrier
  <2>1. Carries(h, q, c) \/ (q = p /\ c = who[a])
    BY <1>12
  <2>2. Carries(h, r, c) \/ (r = p /\ c = who[a])
    BY <1>12
  <2> QED BY <2>1, <2>2 DEF Ordered, OneCarrier
<1>14. Ordered(h2, g)
  BY <1>1, <1>11, <1>13 DEF Ordered
<1> QED BY <1>12, <1>14 DEF h2

----------------------------------------------------------------------------
(* What the handlers of an event do to the sockets and to who is bound.    *)

Empty(s) == \A j \in Socks : ~s[j].alloc => s[j] = NoSock
Bits(x, y) == x.rx = y.rx /\ x.rbuf = y.rbuf /\ x.wbuf = y.wbuf

\* A connected tunnel of appList is left as it was, or bound to nobody, unless one of its
\* ends is closed.
StaysTied(t, u) ==
    t.state = "connected_state" /\ t.status \in AppStatus =>
      \/ t.priv \in Socks /\ ~sock'[t.priv].alloc
      \/ /\ u.state = "connected_state"
         /\ \/ u.status = t.status /\ u.remote \in {t.remote, NULL}
            \/ t.remote \in Socks /\ ~sock'[t.remote].alloc

\* A tunnel in use stays in use until its client is gone or the handshake ends.
StaysRun(t, u) ==
    \/ u.status = t.status \/ t.state = "tunnel_waitting"
    \/ t.state = "request_state" /\ u.state = "connected_state"

\* No socket changes sides, and a tunnel is bound as before or to nobody.
Rebinds(t, u) ==
    /\ u.remote # NULL =>
         /\ u.remote = t.remote
         /\ u.state = "tunnel_waitting" <=> t.state = "tunnel_waitting"
         /\ u.status = "tmptun_is_wait" => t.status = "tmptun_is_wait"
         /\ u.priv = t.priv \/ (t.priv \in Socks /\ ~sock'[t.priv].alloc)
         /\ StaysRun(t, u)
    /\ StaysTied(t, u)
SidesKept == \A j \in Socks : IF sock'[j].alloc
                              THEN /\ sock[j].alloc /\ sock'[j].ispriv = sock[j].ispriv
                                   /\ sock'[j].tunnel = sock[j].tunnel
                              ELSE sock'[j] = NoSock
Effect(r) == /\ SidesKept
             /\ \A x \in Tunnels : x # r => tun'[x] = tun[x]
             /\ Rebinds(tun[r], tun'[r])

LEMMA OwnersSides ==
    ASSUME NEW s, SameOwners(s), Empty(s),
           \A j \in Socks : sock'[j] = s[j] \/ sock'[j] = NoSock
    PROVE  SidesKept
<1> SUFFICES ASSUME NEW j \in Socks
             PROVE  IF sock'[j].alloc
                    THEN /\ sock[j].alloc /\ sock'[j].ispriv = sock[j].ispriv
                         /\ sock'[j].tunnel = sock[j].tunnel
                    ELSE sock'[j] = NoSock
  BY DEF SidesKept
<1>1. ~NoSock.alloc
  BY DEF NoSock
<1> QED BY <1>1 DEF SameOwners, Empty

LEMMA StillEffect ==
    ASSUME HeapInv, NEW r \in Tunnels, SidesKept, UNCHANGED tun
    PROVE  Effect(r)
<1>1. Rebinds(tun[r], tun'[r])
  BY DEF Rebinds, StaysTied, StaysRun
<1> QED BY <1>1 DEF Effect

LEMMA ForcedBinds ==
    ASSUME NEW k \in Socks, NEW t \in Tunnel, NEW ispriv \in BOOLEAN, ispriv => t.priv = k, ~sock'[k].alloc
    PROVE  Rebinds(t, ForcedT(t, k, ispriv))
<1> DEFINE u == ForcedT(t, k, ispriv)
<1>1. /\ u.priv = IF ispriv THEN NULL ELSE t.priv
      /\ u.remote \in {NULL, t.remote} /\ u.state = t.state
  BY ForcedType
<1>2. u.status = "tmptun_is_wait" => t.status = "tmptun_is_wait"
  BY DEF ForcedT, Tunnel
<1>3. u.priv = t.priv \/ (t.priv \in Socks /\ ~sock'[t.priv].alloc)
  BY <1>1
<1>4. t.remote = k \/ u.status = t.status \/ t.status = "tmptun_is_close"
  BY DEF ForcedT, Tunnel
<1>5. t.remote = k \/ t.status = "tmptun_is_close" => u.remote = NULL
  BY DEF ForcedT, Tunnel
<1>6. "tmptun_is_close" \notin AppStatus
  BY DEF AppStatus
<1> HIDE DEF u
<1>7. StaysTied(t, u)
  BY <1>1, <1>4, <1>6 DEF StaysTied
<1>8. u.remote # NULL => StaysRun(t, u)
  BY <1>4, <1>5 DEF StaysRun
<1> QED BY <1>1, <1>2, <1>3, <1>7, <1>8 DEF Rebinds, u

LEMMA ForceEffect ==
    ASSUME HeapInv, NEW k \in Socks, sock[k].alloc, SockOK(k), NEW s, SameOwners(s), Empty(s),
           SockForceShutdown(k, s)
    PROVE  /\ Effect(sock[k].tunnel) /\ UNCHANGED fault /\ sock'[k] = NoSock
           /\ \A j \in Socks : j # k => sock'[j] = s[j]
<1> DEFINE r == sock[k].tunnel
           t == tun[r]
           u == ForcedT(t, k, sock[k].ispriv)
<1>1. r \in Tunnels /\ t \in Tunnel /\ s[k].tunnel = r /\ s[k].ispriv = sock[k].ispriv /\ sock[k].ispriv \in BOOLEAN
      /\ tun \in [Tunnels -> Tunnel]
  BY DEF HeapInv, SockInTunnel, SameOwners, Sock
<1>2. sock' = Released(s, {k}) /\ tun' = [tun EXCEPT ![r] = u] /\ UNCHANGED fault
  BY <1>1 DEF SockForceShutdown
<1>3. sock'[k] = NoSock /\ \A j \in Socks : j # k => sock'[j] = s[j]
  BY <1>2 DEF Released
<1>4. SidesKept
  <2>1. \A j \in Socks : sock'[j] = s[j] \/ sock'[j] = NoSock
    BY <1>3
  <2> QED BY <2>1, OwnersSides
<1>5. tun'[r] = u /\ \A x \in Tunnels : x # r => tun'[x] = tun[x]
  <2> HIDE DEF u
  <2> QED BY <1>1, <1>2
<1>6. Rebinds(t, u)
  <2>1. (sock[k].ispriv => t.priv = k) /\ ~sock'[k].alloc
    BY <1>3 DEF SockOK, NoSock
  <2> QED BY <1>1, <2>1, ForcedBinds
<1> QED BY <1>2, <1>3, <1>4, <1>5, <1>6 DEF Effect

LEMMA CloseEffect ==
    ASSUME HeapInv, NEW k \in Socks, sock[k].alloc, SockOK(k), NEW s, SameOwners(s), Empty(s),
           CloseSock(k, s)
    PROVE  /\ Effect(sock[k].tunnel) /\ UNCHANGED fault
           /\ \A j \in Socks : sock'[j] = s[j] \/ sock'[j] = NoSock
<1> DEFINE r == sock[k].tunnel
           t == tun[r]
<1>1. r \in Tunnels /\ t \in Tunnel /\ s[k].tunnel = r /\ s[k].ispriv = sock[k].ispriv /\ sock[k].ispriv \in BOOLEAN
      /\ tun \in [Tunnels -> Tunnel]
  BY DEF HeapInv, SockInTunnel, SameOwners, Sock
<1>2. UNCHANGED fault
  BY DEF CloseSock
<1>3. \E u : /\ tun' = [tun EXCEPT ![r] = u]
             /\ (\E ks : sock' = Released(s, ks)) \/ (u = t /\ sock' = s)
             /\ \/ u.remote = NULL /\ StaysTied(t, u)
                \/ u = t
                \/ u = ForcedT(t, k, sock[k].ispriv) /\ sock' = Released(s, {k})
  <2>1. CASE k = t.priv
    <3>1. tun' = [tun EXCEPT ![r] = PrivShutT(t, k)] /\ sock' = Released(s, {k, ForcedT(t, k, TRUE).remote})
      BY <1>1, <2>1 DEF CloseSock
    <3>2. PrivShutT(t, k).remote = NULL
      BY <1>1, PrivShutType
    <3>3. StaysTied(t, PrivShutT(t, k))
      <4>1. ~sock'[k].alloc
        BY <3>1 DEF Released, NoSock
      <4> QED BY <2>1, <4>1 DEF StaysTied
    <3> QED BY <3>1, <3>2, <3>3
  <2>2. CASE k # t.priv /\ k = t.remote /\ t.state \in {"connected_state", "tunnel_waitting"}
    <3>1. tun' = [tun EXCEPT ![r] = RemoteShutT(t, k)] /\ sock' = Released(s, {k})
      BY <1>1, <2>2 DEF CloseSock
    <3>2. RemoteShutT(t, k).remote = NULL /\ RemoteShutT(t, k).state = t.state
      BY <1>1, RemoteShutType
    <3>3. StaysTied(t, RemoteShutT(t, k))
      <4>1. ~sock'[k].alloc
        BY <3>1 DEF Released, NoSock
      <4> QED BY <2>2, <3>2, <4>1 DEF StaysTied
    <3> QED BY <3>1, <3>2, <3>3
  <2>3. CASE k # t.priv /\ ~(k = t.remote /\ t.state \in {"connected_state", "tunnel_waitting"})
    <3>1. CASE t.status = "tmptun_is_close"
      <4>1. tun' = [tun EXCEPT ![r] = ForcedT(t, k, sock[k].ispriv)] /\ sock' = Released(s, {k})
        BY <1>1, <2>3, <3>1 DEF CloseSock
      <4> QED BY <4>1
    <3>2. CASE t.status # "tmptun_is_close"
      <4>1. sock' = s /\ tun' = tun
        BY <1>1, <2>3, <3>2 DEF CloseSock
      <4>2. tun' = [tun EXCEPT ![r] = t]
        BY <1>1, <4>1
      <4> QED BY <4>1, <4>2
    <3> QED BY <3>1, <3>2
  <2> QED BY <2>1, <2>2, <2>3
<1>4. PICK u : /\ tun' = [tun EXCEPT ![r] = u]
               /\ (\E ks : sock' = Released(s, ks)) \/ (u = t /\ sock' = s)
               /\ \/ u.remote = NULL /\ StaysTied(t, u)
                  \/ u = t
                  \/ u = ForcedT(t, k, sock[k].ispriv) /\ sock' = Released(s, {k})
  BY <1>3
<1>5. \A j \in Socks : sock'[j] = s[j] \/ sock'[j] = NoSock
  BY <1>4 DEF Released
<1>6. SidesKept
  BY <1>5, OwnersSides
<1>7. tun'[r] = u /\ \A x \in Tunnels : x # r => tun'[x] = tun[x]
  BY <1>1, <1>4
<1>8. Rebinds(t, u)
  <2>1. CASE u.remote = NULL /\ StaysTied(t, u)
    BY <2>1 DEF Rebinds
  <2>2. CASE u = t
    BY <2>2 DEF Rebinds, StaysTied, StaysRun
  <2>3. CASE u = ForcedT(t, k, sock[k].ispriv) /\ sock' = Released(s, {k})
    <3>1. (sock[k].ispriv => t.priv = k) /\ ~sock'[k].alloc
      BY <2>3 DEF SockOK, Released, NoSock
    <3> QED BY <1>1, <2>3, <3>1, ForcedBinds
  <2> QED BY <1>4, <2>1, <2>2, <2>3
<1> QED BY <1>2, <1>5, <1>6, <1>7, <1>8 DEF Effect

\* What is left for the client, if the client is to be shut down.
LeftFor(k, s) ==
    LET t == tun[sock[k].tunnel] IN t.state = "connected_state" /\ k = t.remote /\ s[t.priv].rbuf

LEMMA ShutEffect ==
    ASSUME HeapInv, NEW k \in Socks, sock[k].alloc, SockOK(k), NEW s, SameOwners(s), Empty(s),
           SockShutdown(k, s)
    PROVE  \/ fault' # "none" /\ UNCHANGED <<sock, tun>>
           \/ /\ Effect(sock[k].tunnel)
              /\ tun[sock[k].tunnel].state = "connected_state" => tun[sock[k].tunnel].priv # NULL
              /\ \A j \in Socks : sock'[j].alloc =>
                   /\ sock'[j].rx = s[j].rx /\ sock'[j].rbuf = s[j].rbuf
                   /\ sock'[j].wbuf = (s[j].wbuf \/ (j = k /\ LeftFor(k, s)))
<1> DEFINE r == sock[k].tunnel
           t == tun[r]
           bad == t.state = "connected_state" /\ t.priv = NULL
           left == LeftFor(k, s)
           y == [s[k] EXCEPT !.half = TRUE, !.wbuf = TRUE, !.mask = {"out"}]
           z == [s[k] EXCEPT !.half = TRUE]
<1>1. r \in Tunnels /\ s[k].tunnel = r /\ s \in [Socks -> Sock] /\ s[k] \in Sock /\ s[k].alloc
  BY DEF HeapInv, SockInTunnel, SameOwners
<1>2. CASE bad /\ Crash("null")
  BY <1>2 DEF Crash
<1>3. CASE ~bad /\ (s[k].wbuf \/ left) /\ sock' = [s EXCEPT ![k] = y] /\ UNCHANGED tun
  <2>1. y \in Sock /\ y.alloc = s[k].alloc /\ y.ispriv = s[k].ispriv /\ y.tunnel = s[k].tunnel
        /\ y.rx = s[k].rx /\ y.rbuf = s[k].rbuf /\ y.wbuf = TRUE
    BY <1>1 DEF Sock
  <2> HIDE DEF y
  <2>2. sock'[k] = y /\ \A j \in Socks : j # k => sock'[j] = s[j]
    BY <1>1, <1>3
  <2>3. SidesKept
    <3> SUFFICES ASSUME NEW j \in Socks
                 PROVE  IF sock'[j].alloc
                        THEN /\ sock[j].alloc /\ sock'[j].ispriv = sock[j].ispriv
                             /\ sock'[j].tunnel = sock[j].tunnel
                        ELSE sock'[j] = NoSock
      BY DEF SidesKept
    <3>1. CASE j = k
      BY <1>1, <2>1, <2>2, <3>1 DEF SameOwners
    <3>2. CASE j # k
      BY <2>2, <3>2 DEF SameOwners, Empty
    <3> QED BY <3>1, <3>2
  <2>4. Effect(r)
    BY <1>1, <1>3, <2>3, StillEffect
  <2>5. ASSUME NEW j \in Socks, sock'[j].alloc
        PROVE  /\ sock'[j].rx = s[j].rx /\ sock'[j].rbuf = s[j].rbuf
               /\ sock'[j].wbuf = (s[j].wbuf \/ (j = k /\ left))
    <3> HIDE DEF left
    <3>1. CASE j = k
      <4>1. sock'[j].rx = s[j].rx /\ sock'[j].rbuf = s[j].rbuf /\ sock'[j].wbuf = TRUE
        BY <2>1, <2>2, <3>1
      <4>2. s[j].wbuf \/ (j = k /\ left)
        BY <1>3, <3>1
      <4>3. (s[j].wbuf \/ (j = k /\ left)) = TRUE
        BY <4>2
      <4> QED BY <4>1, <4>3
    <3>2. CASE j # k
      <4>1. s[j].wbuf \in BOOLEAN
        BY <1>1 DEF Sock
      <4> QED BY <2>2, <3>2, <4>1
    <3> QED BY <3>1, <3>2
  <2> QED BY <1>3, <2>4, <2>5
<1>4. CASE ~bad /\ ~s[k].wbuf /\ ~left /\ CloseSock(k, [s EXCEPT ![k] = z])
  <2> DEFINE s2 == [s EXCEPT ![k] = z]
  <2>1. z \in Sock /\ z.alloc = s[k].alloc /\ z.ispriv = s[k].ispriv /\ z.tunnel = s[k].tunnel
        /\ z.rx = s[k].rx /\ z.rbuf = s[k].rbuf /\ z.wbuf = s[k].wbuf
    BY <1>1 DEF Sock
  <2> HIDE DEF z
  <2>2. SameOwners(s2)
    BY <2>1, PointOwners
  <2>3. s2[k] = z /\ \A j \in Socks : j # k => s2[j] = s[j]
    BY <1>1
  <2> HIDE DEF s2
  <2>4. Empty(s2)
    BY <1>1, <2>1, <2>3 DEF Empty
  <2>5. CloseSock(k, s2)
    BY <1>4 DEF s2
  <2>6. Effect(r) /\ \A j \in Socks : sock'[j] = s2[j] \/ sock'[j] = NoSock
    BY <2>2, <2>4, <2>5, CloseEffect
  <2>7. ASSUME NEW j \in Socks, sock'[j].alloc
        PROVE  /\ sock'[j].rx = s[j].rx /\ sock'[j].rbuf = s[j].rbuf
               /\ sock'[j].wbuf = (s[j].wbuf \/ (j = k /\ left))
    <3> HIDE DEF left
    <3>1. sock'[j] = s2[j] /\ s[j].wbuf \in BOOLEAN
      BY <1>1, <2>6, <2>7 DEF NoSock, Sock
    <3>2. CASE j = k
      BY <1>4, <2>1, <2>3, <3>1, <3>2
    <3>3. CASE j # k
      BY <2>3, <3>1, <3>3
    <3> QED BY <3>2, <3>3
  <2> QED BY <1>4, <2>6, <2>7
<1> QED
  <2>1. \/ bad /\ Crash("null")
        \/ ~bad /\ (s[k].wbuf \/ left) /\ sock' = [s EXCEPT ![k] = y] /\ UNCHANGED tun
        \/ ~bad /\ ~s[k].wbuf /\ ~left /\ CloseSock(k, [s EXCEPT ![k] = z])
    BY <1>1 DEF SockShutdown, LeftFor
  <2> QED BY <1>2, <1>3, <1>4, <2>1

----------------------------------------------------------------------------
(* A step moves pieces, then released sockets lose what they hold.         *)

Sides == \A j \in Socks : IF sock'[j].alloc
                          THEN sock[j].alloc /\ sock'[j].ispriv = sock[j].ispriv
                          ELSE sock'[j] = NoSock
BoundKept ==
    \A k \in Socks :
      LET t == tun[sock[k].tunnel]
          u == tun'[sock'[k].tunnel]
      IN  sock'[k].alloc /\ ~sock'[k].ispriv /\ u.remote = k =>
            /\ t.remote = k
            /\ IF u.state = "tunnel_waitting"
               THEN u.status = "tmptun_is_wait" => t.state = "tunnel_waitting" /\ t.status = "tmptun_is_wait"
               ELSE /\ t.state # "tunnel_waitting"
                    /\ u.priv = t.priv \/ (t.priv \in Socks /\ ~sock'[t.priv].alloc)

LEMMA EffectBound ==
    ASSUME HeapInv, NEW r \in Tunnels, Effect(r)
    PROVE  Sides /\ BoundKept
<1>1. Sides
  BY DEF Effect, SidesKept, Sides
<1>2. BoundKept
  <2> SUFFICES ASSUME NEW k \in Socks, sock'[k].alloc, ~sock'[k].ispriv,
                      tun'[sock'[k].tunnel].remote = k
               PROVE  LET t == tun[sock[k].tunnel]
                          u == tun'[sock'[k].tunnel]
                      IN  /\ t.remote = k
                          /\ IF u.state = "tunnel_waitting"
                             THEN u.status = "tmptun_is_wait" => t.state = "tunnel_waitting" /\ t.status = "tmptun_is_wait"
                             ELSE /\ t.state # "tunnel_waitting"
                                  /\ u.priv = t.priv \/ (t.priv \in Socks /\ ~sock'[t.priv].alloc)
    BY DEF BoundKept
  <2> DEFINE x == sock[k].tunnel
  <2>1. sock[k].alloc /\ sock'[k].tunnel = x /\ x \in Tunnels
    BY DEF Effect, SidesKept, HeapInv, SockInTunnel
  <2>2. k # NULL
    OBVIOUS
  <2>3. CASE x # r
    <3>1. tun'[x] = tun[x]
      BY <2>1, <2>3 DEF Effect
    <3> QED BY <2>1, <3>1
  <2>4. CASE x = r
    <3>1. Rebinds(tun[x], tun'[x])
      BY <2>4 DEF Effect
    <3> QED BY <2>1, <2>2, <3>1 DEF Rebinds
  <2> QED BY <2>3, <2>4
<1> QED BY <1>1, <1>2

Agree(s, h) == \A j \in Socks : s[j].alloc => Match(s[j], h[j])
Moves(h) == /\ Settle(h) /\ Ordered(h, got') /\ Bound(h)
            /\ fault' = "none" => Agree(sock', h)

\* What the invariant says of the buffers, after such a step.
LEMMA SettledAt ==
    ASSUME NEW h, Settle(h)
    PROVE  /\ DOMAIN held' = Socks
           /\ \A j \in Socks : held'[j] = IF sock'[j].alloc THEN h[j] ELSE Nothing
  BY DEF Settle

LEMMA NothingHolds ==
    ASSUME NEW k \in Socks, NEW x, x = Nothing, ~sock'[k].alloc
    PROVE  HoldsAt(k, x)'
<1>1. x \in [rx : Seq(Piece), rbuf : Seq(Piece), wbuf : Seq(Piece)]
  BY EmptySeq DEF Nothing
<1> QED BY <1>1 DEF HoldsAt, Priv, Client

LEMMA MovedOrder ==
    ASSUME NEW h, Ordered(h, got'), Settle(h), Sides, UNCHANGED <<who, sent>>
    PROVE  Holds(held)' /\ HandshakeFirst(held, got)' /\ InLine(held, got)' /\ OneCarrier(held)'
<1>1. \A j \in Socks : /\ sock'[j].alloc => held'[j] = h[j] /\ sock[j].alloc /\ sock'[j].ispriv = sock[j].ispriv
                       /\ ~sock'[j].alloc => held'[j] = Nothing
  BY SettledAt DEF Sides
<1>2. \A j \in Socks : (Priv(j)' => Priv(j) /\ held'[j] = h[j]) /\ (Client(j)' => Client(j) /\ held'[j] = h[j])
  BY <1>1 DEF Priv, Client
<1>3. ASSUME NEW j \in Socks
      PROVE  HoldsAt(j, held[j])'
  <2>1. CASE sock'[j].alloc
    <3>1. HoldsAt(j, h[j])
      BY DEF Ordered, Fine, Holds
    <3>2. Request(who[j])' = Request(who[j])
      BY DEF Request
    <3> QED BY <1>1, <1>2, <2>1, <3>1, <3>2 DEF HoldsAt
  <2>2. CASE ~sock'[j].alloc
    BY <1>1, <2>2, NothingHolds
  <2> QED BY <2>1, <2>2
<1>4. Holds(held)'
  BY <1>3, SettledAt DEF Holds
<1>5. HandshakeFirst(held, got)'
  <2>1. ASSUME NEW j \in Socks, Priv(j)'
        PROVE  FirstAt(held[j], j, got)'
    <3>1. FirstAt(held'[j], j, got')
      BY <1>2, <2>1 DEF Ordered, Fine, HandshakeFirst
    <3> QED BY <3>1 DEF FirstAt, Unasked
  <2> QED BY <2>1 DEF HandshakeFirst
<1>6. InLine(held, got)'
  <2>1. \A q : Sent(q) => (\A i \in DOMAIN q : q[i].from # 0 => q[i].n <= sent'[q[i].from])
    BY DEF Sent
  <2>2. InLine(h, got')
    BY DEF Ordered
  <2>3. /\ Sorted(got') /\ Sent(got')
        /\ \A p \in Socks : Priv(p)' => Sorted(held'[p].wbuf) /\ Sent(held'[p].wbuf) /\ Before(got', held'[p].wbuf)
        /\ \A k \in Socks : Client(k)' => /\ Sorted(Coming(held'[k])) /\ Sent(Coming(held'[k]))
                                          /\ Before(got', Coming(held'[k]))
        /\ \A p, k \in Socks : Priv(p)' /\ Client(k)' => Before(held'[p].wbuf, Coming(held'[k]))
    BY <1>2, <2>2 DEF InLine
  <2> QED BY <2>1, <2>3 DEF InLine, Sent, Sorted, Before, Coming
<1>7. OneCarrier(held)'
  <2>1. \A p \in Socks, c \in Clients : Priv(p)' /\ Carries(held, p, c)' => Priv(p) /\ Carries(h, p, c)
    BY <1>2 DEF Carries
  <2> QED BY <2>1 DEF Ordered, OneCarrier
<1> QED BY <1>4, <1>5, <1>6, <1>7

LEMMA MovedBound ==
    ASSUME NEW h, Bound(h), Settle(h), Sides, BoundKept, UNCHANGED who
    PROVE  Bound(held)'
<1> SUFFICES ASSUME NEW p \in Socks, NEW k \in Socks, Priv(p)', Client(k)', Carries(held, p, who[k])',
                    tun'[sock'[k].tunnel].remote = k
             PROVE  LET u == tun'[sock'[k].tunnel]
                    IN  IF u.state = "tunnel_waitting" THEN u.status # "tmptun_is_wait" ELSE u.priv = p
  BY DEF Bound
<1> DEFINE t == tun[sock[k].tunnel]
           u == tun'[sock'[k].tunnel]
<1>1. Priv(p) /\ Client(k) /\ sock'[p].alloc /\ sock'[k].alloc /\ ~sock'[k].ispriv
  BY DEF Sides, Priv, Client
<1>2. Carries(h, p, who[k])
  BY <1>1, SettledAt DEF Carries
<1>3. /\ t.remote = k
      /\ IF u.state = "tunnel_waitting"
         THEN u.status = "tmptun_is_wait" => t.state = "tunnel_waitting" /\ t.status = "tmptun_is_wait"
         ELSE /\ t.state # "tunnel_waitting"
              /\ u.priv = t.priv \/ (t.priv \in Socks /\ ~sock'[t.priv].alloc)
  BY <1>1 DEF BoundKept
<1>4. IF t.state = "tunnel_waitting" THEN t.status # "tmptun_is_wait" ELSE t.priv = p
  BY <1>1, <1>2, <1>3 DEF Bound
<1> QED BY <1>1, <1>3, <1>4

LEMMA MovedAgree ==
    ASSUME NEW h, Settle(h), Sides, fault' = "none" => Agree(sock', h)
    PROVE  BuffersAgree' /\ Freed(held)'
<1>1. Freed(held)'
  BY SettledAt DEF Freed, Sides
<1>2. ASSUME NEW j \in Socks, fault' = "none"
      PROVE  Match(sock'[j], held'[j])
  <2>1. CASE sock'[j].alloc
    BY <1>2, <2>1, SettledAt DEF Agree
  <2>2. CASE ~sock'[j].alloc
    <3>1. held'[j] = Nothing /\ sock'[j] = NoSock
      BY <2>2, SettledAt DEF Sides
    <3> QED BY <3>1 DEF Match, Nothing, NoSock
  <2> QED BY <2>1, <2>2
<1>3. BuffersAgree'
  BY <1>2 DEF BuffersAgree, Match
<1> QED BY <1>1, <1>3

LEMMA MovedWho ==
    ASSUME WhoOK, Sides, UNCHANGED <<dials, who, sent>>
    PROVE  WhoOK'
<1>1. \A j \in Socks : (Client(j)' => Client(j)) /\ (Priv(j)' => Priv(j))
  BY DEF Sides, Client, Priv
<1> QED BY <1>1 DEF WhoOK, Arrived, Opened

LEMMA MovedHeld ==
    ASSUME NEW h, Settle(h), Holds(held)'
    PROVE  held' \in [Socks -> Buffers]
<1>1. \A j \in Socks : held'[j] \in Buffers
  BY DEF Holds, HoldsAt, Buffers
<1> QED BY <1>1 DEF Settle

LEMMA MovedInv ==
    ASSUME StreamInv, NEW h, Moves(h), Sides, BoundKept, UNCHANGED <<dials, who, sent>>, Histories'
    PROVE  StreamInv'
<1>1. Settle(h) /\ Ordered(h, got') /\ Bound(h) /\ (fault' = "none" => Agree(sock', h)) /\ WhoOK
  BY DEF Moves, StreamInv
<1>2. Holds(held)' /\ HandshakeFirst(held, got)' /\ InLine(held, got)' /\ OneCarrier(held)'
  BY <1>1, MovedOrder
<1>3. Bound(held)'
  BY <1>1, MovedBound
<1>4. BuffersAgree' /\ Freed(held)'
  BY <1>1, MovedAgree
<1>5. WhoOK'
  BY <1>1, MovedWho
<1>6. held' \in [Socks -> Buffers]
  BY <1>1, <1>2, MovedHeld
<1> QED BY <1>2, <1>3, <1>4, <1>5, <1>6 DEF StreamInv

----------------------------------------------------------------------------
(* Where the pieces of a request are.                                      *)

Covers(h, h2) ==
    \A j \in Socks : sock[j].alloc =>
      \A x \in Within(h[j]) : x.from # 0 => x \in Within(h2[j])
Lossless(h) ==
    \A k \in Socks :
      sock[k].alloc /\ sock'[k].alloc /\ tun[sock[k].tunnel].state # "tunnel_waitting" =>
        \A x \in Within(held[k]) : x.from # 0 =>
          Reached(x)' \/ \E j \in Socks : sock'[j].alloc /\ x \in Within(h[j])

LEMMA InSet ==
    ASSUME NEW S, NEW q \in Seq(S), NEW x
    PROVE  x \in ToSet(q) <=> \E i \in DOMAIN q : q[i] = x
  BY DEF ToSet

LEMMA RequestsAt ==
    ASSUME NEW k \in Socks, sock[k].alloc, NEW x, HoldsAt(k, x), NEW z \in Within(x), z.from # 0
    PROVE  /\ z # Anonymous
           /\ \/ Priv(k) /\ z \in ToSet(x.wbuf)
              \/ Client(k) /\ (z \in ToSet(x.rx) \/ z \in ToSet(x.rbuf))
<1>1. z # Anonymous
  BY DEF Anonymous
<1>2. z \in ToSet(x.rx) \/ z \in ToSet(x.rbuf) \/ z \in ToSet(x.wbuf)
  BY DEF Within
<1>3. ASSUME NEW q \in Seq(Named(Answers)), z \in ToSet(q)
      PROVE  FALSE
  <2>1. z \in Named(Answers)
    <3>1. PICK i \in DOMAIN q : q[i] = z
      BY <1>3, InSet
    <3> QED BY <1>3, <3>1, LenProperties, ElementOfSeq
  <2> QED BY <1>1, <2>1 DEF Named, Answers
<1>4. CASE Priv(k)
  <2>1. x.rx \in Seq(Named(Answers)) /\ x.rbuf \in Seq(Named(Answers))
    BY <1>4 DEF HoldsAt
  <2> QED BY <1>1, <1>2, <1>3, <1>4, <2>1
<1>5. CASE Client(k)
  <2>1. x.wbuf \in Seq(Named(Answers))
    BY <1>5 DEF HoldsAt
  <2> QED BY <1>1, <1>2, <1>3, <1>5, <2>1
<1> QED BY <1>4, <1>5 DEF Priv, Client

LEMMA OneCovered ==
    ASSUME NEW h, Holds(h), NEW k \in Socks, sock[k].alloc, NEW y,
           Priv(k) => ToSet(h[k].wbuf) \subseteq ToSet(y.wbuf),
           Client(k) => ToSet(h[k].rx) \cup ToSet(h[k].rbuf) \subseteq ToSet(y.rx) \cup ToSet(y.rbuf)
    PROVE  Covers(h, [h EXCEPT ![k] = y])
<1> DEFINE h2 == [h EXCEPT ![k] = y]
<1>1. h2[k] = y /\ \A j \in Socks : j # k => h2[j] = h[j]
  BY DEF Holds
<1> HIDE DEF h2
<1>2. ASSUME NEW j \in Socks, sock[j].alloc, NEW x \in Within(h[j]), x.from # 0
      PROVE  x \in Within(h2[j])
  <2>1. CASE j # k
    BY <1>1, <1>2, <2>1
  <2>2. CASE j = k
    <3>1. HoldsAt(k, h[k])
      BY DEF Holds
    <3>2. \/ Priv(k) /\ x \in ToSet(h[k].wbuf)
          \/ Client(k) /\ (x \in ToSet(h[k].rx) \/ x \in ToSet(h[k].rbuf))
      BY <1>2, <2>2, <3>1, RequestsAt
    <3>3. x \in ToSet(y.rx) \/ x \in ToSet(y.rbuf) \/ x \in ToSet(y.wbuf)
      BY <3>2
    <3> QED BY <1>1, <2>2, <3>3 DEF Within
  <2> QED BY <2>1, <2>2
<1> QED BY <1>2 DEF Covers, h2

LEMMA CoversLossless ==
    ASSUME NEW h, Covers(held, h)
    PROVE  Lossless(h)
  BY DEF Covers, Lossless

LEMMA CoversTwice ==
    ASSUME NEW h, NEW h1, NEW h2, Covers(h, h1), Covers(h1, h2)
    PROVE  Covers(h, h2)
  BY DEF Covers

LEMMA ReadInCovers ==
    ASSUME NEW g, Fine(held, g), NEW k \in Socks, sock[k].alloc
    PROVE  Covers(held, ReadIn(k))
<1> DEFINE x == held[k]
           y == [rx |-> <<>>, rbuf |-> Join(x.rbuf, x.rx), wbuf |-> x.wbuf]
<1>1. Holds(held) /\ HoldsAt(k, x)
  BY DEF Fine, Holds
<1>2. Client(k) => x.rx \in Seq(Request(who[k])) /\ x.rbuf \in Seq(Request(who[k]))
  BY <1>1 DEF HoldsAt
<1>3. Client(k) => \A z : z \in ToSet(x.rx) \/ z \in ToSet(x.rbuf) => z \in ToSet(Join(x.rbuf, x.rx))
  <2> SUFFICES ASSUME Client(k), NEW z, z \in ToSet(x.rx) \/ z \in ToSet(x.rbuf)
               PROVE  z \in ToSet(Join(x.rbuf, x.rx))
    OBVIOUS
  <2> DEFINE S == Request(who[k])
             b == x.rbuf
             c == x.rx
  <2>1. b \in Seq(S) /\ c \in Seq(S) /\ z \in ToSet(b) \cup ToSet(c)
    BY <1>2
  <2>2. z # Anonymous
    <3>1. z \in S
      <4> HIDE DEF S, b, c
      <4>1. \/ \E i \in DOMAIN b : b[i] = z
            \/ \E i \in DOMAIN c : c[i] = z
        BY <2>1, InSet
      <4> QED BY <2>1, <4>1, LenProperties, ElementOfSeq
    <3> QED BY <3>1, NotAnonymous
  <2> HIDE DEF S, b, c
  <2>3. z \in ToSet(Join(b, c))
    BY <2>1, <2>2, JoinKeeps
  <2> QED BY <2>3 DEF b, c
<1>4. Covers(held, [held EXCEPT ![k] = y])
  <2>1. y.wbuf = x.wbuf /\ y.rbuf = Join(x.rbuf, x.rx)
    OBVIOUS
  <2>2. Client(k) => ToSet(x.rx) \cup ToSet(x.rbuf) \subseteq ToSet(y.rx) \cup ToSet(y.rbuf)
    <3> HIDE DEF x, y
    <3> QED BY <1>3, <2>1
  <2> HIDE DEF y
  <2> QED BY <1>1, <2>1, <2>2, OneCovered
<1> QED BY <1>4 DEF ReadIn

\* Nothing that is a private socket's read buffer, and nothing a client is to be given, is
\* a request.
LEMMA AnswerCovers ==
    ASSUME NEW h, Holds(h), NEW k \in Socks, sock[k].alloc, NEW y,
           Priv(k) => h[k].wbuf = <<>> \/ y.wbuf = h[k].wbuf,
           Client(k) => y.rx = h[k].rx /\ y.rbuf = h[k].rbuf
    PROVE  Covers(h, [h EXCEPT ![k] = y])
<1>1. Priv(k) => ToSet(h[k].wbuf) \subseteq ToSet(y.wbuf)
  <2>1. ToSet(<<>>) = {}
    BY DEF ToSet
  <2> QED BY <2>1
<1>2. Client(k) => ToSet(h[k].rx) \cup ToSet(h[k].rbuf) \subseteq ToSet(y.rx) \cup ToSet(y.rbuf)
  OBVIOUS
<1> QED BY <1>1, <1>2, OneCovered

----------------------------------------------------------------------------
(* Reading.                                                                *)

LEMMA Standing ==
    ASSUME HeapInv, StreamInv
    PROVE  /\ Ordered(held, got) /\ Bound(held) /\ Empty(sock) /\ SameOwners(sock)
           /\ fault = "none" => Agree(sock, held)
           /\ Fine(held, got) /\ Holds(held)
<1>1. Ordered(held, got) /\ Bound(held) /\ Fine(held, got) /\ Holds(held)
  BY DEF StreamInv, Ordered, Fine
<1>2. Empty(sock)
  BY DEF StreamInv, Freed, Empty
<1>3. fault = "none" => Agree(sock, held)
  BY DEF StreamInv, BuffersAgree, Agree, Match
<1> QED BY <1>1, <1>2, <1>3, SelfOwners

\* The ends of a tunnel.
LEMMA EndsOf ==
    ASSUME HeapInv, NEW r \in Tunnels
    PROVE  /\ tun[r].priv # NULL => tun[r].priv \in Socks /\ Priv(tun[r].priv) /\ sock[tun[r].priv].tunnel = r
           /\ tun[r].remote # NULL => tun[r].remote \in Socks /\ Client(tun[r].remote) /\ sock[tun[r].remote].tunnel = r
  BY DEF HeapInv, NoDanglingSock, Tunnel, Priv, Client

LEMMA NoMoreBound ==
    ASSUME NEW h, NEW h2, Bound(h), NoMore(h, h2), WhoOK
    PROVE  Bound(h2)
<1>1. \A p, k \in Socks : Priv(p) /\ Client(k) /\ Carries(h2, p, who[k]) => Carries(h, p, who[k])
  <2>1. \A k \in Socks : Client(k) => who[k] \in Clients
    BY DEF WhoOK, Client, Clients, Arrived
  <2> QED BY <2>1 DEF NoMore
<1> QED BY <1>1 DEF Bound

LEMMA CalmPlaced ==
    ASSUME NEW h, NEW g, Ordered(h, g), Bound(h), WhoOK, NEW h2, Fine(h2, g), Calm(h, h2)
    PROVE  Ordered(h2, g) /\ Bound(h2)
<1>1. Ordered(h2, g) /\ NoMore(h, h2)
  BY CalmOrdered
<1> QED BY <1>1, NoMoreBound

\* Bytes are put behind what a client is to be given.
LEMMA GivePlaced ==
    ASSUME NEW h, NEW g, Ordered(h, g), Bound(h), WhoOK, NEW q \in Socks, Client(q),
           NEW d \in Seq(Named(Answers))
    PROVE  LET h2 == [h EXCEPT ![q] = [@ EXCEPT !.wbuf = Join(h[q].wbuf, d)]]
           IN  Ordered(h2, g) /\ Bound(h2) /\ Covers(h, h2)
<1> DEFINE x == h[q]
           w == Join(x.wbuf, d)
           h2 == [h EXCEPT ![q] = [@ EXCEPT !.wbuf = Join(h[q].wbuf, d)]]
           h1 == [h EXCEPT ![q] = [@ EXCEPT !.rbuf = x.rbuf, !.wbuf = w]]
<1>1. Fine(h, g) /\ Holds(h) /\ x \in [rx : Seq(Piece), rbuf : Seq(Piece), wbuf : Seq(Piece)]
  BY DEF Ordered, Fine, Holds, HoldsAt
<1>2. Fine(h1, g) /\ Calm(h, h1)
  BY <1>1, GiveFine
<1>3. h1 = [h EXCEPT ![q] = [x EXCEPT !.wbuf = w]]
  <2> HIDE DEF w
  <2>1. [x EXCEPT !.wbuf = w] = [x EXCEPT !.rbuf = x.rbuf, !.wbuf = w]
    BY <1>1
  <2> QED BY <2>1
<1>4. h1 = h2
  BY <1>3
<1> HIDE DEF h1
<1>5. Ordered(h1, g) /\ Bound(h1)
  BY <1>2, CalmPlaced
<1>6. Covers(h, h2)
  <2> DEFINE y == [x EXCEPT !.wbuf = w]
  <2>1. y.rx = x.rx /\ y.rbuf = x.rbuf /\ ~Priv(q) /\ sock[q].alloc
    <3> HIDE DEF w
    <3> QED BY <1>1 DEF Priv, Client
  <2>2. h2 = [h EXCEPT ![q] = y]
    OBVIOUS
  <2> HIDE DEF y, h2
  <2>3. Covers(h, [h EXCEPT ![q] = y])
    BY <1>1, <2>1, AnswerCovers
  <2> QED BY <2>2, <2>3
<1> QED BY <1>4, <1>5, <1>6

\* What is noted of answers that are put there.
LEMMA NotedNotes ==
    ASSUME WhoOK, NEW i \in Socks, NEW j \in Socks, Priv(i), Client(j),
           NEW q \in Seq(Named(Answers)), HeadOnly(q)
    PROVE  /\ NotedIn(q, i, j) \in Seq(Note)
           /\ DOMAIN NotedIn(q, i, j) = DOMAIN Numbered(q)
           /\ \A m \in DOMAIN NotedIn(q, i, j) :
                /\ NotedIn(q, i, j)[m].n = Numbered(q)[m].n /\ NotedIn(q, i, j)[m].via = who[i]
                /\ NotedIn(q, i, j)[m].fin = (sock[j].peer # "open")
<1> DEFINE e == Numbered(q)
           note(m) == [n |-> e[m].n, asker |-> e[m].to, via |-> who[i], by |-> who[j],
                       fin |-> sock[j].peer # "open"]
<1>1. e \in Seq(Answers)
  BY NotAnonymous, NumberedOf
<1>2. NotedIn(q, i, j) = [m \in DOMAIN e |-> note(m)]
  BY DEF NotedIn
<1> HIDE DEF e
<1>3. \A m \in DOMAIN e : e[m].n \in Nat /\ e[m].to \in Clients
  <2>1. \A m \in DOMAIN e : e[m] \in Answers
    BY <1>1, LenProperties, ElementOfSeq
  <2> QED BY <2>1 DEF Answers
<1>4. who[i] \in Connections /\ who[j] \in Clients
  BY DEF WhoOK
<1>5. \A m \in DOMAIN e : note(m) \in Note
  BY <1>3, <1>4 DEF Note
<1>6. \A m : note(m).n = e[m].n /\ note(m).via = who[i] /\ note(m).fin = (sock[j].peer # "open")
  OBVIOUS
<1> HIDE DEF note
<1>7. DOMAIN e = 1..Len(e) /\ Len(e) \in Nat
  BY <1>1
<1>8. NotedIn(q, i, j) \in Seq(Note)
  BY <1>2, <1>5, <1>7, IsASeq
<1> QED BY <1>2, <1>6, <1>8 DEF e

LEMMA GiveNotes ==
    ASSUME HeapInv, WhoOK, given \in Seq(Note), NEW q, NEW i \in Socks, NEW j \in Socks, Give(q, i, j),
           ~sock[j].ispriv => /\ Priv(i) /\ Client(j) /\ q \in Seq(Named(Answers)) /\ HeadOnly(q)
    PROVE  given' \in Seq(Note)
<1>1. CASE sock[j].ispriv
  BY <1>1 DEF Give
<1>2. CASE ~sock[j].ispriv
  <2>1. NotedIn(q, i, j) \in Seq(Note)
    BY <1>2, NotedNotes
  <2>2. given' = given \o NotedIn(q, i, j)
    BY <1>2 DEF Give
  <2> QED BY <2>1, <2>2, ConcatProperties
<1> QED BY <1>1, <1>2

\* Sockets other than ks keep their bits, or are released.
SameBits(s, ks) == \A j \in Socks : sock'[j].alloc /\ j \notin ks => s[j].alloc /\ Bits(s[j], sock'[j])

LEMMA AgreeKept ==
    ASSUME NEW s, NEW h, Agree(s, h), SameBits(s, {})
    PROVE  Agree(sock', h)
  BY DEF Agree, SameBits, Bits, Match

LEMMA AgreeOne ==
    ASSUME NEW s, NEW h, Agree(s, h), DOMAIN h = Socks, NEW k \in Socks, NEW y,
           SameBits(s, {k}), sock'[k].alloc => Match(sock'[k], y)
    PROVE  Agree(sock', [h EXCEPT ![k] = y])
<1> DEFINE h2 == [h EXCEPT ![k] = y]
<1>1. h2[k] = y /\ \A j \in Socks : j # k => h2[j] = h[j]
  OBVIOUS
<1> HIDE DEF h2
<1> SUFFICES ASSUME NEW j \in Socks, sock'[j].alloc
             PROVE  Match(sock'[j], h2[j])
  BY DEF Agree, h2
<1>2. CASE j = k
  BY <1>1, <1>2
<1>3. CASE j # k
  BY <1>1, <1>3 DEF Agree, SameBits, Bits, Match
<1> QED BY <1>2, <1>3

LEMMA CoversSelf ==
    ASSUME NEW h
    PROVE  Covers(h, h)
  BY DEF Covers

\* FIN or an error.
LEMMA ReadShut ==
    ASSUME HeapInv, StreamInv, fault = "none", NEW k \in Socks, sock[k].alloc, SockOK(k),
           SockShutdown(k, sock), TakeLeft(k), UNCHANGED got
    PROVE  Effect(sock[k].tunnel) /\ given' \in Seq(Note) /\ \E h : Moves(h) /\ Lossless(h)
<1> DEFINE r == sock[k].tunnel
           t == tun[r]
           c == t.state = "connected_state" /\ k = t.remote /\ t.priv # NULL
           p == t.priv
           d == held[p].rbuf
           w == Join(held[k].wbuf, d)
           h2 == [held EXCEPT ![k] = [@ EXCEPT !.wbuf = Join(held[k].wbuf, held[p].rbuf)]]
<1>1. /\ Ordered(held, got) /\ Bound(held) /\ Empty(sock) /\ SameOwners(sock)
      /\ Agree(sock, held) /\ Fine(held, got) /\ Holds(held) /\ WhoOK /\ given \in Seq(Note)
  BY Standing DEF StreamInv, Histories
<1>2. r \in Tunnels /\ t \in Tunnel
  BY DEF HeapInv, SockInTunnel
<1>3. \/ fault' # "none" /\ UNCHANGED <<sock, tun>>
      \/ /\ Effect(r)
         /\ t.state = "connected_state" => p # NULL
         /\ \A j \in Socks : sock'[j].alloc =>
              /\ sock'[j].rx = sock[j].rx /\ sock'[j].rbuf = sock[j].rbuf
              /\ sock'[j].wbuf = (sock[j].wbuf \/ (j = k /\ LeftFor(k, sock)))
  BY <1>1, ShutEffect
<1>4. Effect(r)
  <2>1. CASE UNCHANGED <<sock, tun>>
    <3>1. SidesKept
      BY <1>1, <2>1, OwnersSides
    <3> QED BY <1>2, <2>1, <3>1, StillEffect
  <2> QED BY <1>3, <2>1
<1>5. SidesKept
  BY <1>4 DEF Effect
<1>6. CASE c
  <2>1. Priv(p) /\ p \in Socks /\ Client(k)
    BY <1>2, <1>6, EndsOf
  <2>2. HoldsAt(p, held[p]) /\ HoldsAt(k, held[k]) /\ FirstAt(held[p], p, got)
    BY <1>1, <2>1 DEF Fine, Holds, HandshakeFirst
  <2>3. d \in Seq(Named(Answers)) /\ HeadOnly(d)
    BY <2>1, <2>2 DEF HoldsAt, FirstAt
  <2>4. Settle(h2) /\ Give(d, p, k)
    BY <1>6 DEF TakeLeft
  <2>5. Ordered(h2, got) /\ Bound(h2) /\ Covers(held, h2)
    <3> HIDE DEF d
    <3>1. LET h3 == [held EXCEPT ![k] = [@ EXCEPT !.wbuf = Join(held[k].wbuf, d)]]
          IN  Ordered(h3, got) /\ Bound(h3) /\ Covers(held, h3)
      BY <1>1, <2>1, <2>3, GivePlaced
    <3> QED BY <3>1 DEF d
  <2>6. fault' = "none" => Agree(sock', h2)
    <3> SUFFICES ASSUME fault' = "none" PROVE Agree(sock', h2)
      OBVIOUS
    <3>1. \A j \in Socks : sock'[j].alloc =>
              /\ sock'[j].rx = sock[j].rx /\ sock'[j].rbuf = sock[j].rbuf
              /\ sock'[j].wbuf = (sock[j].wbuf \/ (j = k /\ LeftFor(k, sock)))
      BY <1>3
    <3>2. SameBits(sock, {k})
      <4> SUFFICES ASSUME NEW j \in Socks, sock'[j].alloc, j # k
                   PROVE  sock[j].alloc /\ Bits(sock[j], sock'[j])
        BY DEF SameBits
      <4>1. sock[j].alloc /\ sock[j].wbuf \in BOOLEAN
        BY <1>5 DEF SidesKept, HeapInv, Sock
      <4> QED BY <3>1, <4>1 DEF Bits
    <3> DEFINE x == held[k]
               y == [x EXCEPT !.wbuf = w]
    <3>3. y.rx = x.rx /\ y.rbuf = x.rbuf /\ y.wbuf = w
      <4> HIDE DEF w
      <4> QED BY <2>2 DEF HoldsAt
    <3>4. w = <<>> <=> x.wbuf = <<>> /\ d = <<>>
      <4> DEFINE u == x.wbuf
      <4>1. u \in Seq(Piece) /\ d \in Seq(Piece)
        BY <2>2 DEF HoldsAt
      <4> HIDE DEF d, u
      <4>2. Join(u, d) = <<>> <=> u = <<>> /\ d = <<>>
        BY ONLY <4>1, JoinEmpty
      <4> QED BY <4>2 DEF u
    <3>5. Match(sock[k], x) /\ Match(sock[p], held[p])
      BY <1>1, <2>1 DEF Agree, Priv
    <3>6. LeftFor(k, sock) <=> d # <<>>
      BY <1>6, <3>5 DEF LeftFor, Match
    <3>7. sock'[k].alloc => Match(sock'[k], y)
      <4> HIDE DEF w, d, x, y, r, t, p
      <4>1. sock'[k].alloc => /\ sock'[k].rx = sock[k].rx /\ sock'[k].rbuf = sock[k].rbuf
                              /\ sock'[k].wbuf = (sock[k].wbuf \/ LeftFor(k, sock))
        BY <3>1
      <4> QED BY <3>3, <3>4, <3>5, <3>6, <4>1 DEF Match
    <3>8. h2 = [held EXCEPT ![k] = y]
      OBVIOUS
    <3>9. DOMAIN held = Socks
      BY <1>1 DEF Holds
    <3> HIDE DEF y
    <3>10. Agree(sock', [held EXCEPT ![k] = y])
      BY <1>1, <3>2, <3>7, <3>9, AgreeOne
    <3> QED BY <3>8, <3>10
  <2>7. given' \in Seq(Note)
    <3> HIDE DEF d, p
    <3> QED BY <1>1, <2>1, <2>3, <2>4, GiveNotes
  <2>8. Moves(h2) /\ Lossless(h2)
    <3> HIDE DEF h2
    <3> QED BY <2>4, <2>5, <2>6, CoversLossless DEF Moves
  <2> QED BY <1>4, <2>7, <2>8
<1>7. CASE ~c
  <2>1. Settle(held) /\ given' = given
    BY <1>7 DEF TakeLeft
  <2>2. fault' = "none" => Agree(sock', held)
    <3> SUFFICES ASSUME fault' = "none" PROVE Agree(sock', held)
      OBVIOUS
    <3>1. ~LeftFor(k, sock)
      BY <1>3, <1>7 DEF LeftFor
    <3>2. SameBits(sock, {})
      <4> SUFFICES ASSUME NEW j \in Socks, sock'[j].alloc
                   PROVE  sock[j].alloc /\ Bits(sock[j], sock'[j])
        BY DEF SameBits
      <4>1. sock[j].alloc /\ sock[j].wbuf \in BOOLEAN
        BY <1>5 DEF SidesKept, HeapInv, Sock
      <4> QED BY <1>3, <3>1, <4>1 DEF Bits
    <3> QED BY <1>1, <3>2, AgreeKept
  <2>3. Moves(held) /\ Lossless(held)
    BY <1>1, <2>1, <2>2, CoversLossless, CoversSelf DEF Moves
  <2> QED BY <1>1, <1>4, <2>1, <2>3
<1> QED BY <1>6, <1>7

\* The sockets once the kernel's bytes are in the read buffer of k.
Reading(k, s) == \/ sock[k].rx /\ s = [sock EXCEPT ![k] = [@ EXCEPT !.rx = FALSE, !.rbuf = TRUE]]
                 \/ ~sock[k].rx /\ s = sock

\* Sockets and buffers, as a handler finds them.
Ready(s, h) == /\ SameOwners(s) /\ Empty(s) /\ Agree(s, h)
               /\ Ordered(h, got) /\ Bound(h) /\ Covers(held, h)

LEMMA ReadReady ==
    ASSUME HeapInv, StreamInv, fault = "none", NEW k \in Socks, sock[k].alloc, NEW s, Reading(k, s)
    PROVE  Ready(s, ReadIn(k))
<1> DEFINE x == held[k]
           y == [rx |-> <<>>, rbuf |-> Join(x.rbuf, x.rx), wbuf |-> x.wbuf]
           c == [sock[k] EXCEPT !.rx = FALSE, !.rbuf = TRUE]
<1>1. /\ Ordered(held, got) /\ Bound(held) /\ Empty(sock) /\ SameOwners(sock)
      /\ Agree(sock, held) /\ Fine(held, got) /\ Holds(held) /\ WhoOK
  BY Standing DEF StreamInv
<1>2. Ordered(ReadIn(k), got) /\ Bound(ReadIn(k))
  BY <1>1, ReadInFine, CalmPlaced
<1>3. Covers(held, ReadIn(k))
  BY <1>1, ReadInCovers
<1>4. SameOwners(s)
  BY <1>1, ReadOwners DEF Reading
<1>5. sock \in [Socks -> Sock] /\ sock[k] \in Sock
  BY DEF HeapInv
<1>6. c.alloc = sock[k].alloc /\ c.rx = FALSE /\ c.rbuf = TRUE /\ c.wbuf = sock[k].wbuf
  BY <1>5 DEF Sock
<1>7. Empty(s)
  <2>1. CASE s = sock
    BY <1>1, <2>1
  <2>2. CASE s = [sock EXCEPT ![k] = c]
    <3> HIDE DEF c
    <3> QED BY <1>1, <1>5, <1>6, <2>2 DEF Empty
  <2> QED BY <2>1, <2>2 DEF Reading
<1>8. Agree(s, ReadIn(k))
  <2>1. x.rbuf \in Seq(Piece) /\ x.rx \in Seq(Piece)
    BY <1>1 DEF Holds, HoldsAt
  <2>2. y.rx = <<>> /\ y.rbuf = Join(x.rbuf, x.rx) /\ y.wbuf = x.wbuf
    OBVIOUS
  <2>3. Join(x.rbuf, x.rx) = <<>> <=> x.rbuf = <<>> /\ x.rx = <<>>
    BY ONLY <2>1, JoinEmpty
  <2>4. Match(sock[k], x)
    BY <1>1 DEF Agree
  <2>5. ReadIn(k) = [held EXCEPT ![k] = y]
    BY DEF ReadIn
  <2> HIDE DEF y
  <2>6. ReadIn(k)[k] = y /\ \A j \in Socks : j # k => ReadIn(k)[j] = held[j]
    BY <1>1, <2>5 DEF Holds
  <2>7. Match(s[k], y)
    <3>1. CASE ~sock[k].rx /\ s = sock
      BY <2>2, <2>3, <2>4, <3>1 DEF Match
    <3>2. CASE sock[k].rx /\ s = [sock EXCEPT ![k] = c]
      <4>1. s[k] = c
        BY <1>5, <3>2
      <4> HIDE DEF c, x
      <4> QED BY <1>6, <2>2, <2>3, <2>4, <3>2, <4>1 DEF Match
    <3> QED BY <3>1, <3>2 DEF Reading
  <2>8. \A j \in Socks : j # k => s[j] = sock[j]
    BY <1>5 DEF Reading
  <2> QED BY <1>1, <2>6, <2>7, <2>8 DEF Agree
<1> QED BY <1>2, <1>3, <1>4, <1>7, <1>8 DEF Ready

\* A handshake handler.
LEMMA ShakeBits ==
    ASSUME HeapInv, NEW k \in Socks, sock[k].alloc, SockOK(k), NEW s, SameOwners(s), Empty(s),
           tun[sock[k].tunnel].state \in HandshakeStates, Handshake(k, s), fault' = "none",
           tun[sock[k].tunnel].priv # NULL
    PROVE  LET p == tun[sock[k].tunnel].priv
           IN  /\ Effect(sock[k].tunnel)
               /\ SameBits(s, {p})
               /\ sock'[p].alloc => sock'[p].rx = s[p].rx /\ (s[p].wbuf => sock'[p].wbuf)
<1> DEFINE r == sock[k].tunnel
           t == tun[r]
           p == t.priv
<1>1. r \in Tunnels /\ t \in Tunnel /\ s[k].tunnel = r /\ s \in [Socks -> Sock] /\ tun \in [Tunnels -> Tunnel]
  BY DEF HeapInv, SockInTunnel, SameOwners
<1>2. p \in Socks /\ Priv(p) /\ s[p].alloc /\ s[p] \in Sock
  BY <1>1, EndsOf DEF SameOwners, Priv
<1>3. ASSUME NEW b \in Sock, b.alloc = s[p].alloc, b.ispriv = s[p].ispriv, b.tunnel = s[p].tunnel,
             b.rx = s[p].rx, s[p].wbuf => b.wbuf, sock' = [s EXCEPT ![p] = b]
      PROVE  SidesKept /\ SameBits(s, {p}) /\ sock'[p].rx = s[p].rx /\ (s[p].wbuf => sock'[p].wbuf)
  <2>1. sock'[p] = b /\ \A j \in Socks : j # p => sock'[j] = s[j]
    BY <1>1, <1>2, <1>3
  <2>2. ASSUME NEW j \in Socks
        PROVE  IF sock'[j].alloc
               THEN sock[j].alloc /\ sock'[j].ispriv = sock[j].ispriv /\ sock'[j].tunnel = sock[j].tunnel
               ELSE sock'[j] = NoSock
    <3>1. CASE j = p
      BY <1>2, <1>3, <2>1, <3>1 DEF SameOwners
    <3>2. CASE j # p
      BY <2>1, <3>2 DEF SameOwners, Empty
    <3> QED BY <3>1, <3>2
  <2>3. SidesKept
    BY <2>2 DEF SidesKept
  <2>4. SameBits(s, {p})
    BY <2>1 DEF SameBits, Bits
  <2> QED BY <1>3, <2>1, <2>3, <2>4
<1>5. CASE \E rest \in BOOLEAN : sock' = [s EXCEPT ![p] = [@ EXCEPT !.rbuf = rest]] /\ UNCHANGED tun
  <2>1. PICK rest \in BOOLEAN : sock' = [s EXCEPT ![p] = [@ EXCEPT !.rbuf = rest]] /\ UNCHANGED tun
    BY <1>5
  <2> DEFINE b == [s[p] EXCEPT !.rbuf = rest]
  <2>2. b \in Sock /\ b.alloc = s[p].alloc /\ b.ispriv = s[p].ispriv /\ b.tunnel = s[p].tunnel
        /\ b.rx = s[p].rx /\ b.wbuf = s[p].wbuf
    BY <1>2 DEF Sock
  <2>3. sock' = [s EXCEPT ![p] = b]
    BY <2>1
  <2> HIDE DEF b
  <2>4. SidesKept /\ SameBits(s, {p}) /\ sock'[p].rx = s[p].rx /\ (s[p].wbuf => sock'[p].wbuf)
    BY <1>3, <2>2, <2>3
  <2>5. Effect(r)
    BY <1>1, <2>1, <2>4, StillEffect
  <2> QED BY <2>4, <2>5
<1>6. ASSUME NEW rest \in BOOLEAN, SockForceShutdown(k, [s EXCEPT ![p] = [@ EXCEPT !.rbuf = rest]])
      PROVE  /\ Effect(r) /\ SameBits(s, {p})
             /\ sock'[p].alloc => sock'[p].rx = s[p].rx /\ (s[p].wbuf => sock'[p].wbuf)
  <2> DEFINE b == [s[p] EXCEPT !.rbuf = rest]
             c == [s EXCEPT ![p] = b]
  <2>1. b.alloc = s[p].alloc /\ b.rx = s[p].rx /\ b.wbuf = s[p].wbuf
    BY <1>2 DEF Sock
  <2>2. SockForceShutdown(k, c) /\ SameOwners([s EXCEPT ![p] = [@ EXCEPT !.rbuf = rest]])
    <3> HIDE DEF p
    <3> QED BY <1>2, <1>6, RbufOwners
  <2>3. SameOwners(c)
    BY <2>2
  <2> HIDE DEF b
  <2>4. c[p] = b /\ \A j \in Socks : j # p => c[j] = s[j]
    BY <1>1, <1>2
  <2> HIDE DEF c, p
  <2>5. Empty(c)
    BY <1>2, <2>1, <2>4 DEF Empty
  <2>6. Effect(r) /\ sock'[k] = NoSock /\ \A j \in Socks : j # k => sock'[j] = c[j]
    BY <2>2, <2>3, <2>5, ForceEffect
  <2>7. ~NoSock.alloc
    BY DEF NoSock
  <2>8. SameBits(s, {p})
    BY <2>4, <2>6, <2>7 DEF SameBits, Bits
  <2> QED BY <1>2, <2>1, <2>4, <2>6, <2>7, <2>8
<1>7. CASE \E rest \in BOOLEAN :
             /\ sock' = [s EXCEPT ![p] = [@ EXCEPT !.rbuf = rest, !.wbuf = TRUE, !.mask = {"in", "out"}]]
             /\ tun' = [tun EXCEPT ![r] = HandshakeDone(@)]
  <2>1. PICK rest \in BOOLEAN :
             /\ sock' = [s EXCEPT ![p] = [@ EXCEPT !.rbuf = rest, !.wbuf = TRUE, !.mask = {"in", "out"}]]
             /\ tun' = [tun EXCEPT ![r] = HandshakeDone(@)]
    BY <1>7
  <2> DEFINE b == [s[p] EXCEPT !.rbuf = rest, !.wbuf = TRUE, !.mask = {"in", "out"}]
  <2>2. b \in Sock /\ b.alloc = s[p].alloc /\ b.ispriv = s[p].ispriv /\ b.tunnel = s[p].tunnel
        /\ b.rx = s[p].rx /\ b.wbuf = TRUE
    BY <1>2 DEF Sock
  <2>3. sock' = [s EXCEPT ![p] = b]
    BY <2>1
  <2> HIDE DEF b
  <2>4. SidesKept /\ SameBits(s, {p}) /\ sock'[p].rx = s[p].rx /\ (s[p].wbuf => sock'[p].wbuf)
    BY <1>3, <2>2, <2>3
  <2> DEFINE u == HandshakeDone(t)
  <2>5. tun'[r] = u /\ \A x \in Tunnels : x # r => tun'[x] = tun[x]
    <3> HIDE DEF u
    <3>1. tun' = [tun EXCEPT ![r] = u]
      BY <2>1 DEF u
    <3> QED BY <1>1, <3>1
  <2>6. /\ u.remote = t.remote /\ u.priv = t.priv
        /\ u.state # "tunnel_waitting" /\ t.state # "tunnel_waitting"
        /\ u.status = "tmptun_is_wait" => t.status = "tmptun_is_wait"
    <3>1. u \in {OpenDone(t), AuthDone(t), RequestDone(t)}
      BY DEF HandshakeDone, HandshakeStates
    <3>2. t.state # "tunnel_waitting"
      BY DEF HandshakeStates
    <3> HIDE DEF u
    <3> QED BY <1>1, <3>1, <3>2 DEF OpenDone, AuthDone, RequestDone, Tunnel
  <2>7. u.status = t.status \/ (t.state = "request_state" /\ u.state = "connected_state")
    BY <1>1 DEF HandshakeDone, HandshakeStates, OpenDone, AuthDone, RequestDone, Tunnel
  <2>8. t.state # "connected_state"
    BY DEF HandshakeStates
  <2>9. Rebinds(t, u)
    <3> HIDE DEF t, u
    <3> QED BY <2>6, <2>7, <2>8 DEF Rebinds, StaysTied, StaysRun
  <2> QED BY <2>4, <2>5, <2>9 DEF Effect
<1> QED
  <2>1. \/ \E rest \in BOOLEAN : sock' = [s EXCEPT ![p] = [@ EXCEPT !.rbuf = rest]] /\ UNCHANGED tun
        \/ \E rest \in BOOLEAN : SockForceShutdown(k, [s EXCEPT ![p] = [@ EXCEPT !.rbuf = rest]])
        \/ \E rest \in BOOLEAN :
             /\ sock' = [s EXCEPT ![p] = [@ EXCEPT !.rbuf = rest, !.wbuf = TRUE, !.mask = {"in", "out"}]]
             /\ tun' = [tun EXCEPT ![r] = HandshakeDone(@)]
    BY <1>1, <1>2 DEF Handshake
  <2> QED BY <1>5, <1>6, <1>7, <2>1

LEMMA ReadHandshake ==
    ASSUME HeapInv, HeapInv', WhoOK, NEW k \in Socks, sock[k].alloc, SockOK(k), NEW s, NEW h, Ready(s, h),
           tun[sock[k].tunnel].state \in HandshakeStates, Handshake(k, s), fault' = "none",
           tun[sock[k].tunnel].priv # NULL, TakeHandshake(h, tun[sock[k].tunnel].priv), UNCHANGED got
    PROVE  Effect(sock[k].tunnel) /\ UNCHANGED given /\ \E h2 : Moves(h2) /\ Lossless(h2)
<1> DEFINE p == tun[sock[k].tunnel].priv
           x == h[p]
           w == IF sock'[p].wbuf /\ x.wbuf = <<>> THEN <<Anonymous>> ELSE x.wbuf
<1>1. /\ Effect(sock[k].tunnel) /\ SameBits(s, {p})
      /\ sock'[p].alloc => sock'[p].rx = s[p].rx /\ (s[p].wbuf => sock'[p].wbuf)
  BY ShakeBits DEF Ready
<1>2. p \in Socks /\ Priv(p) /\ sock[p].alloc
  BY EndsOf DEF HeapInv, SockInTunnel, Priv
<1> HIDE DEF p
<1>3. sock'[p] \in Sock /\ sock'[p].rbuf \in BOOLEAN /\ sock'[p].wbuf \in BOOLEAN
  BY <1>2 DEF HeapInv, Sock
<1>4. /\ Holds(h) /\ Fine(h, got) /\ DOMAIN h = Socks /\ HoldsAt(p, x)
      /\ x \in [rx : Seq(Piece), rbuf : Seq(Piece), wbuf : Seq(Piece)]
  BY <1>2 DEF Ready, Ordered, Fine, Holds, HoldsAt
<1>5. PICK rest \in Left(x.rbuf, sock'[p].rbuf) :
        Settle([h EXCEPT ![p] = [@ EXCEPT !.rbuf = rest,
                  !.wbuf = IF sock'[p].wbuf /\ h[p].wbuf = <<>> THEN <<Anonymous>> ELSE h[p].wbuf]])
  BY DEF TakeHandshake, p
<1> DEFINE y == [x EXCEPT !.rbuf = rest, !.wbuf = w]
           h2 == [h EXCEPT ![p] = [@ EXCEPT !.rbuf = rest, !.wbuf = w]]
<1>6. Settle(h2)
  BY <1>5
<1>7. w \in {h[p].wbuf, <<Anonymous>>}
  OBVIOUS
<1>8. Ordered(h2, got) /\ Bound(h2)
  <2> HIDE DEF w
  <2>1. Fine(h2, got) /\ Calm(h, h2)
    BY <1>2, <1>3, <1>4, <1>5, <1>7, ShakeFine
  <2> HIDE DEF h2
  <2> QED BY <2>1, CalmPlaced DEF Ready
<1>9. y.rx = x.rx /\ y.rbuf = rest /\ y.wbuf = w
  <2> HIDE DEF w
  <2> QED BY <1>4
<1>10. h2 = [h EXCEPT ![p] = y]
  OBVIOUS
<1> HIDE DEF y, h2
<1>11. Agree(sock', h2)
  <2>1. sock'[p].alloc => Match(sock'[p], y)
    <3> SUFFICES ASSUME sock'[p].alloc PROVE Match(sock'[p], y)
      OBVIOUS
    <3>1. Match(s[p], x)
      <4>1. s[p].alloc
        BY <1>2 DEF Ready, SameOwners
      <4> QED BY <1>2, <4>1 DEF Ready, Agree
    <3>2. sock'[p].rbuf <=> rest # <<>>
      <4> DEFINE q == x.rbuf
      <4>1. q \in Seq(Piece)
        BY <1>4
      <4>2. rest \in Left(q, sock'[p].rbuf)
        OBVIOUS
      <4> HIDE DEF q
      <4> QED BY <1>3, <4>1, <4>2, LeftOf
    <3>3. sock'[p].wbuf <=> w # <<>>
      <4>1. <<Anonymous>> # <<>>
        OBVIOUS
      <4>2. sock'[p].wbuf = TRUE \/ sock'[p].wbuf = FALSE
        BY <1>3
      <4>3. x.wbuf # <<>> => sock'[p].wbuf
        BY <1>1, <3>1 DEF Match
      <4> HIDE DEF x
      <4> QED BY <4>1, <4>2, <4>3
    <3> HIDE DEF w, x
    <3> QED BY <1>1, <1>9, <3>1, <3>2, <3>3 DEF Match
  <2>2. Agree(sock', [h EXCEPT ![p] = y])
    BY <1>1, <1>2, <1>4, <2>1, AgreeOne DEF Ready
  <2> QED BY <1>10, <2>2
<1>12. Covers(held, h2)
  <2>1. ~Client(p) /\ (x.wbuf = <<>> \/ y.wbuf = x.wbuf)
    BY <1>2, <1>9 DEF Priv, Client
  <2>2. Covers(h, [h EXCEPT ![p] = y])
    BY <1>2, <1>4, <2>1, AnswerCovers
  <2>3. Covers(h, h2) /\ Covers(held, h)
    BY <1>10, <2>2 DEF Ready
  <2> QED BY <2>3, CoversTwice
<1>13. Moves(h2) /\ Lossless(h2)
  BY <1>6, <1>8, <1>11, <1>12, CoversLossless DEF Moves
<1>14. UNCHANGED given
  BY DEF TakeHandshake
<1> QED BY <1>1, <1>13, <1>14

\* Relaying: the bits, and the pieces.
Relayed(s, n, from, to) ==
    /\ n[to].wbuf = (s[to].wbuf \/ s[from].rbuf) /\ n[to].rx = s[to].rx /\ n[to].rbuf = s[to].rbuf
    /\ n[from].rbuf = FALSE /\ n[from].rx = s[from].rx /\ n[from].wbuf = s[from].wbuf
    /\ n[to].alloc = s[to].alloc /\ n[from].alloc = s[from].alloc
    /\ \A j \in Socks : j \notin {from, to} => n[j] = s[j]

LEMMA RelayBits ==
    ASSUME NEW s, s \in [Socks -> Sock], NEW from \in Socks, NEW to \in Socks, from # to
    PROVE  Relayed(s, Relay(s, from, to), from, to)
<1> DEFINE b == [s[to] EXCEPT !.wbuf = s[to].wbuf \/ s[from].rbuf, !.mask = {"in", "out"}]
           c == [s[from] EXCEPT !.rbuf = FALSE]
           s1 == [s EXCEPT ![to] = b]
<1>1. s[to] \in Sock /\ s[from] \in Sock
  OBVIOUS
<1>2. b.wbuf = (s[to].wbuf \/ s[from].rbuf) /\ b.rx = s[to].rx /\ b.rbuf = s[to].rbuf /\ b.alloc = s[to].alloc
  BY <1>1 DEF Sock
<1>3. c.rbuf = FALSE /\ c.rx = s[from].rx /\ c.wbuf = s[from].wbuf /\ c.alloc = s[from].alloc
  BY <1>1 DEF Sock
<1>4. Relay(s, from, to) = [s1 EXCEPT ![from] = c]
  <2>1. Relay(s, from, to) = [s1 EXCEPT ![from] = [s1[from] EXCEPT !.rbuf = FALSE]]
    BY DEF Relay
  <2>2. s1[from] = s[from]
    <3> HIDE DEF b
    <3> QED OBVIOUS
  <2> HIDE DEF s1
  <2> QED BY <2>1, <2>2
<1> HIDE DEF b, c
<1>5. /\ Relay(s, from, to)[from] = c /\ Relay(s, from, to)[to] = b
      /\ \A j \in Socks : j \notin {from, to} => Relay(s, from, to)[j] = s[j]
  BY <1>4
<1> QED BY <1>2, <1>3, <1>5 DEF Relayed

LEMMA CarriedAt ==
    ASSUME NEW h, Holds(h), NEW from \in Socks, NEW to \in Socks, from # to
    PROVE  LET h2 == Carried(h, from, to)
           IN  /\ h2[to].wbuf = Join(h[to].wbuf, h[from].rbuf) /\ h2[to].rx = h[to].rx /\ h2[to].rbuf = h[to].rbuf
               /\ h2[from].rbuf = <<>> /\ h2[from].rx = h[from].rx /\ h2[from].wbuf = h[from].wbuf
               /\ \A j \in Socks : j \notin {from, to} => h2[j] = h[j]
<1> DEFINE w == Join(h[to].wbuf, h[from].rbuf)
           u == [h[to] EXCEPT !.wbuf = w]
           v == [h[from] EXCEPT !.rbuf = <<>>]
<1>1. /\ DOMAIN h = Socks
      /\ h[to] \in [rx : Seq(Piece), rbuf : Seq(Piece), wbuf : Seq(Piece)]
      /\ h[from] \in [rx : Seq(Piece), rbuf : Seq(Piece), wbuf : Seq(Piece)]
  BY DEF Holds, HoldsAt
<1>2. Carried(h, from, to) = [[h EXCEPT ![to] = u] EXCEPT ![from] = v]
  BY <1>1, CarriedTwice, ZenonT(30)
<1> HIDE DEF w
<1>3. u.wbuf = w /\ u.rx = h[to].rx /\ u.rbuf = h[to].rbuf
  BY <1>1
<1>4. v.rbuf = <<>> /\ v.rx = h[from].rx /\ v.wbuf = h[from].wbuf
  BY <1>1
<1> HIDE DEF u, v
<1>5. LET h2 == Carried(h, from, to)
      IN  h2[to] = u /\ h2[from] = v /\ \A j \in Socks : j \notin {from, to} => h2[j] = h[j]
  BY <1>1, <1>2
<1> QED BY <1>3, <1>4, <1>5 DEF w

LEMMA AgreeCarried ==
    ASSUME NEW s, s \in [Socks -> Sock], NEW h, Holds(h), Agree(s, h),
           NEW from \in Socks, s[from].alloc, NEW to \in Socks, s[to].alloc, from # to,
           sock' = Relay(s, from, to)
    PROVE  Agree(sock', Carried(h, from, to))
<1> DEFINE h2 == Carried(h, from, to)
           a == h[to].wbuf
           b == h[from].rbuf
<1>1. /\ sock'[to].wbuf = (s[to].wbuf \/ s[from].rbuf) /\ sock'[to].rx = s[to].rx /\ sock'[to].rbuf = s[to].rbuf
      /\ sock'[from].rbuf = FALSE /\ sock'[from].rx = s[from].rx /\ sock'[from].wbuf = s[from].wbuf
      /\ \A j \in Socks : j \notin {from, to} => sock'[j] = s[j]
  <2>1. Relayed(s, Relay(s, from, to), from, to)
    BY RelayBits
  <2>2. Relayed(s, sock', from, to)
    BY <2>1
  <2> QED BY ONLY <2>2 DEF Relayed
<1>2. /\ h2[to].wbuf = Join(a, b) /\ h2[to].rx = h[to].rx /\ h2[to].rbuf = h[to].rbuf
      /\ h2[from].rbuf = <<>> /\ h2[from].rx = h[from].rx /\ h2[from].wbuf = h[from].wbuf
      /\ \A j \in Socks : j \notin {from, to} => h2[j] = h[j]
  BY CarriedAt
<1>3. Join(a, b) = <<>> <=> a = <<>> /\ b = <<>>
  <2>1. a \in Seq(Piece) /\ b \in Seq(Piece)
    BY DEF Holds, HoldsAt
  <2> HIDE DEF a, b
  <2> QED BY ONLY <2>1, JoinEmpty
<1> HIDE DEF h2
<1>4. Match(s[to], h[to]) /\ Match(s[from], h[from])
  BY DEF Agree
<1>5. Match(sock'[to], h2[to])
  BY <1>1, <1>2, <1>3, <1>4 DEF Match
<1>6. Match(sock'[from], h2[from])
  BY <1>1, <1>2, <1>4 DEF Match
<1> SUFFICES ASSUME NEW j \in Socks, sock'[j].alloc
             PROVE  Match(sock'[j], h2[j])
  BY DEF Agree, h2
<1>7. CASE j \in {from, to}
  BY <1>5, <1>6, <1>7
<1>8. CASE j \notin {from, to}
  BY <1>1, <1>2, <1>8 DEF Agree
<1> QED BY <1>7, <1>8

\* No piece of a request is lost on the way from one socket to the other.
LEMMA CarriedLossless ==
    ASSUME NEW h, Holds(h), Covers(held, h), NEW from \in Socks, NEW to \in Socks, from # to,
           sock'[to].alloc, Priv(from) \/ (Client(from) /\ Priv(to))
    PROVE  Lossless(Carried(h, from, to))
<1> DEFINE h2 == Carried(h, from, to)
           a == h[to].wbuf
           b == h[from].rbuf
<1>1. /\ h2[to].wbuf = Join(a, b) /\ h2[to].rx = h[to].rx /\ h2[to].rbuf = h[to].rbuf
      /\ h2[from].rbuf = <<>> /\ h2[from].rx = h[from].rx /\ h2[from].wbuf = h[from].wbuf
      /\ \A j \in Socks : j \notin {from, to} => h2[j] = h[j]
  BY CarriedAt
<1>2. a \in Seq(Piece) /\ b \in Seq(Piece)
  BY DEF Holds, HoldsAt
<1> HIDE DEF h2
<1>3. ASSUME NEW x, x \in ToSet(a) \/ x \in ToSet(b), x # Anonymous
      PROVE  x \in Within(h2[to])
  <2> HIDE DEF a, b
  <2>1. x \in ToSet(a) \cup ToSet(b)
    BY <1>3
  <2>2. x \in ToSet(Join(a, b))
    BY <1>2, <1>3, <2>1, JoinKeeps
  <2> QED BY <1>1, <2>2 DEF Within
<1> SUFFICES ASSUME NEW k \in Socks, sock[k].alloc, sock'[k].alloc, NEW x \in Within(held[k]), x.from # 0
             PROVE  \E j \in Socks : sock'[j].alloc /\ x \in Within(h2[j])
  BY DEF Lossless, h2
<1>4. x \in Within(h[k])
  BY DEF Covers
<1>5. /\ x # Anonymous
      /\ \/ Priv(k) /\ x \in ToSet(h[k].wbuf)
         \/ Client(k) /\ (x \in ToSet(h[k].rx) \/ x \in ToSet(h[k].rbuf))
  <2>1. HoldsAt(k, h[k])
    BY DEF Holds
  <2> QED BY <1>4, <2>1, RequestsAt
<1>6. CASE k \notin {from, to}
  BY <1>1, <1>4, <1>6
<1>7. CASE k = to
  <2>1. CASE x \in ToSet(h[to].wbuf)
    BY <1>3, <1>5, <2>1
  <2>2. CASE x \in ToSet(h[to].rx) \/ x \in ToSet(h[to].rbuf)
    <3>1. x \in ToSet(h2[to].rx) \/ x \in ToSet(h2[to].rbuf)
      BY <1>1, <2>2
    <3> QED BY <3>1 DEF Within
  <2> QED BY <1>5, <1>7, <2>1, <2>2
<1>8. CASE k = from
  <2>1. CASE x \in ToSet(h[from].rbuf)
    BY <1>3, <1>5, <2>1
  <2>2. CASE x \in ToSet(h[from].wbuf) \/ x \in ToSet(h[from].rx)
    <3>1. x \in ToSet(h2[from].wbuf) \/ x \in ToSet(h2[from].rx)
      BY <1>1, <2>2
    <3>2. x \in Within(h2[from])
      BY <3>1 DEF Within
    <3> QED BY <1>8, <3>2
  <2> QED BY <1>5, <1>8, <2>1, <2>2
<1> QED BY <1>6, <1>7, <1>8

\* The two directions of tunnel_connected_handle.
LEMMA AnswerMoves ==
    ASSUME HeapInv, WhoOK, given \in Seq(Note), NEW s, NEW h, Ready(s, h),
           NEW r \in Tunnels, NEW p \in Socks, p = tun[r].priv, NEW q \in Socks, q = tun[r].remote,
           sock' = Relay(s, p, q), Carry(h, p, q), UNCHANGED got
    PROVE  given' \in Seq(Note) /\ Moves(Carried(h, p, q)) /\ Lossless(Carried(h, p, q))
<1> DEFINE d == h[p].rbuf
<1>1. Priv(p) /\ Client(q) /\ p # q
  BY EndsOf DEF Priv, Client
<1>2. s \in [Socks -> Sock] /\ s[p].alloc /\ s[q].alloc /\ Holds(h) /\ HoldsAt(p, h[p]) /\ FirstAt(h[p], p, got)
  BY <1>1 DEF Ready, SameOwners, Priv, Client, Ordered, Fine, Holds, HandshakeFirst
<1>3. d \in Seq(Named(Answers)) /\ HeadOnly(d)
  BY <1>1, <1>2 DEF HoldsAt, FirstAt
<1>4. Settle(Carried(h, p, q)) /\ Give(d, p, q)
  BY DEF Carry, Carried
<1>5. Ordered(Carried(h, p, q), got) /\ NoMore(h, Carried(h, p, q))
  BY <1>1, AnswerCarried DEF Ready
<1>6. Bound(Carried(h, p, q))
  BY <1>5, NoMoreBound DEF Ready
<1>7. Agree(sock', Carried(h, p, q))
  BY <1>1, <1>2, AgreeCarried DEF Ready
<1>8. sock'[q].alloc
  <2>1. Relayed(s, Relay(s, p, q), p, q)
    BY <1>1, <1>2, RelayBits
  <2>2. sock'[q].alloc = s[q].alloc
    BY <2>1 DEF Relayed
  <2> QED BY <1>2, <2>2
<1>9. Lossless(Carried(h, p, q))
  BY <1>1, <1>2, <1>8, CarriedLossless DEF Ready
<1>10. given' \in Seq(Note)
  <2> HIDE DEF d
  <2> QED BY <1>1, <1>3, <1>4, GiveNotes
<1> QED BY <1>4, <1>5, <1>6, <1>7, <1>9, <1>10 DEF Moves

LEMMA RequestMoves ==
    ASSUME HeapInv, WhoOK, given \in Seq(Note), NEW s, NEW h, Ready(s, h),
           NEW r \in Tunnels, NEW p \in Socks, p = tun[r].priv, NEW a \in Socks, a = tun[r].remote,
           tun[r].state = "connected_state", sock' = Relay(s, a, p), Carry(h, a, p), UNCHANGED got
    PROVE  given' \in Seq(Note) /\ Moves(Carried(h, a, p)) /\ Lossless(Carried(h, a, p))
<1>1. Priv(p) /\ Client(a) /\ p # a /\ sock[a].tunnel = r
  BY EndsOf DEF Priv, Client
<1>2. s \in [Socks -> Sock] /\ s[p].alloc /\ s[a].alloc /\ Holds(h) /\ Ordered(h, got) /\ Bound(h)
  BY <1>1 DEF Ready, SameOwners, Priv, Client, Ordered, Fine
<1>3. who[a] \in Clients /\ \A k \in Socks : Client(k) /\ who[k] = who[a] => k = a
  BY <1>1 DEF WhoOK, Clients, Arrived
<1>4. Settle(Carried(h, a, p)) /\ Give(h[a].rbuf, a, p)
  BY DEF Carry, Carried
<1>5. \A q \in Socks : Priv(q) /\ Carries(h, q, who[a]) => q = p
  BY <1>1, <1>2 DEF Bound
<1>6. /\ Ordered(Carried(h, a, p), got)
      /\ \A q \in Socks, c \in Clients :
           Priv(q) /\ Carries(Carried(h, a, p), q, c) => Carries(h, q, c) \/ (q = p /\ c = who[a])
  BY <1>1, <1>2, <1>3, <1>5, RequestCarried
<1>7. Bound(Carried(h, a, p))
  <2> DEFINE h2 == Carried(h, a, p)
  <2> SUFFICES ASSUME NEW q \in Socks, NEW k \in Socks, Priv(q), Client(k), Carries(h2, q, who[k]),
                      tun[sock[k].tunnel].remote = k
               PROVE  LET t == tun[sock[k].tunnel]
                      IN  IF t.state = "tunnel_waitting" THEN t.status # "tmptun_is_wait" ELSE t.priv = q
    BY DEF Bound
  <2>1. who[k] \in Clients
    BY DEF WhoOK, Client, Clients, Arrived
  <2>2. CASE Carries(h, q, who[k])
    BY <1>2, <2>2 DEF Bound
  <2>3. CASE q = p /\ who[k] = who[a]
    <3>1. k = a
      BY <1>3, <2>3
    <3> QED BY <1>1, <2>3, <3>1
  <2> QED BY <1>6, <2>1, <2>2, <2>3
<1>8. Agree(sock', Carried(h, a, p))
  BY <1>1, <1>2, AgreeCarried DEF Ready
<1>9. sock'[p].alloc
  <2>1. Relayed(s, Relay(s, a, p), a, p)
    BY <1>1, <1>2, RelayBits
  <2>2. sock'[p].alloc = s[p].alloc
    BY <2>1 DEF Relayed
  <2> QED BY <1>2, <2>2
<1>10. Lossless(Carried(h, a, p))
  BY <1>1, <1>2, <1>9, CarriedLossless DEF Ready
<1>11. given' \in Seq(Note)
  BY <1>1, <1>4, GiveNotes DEF Priv
<1> QED BY <1>4, <1>6, <1>7, <1>8, <1>10, <1>11 DEF Moves

LEMMA RelayEffect ==
    ASSUME HeapInv, NEW r \in Tunnels, NEW s, SameOwners(s), Empty(s), NEW from \in Socks, NEW to \in Socks,
           sock' = Relay(s, from, to), sock[from].alloc, sock[to].alloc, from # to, UNCHANGED tun
    PROVE  Effect(r)
<1>1. SameOwners(sock')
  BY RelayOwners
<1>2. Relayed(s, Relay(s, from, to), from, to)
  BY RelayBits DEF SameOwners
<1>3. \A j \in Socks : j \notin {from, to} => sock'[j] = s[j]
  BY <1>2 DEF Relayed
<1>4. SidesKept
  <2> SUFFICES ASSUME NEW j \in Socks
               PROVE  IF sock'[j].alloc
                      THEN sock[j].alloc /\ sock'[j].ispriv = sock[j].ispriv /\ sock'[j].tunnel = sock[j].tunnel
                      ELSE sock'[j] = NoSock
    BY DEF SidesKept
  <2>1. sock'[j].alloc = sock[j].alloc /\ sock'[j].ispriv = sock[j].ispriv /\ sock'[j].tunnel = sock[j].tunnel
    BY <1>1 DEF SameOwners
  <2>2. CASE sock[j].alloc
    BY <2>1, <2>2
  <2>3. CASE ~sock[j].alloc
    BY <1>3, <2>1, <2>3 DEF Empty, SameOwners
  <2> QED BY <2>2, <2>3
<1> QED BY <1>4, StillEffect

LEMMA StillMoves ==
    ASSUME HeapInv, NEW s, NEW h, Ready(s, h), Settle(h), UNCHANGED got, SameBits(s, {})
    PROVE  Moves(h) /\ Lossless(h)
<1>1. Agree(sock', h)
  BY AgreeKept DEF Ready
<1> QED BY <1>1, CoversLossless DEF Ready, Moves

LEMMA ReadConnected ==
    ASSUME HeapInv, WhoOK, given \in Seq(Note), NEW k \in Socks, sock[k].alloc, SockOK(k),
           NEW s, Ready(s, ReadIn(k)), tun[sock[k].tunnel].state = "connected_state",
           TunnelConnected(k, s), fault' = "none",
           LET t == tun[sock[k].tunnel]
               h == ReadIn(k)
               other == IF sock[k].ispriv THEN t.remote ELSE t.priv
               mine == IF sock[k].ispriv THEN t.priv ELSE t.remote
           IN  IF other # NULL /\ mine # NULL /\ h[k].rbuf # <<>> THEN Carry(h, mine, other)
               ELSE Settle(h) /\ UNCHANGED given,
           UNCHANGED got
    PROVE  Effect(sock[k].tunnel) /\ given' \in Seq(Note) /\ \E h2 : Moves(h2) /\ Lossless(h2)
<1> DEFINE r == sock[k].tunnel
           t == tun[r]
           h == ReadIn(k)
           other == IF sock[k].ispriv THEN t.remote ELSE t.priv
           mine == IF sock[k].ispriv THEN t.priv ELSE t.remote
<1>1. r \in Tunnels /\ s[k].tunnel = r /\ s[k].ispriv = sock[k].ispriv /\ s[k].alloc /\ SameOwners(s) /\ Empty(s)
  BY DEF HeapInv, SockInTunnel, SameOwners, Ready
<1>2. IF other # NULL /\ mine # NULL /\ h[k].rbuf # <<>> THEN Carry(h, mine, other)
      ELSE Settle(h) /\ UNCHANGED given
  OBVIOUS
<1>3. s[k].rbuf <=> h[k].rbuf # <<>>
  BY <1>1 DEF Ready, Agree, Match
<1> HIDE DEF h
<1>4. Ready(s, h)
  BY DEF h
<1>5. CASE sock' = s /\ UNCHANGED tun /\ Settle(h) /\ UNCHANGED given
  <2>1. SidesKept
    BY <1>1, <1>5, OwnersSides
  <2>2. Effect(r)
    BY <1>1, <1>5, <2>1, StillEffect
  <2>3. SameBits(s, {})
    BY <1>5 DEF SameBits, Bits
  <2> QED BY <1>4, <1>5, <2>2, <2>3, StillMoves
<1>6. CASE other = NULL /\ SockShutdown(k, s) /\ k \in {t.priv, t.remote}
  <2>1. /\ Effect(r)
        /\ t.priv # NULL
        /\ \A j \in Socks : sock'[j].alloc =>
             /\ sock'[j].rx = s[j].rx /\ sock'[j].rbuf = s[j].rbuf
             /\ sock'[j].wbuf = (s[j].wbuf \/ (j = k /\ LeftFor(k, s)))
    BY <1>1, <1>6, ShutEffect
  <2>2. sock[k].ispriv /\ t.remote = NULL
    BY <1>6, <2>1
  <2>3. ~LeftFor(k, s)
    BY <2>2 DEF LeftFor
  <2>4. SameBits(s, {})
    <3> SUFFICES ASSUME NEW j \in Socks, sock'[j].alloc
                 PROVE  s[j].alloc /\ Bits(s[j], sock'[j])
      BY DEF SameBits
    <3>1. s[j].alloc /\ s[j].wbuf \in BOOLEAN
      BY <1>1, <2>1 DEF Effect, SidesKept, SameOwners, Sock
    <3> QED BY <2>1, <2>3, <3>1 DEF Bits
  <2>5. Settle(h) /\ UNCHANGED given
    BY <1>2, <1>6
  <2> QED BY <1>4, <2>1, <2>4, <2>5, StillMoves
<1>7. CASE other # NULL /\ mine # NULL /\ h[k].rbuf # <<>> /\ sock' = Relay(s, mine, other) /\ UNCHANGED tun
  <2>1. Carry(h, mine, other)
    BY <1>2, <1>7
  <2>2. mine \in Socks /\ other \in Socks /\ mine # other /\ sock[mine].alloc /\ sock[other].alloc
    BY <1>1, <1>7, EndsOf DEF Priv, Client
  <2>3. Effect(r)
    BY <1>1, <1>7, <2>2, RelayEffect
  <2>4. CASE sock[k].ispriv
    <3>1. mine = t.priv /\ other = t.remote
      BY <2>4
    <3> HIDE DEF mine, other, t
    <3>2. given' \in Seq(Note) /\ Moves(Carried(h, mine, other)) /\ Lossless(Carried(h, mine, other))
      BY <1>1, <1>4, <1>7, <2>1, <2>2, <3>1, AnswerMoves DEF t
    <3> QED BY <2>3, <3>2
  <2>5. CASE ~sock[k].ispriv
    <3>1. mine = t.remote /\ other = t.priv
      BY <2>5
    <3> HIDE DEF mine, other, t
    <3>2. given' \in Seq(Note) /\ Moves(Carried(h, mine, other)) /\ Lossless(Carried(h, mine, other))
      BY <1>1, <1>4, <1>7, <2>1, <2>2, <3>1, RequestMoves DEF t
    <3> QED BY <2>3, <3>2
  <2> QED BY <2>4, <2>5
<1> QED
  <2>1. \/ other = NULL /\ TunnelShutdown(k, s)
        \/ other # NULL /\ ~s[k].rbuf /\ sock' = s /\ UNCHANGED tun
        \/ other # NULL /\ s[k].rbuf /\ mine # NULL /\ sock' = Relay(s, mine, other) /\ UNCHANGED tun
    BY <1>1 DEF TunnelConnected, Crash
  <2>2. CASE other = NULL /\ TunnelShutdown(k, s)
    <3>1. \/ k \in {t.priv, t.remote} /\ SockShutdown(k, s)
          \/ sock' = s /\ UNCHANGED tun
      BY <1>1, <2>2 DEF TunnelShutdown
    <3>2. Settle(h) /\ UNCHANGED given
      BY <1>2, <2>2
    <3> QED BY <1>5, <1>6, <2>2, <3>1, <3>2
  <2>3. CASE other # NULL /\ ~s[k].rbuf /\ sock' = s /\ UNCHANGED tun
    <3>1. Settle(h) /\ UNCHANGED given
      BY <1>2, <1>3, <2>3
    <3> QED BY <1>5, <2>3, <3>1
  <2>4. CASE other # NULL /\ s[k].rbuf /\ mine # NULL /\ sock' = Relay(s, mine, other) /\ UNCHANGED tun
    BY <1>3, <1>7, <2>4
  <2> QED BY <2>1, <2>2, <2>3, <2>4

\* The fixed page.
LEMMA ReadWaitting ==
    ASSUME HeapInv, WhoOK, NEW k \in Socks, sock[k].alloc,
           NEW s, NEW h, Ready(s, h), tun[sock[k].tunnel].state = "tunnel_waitting",
           TunnelWaitting(k, s),
           LET q == tun[sock[k].tunnel].remote
           IN  IF q # NULL THEN TakePage(h, q) ELSE Settle(h) /\ UNCHANGED given,
           UNCHANGED got
    PROVE  Effect(sock[k].tunnel) /\ UNCHANGED given /\ \E h2 : Moves(h2) /\ Lossless(h2)
<1> DEFINE r == sock[k].tunnel
           t == tun[r]
           q == t.remote
<1>1. r \in Tunnels /\ s[k].tunnel = r /\ SameOwners(s) /\ Empty(s) /\ s \in [Socks -> Sock]
      /\ tun \in [Tunnels -> Tunnel] /\ t \in Tunnel
  BY DEF HeapInv, SockInTunnel, SameOwners, Ready
<1>2. CASE q = NULL
  <2>1. sock' = s /\ UNCHANGED tun
    BY <1>1, <1>2 DEF TunnelWaitting
  <2>2. SidesKept
    BY <1>1, <2>1, OwnersSides
  <2>3. Effect(r)
    BY <1>1, <2>1, <2>2, StillEffect
  <2>4. SameBits(s, {})
    BY <2>1 DEF SameBits, Bits
  <2> QED BY <1>2, <2>3, <2>4, StillMoves
<1>3. CASE q # NULL
  <2> DEFINE x == h[q]
             d == <<Anonymous>>
             w == Join(x.wbuf, d)
             y == [x EXCEPT !.rbuf = <<>>, !.wbuf = w]
             h2 == [h EXCEPT ![q] = [@ EXCEPT !.rbuf = <<>>, !.wbuf = Join(h[q].wbuf, d)]]
             c == [s[q] EXCEPT !.wbuf = TRUE, !.rbuf = FALSE, !.mask = {"in", "out"}]
             u == [t EXCEPT !.status = "tmptun_is_close"]
  <2>1. q \in Socks /\ Client(q) /\ sock[q].tunnel = r /\ sock[q].alloc /\ s[q].alloc /\ s[q] \in Sock
    BY <1>1, <1>3, EndsOf DEF Client, SameOwners
  <2>2. TakePage(h, q)
    BY <1>3
  <2>3. sock' = [s EXCEPT ![q] = c] /\ tun' = [tun EXCEPT ![r] = u]
    BY <1>1, <1>3 DEF TunnelWaitting
  <2> HIDE DEF q
  <2>4. Settle(h2) /\ UNCHANGED given
    BY <2>2 DEF TakePage
  <2>5. /\ Fine(h, got) /\ Holds(h) /\ DOMAIN h = Socks /\ Ordered(h, got) /\ Bound(h)
        /\ x \in [rx : Seq(Piece), rbuf : Seq(Piece), wbuf : Seq(Piece)]
    BY <2>1 DEF Ready, Ordered, Fine, Holds, HoldsAt
  <2>6. d \in Seq(Named(Answers)) /\ d \in Seq(Piece) /\ d # <<>>
    <3>1. \A S : Anonymous \in S => <<Anonymous>> \in Seq(S)
      BY AnonymousFree
    <3>2. Anonymous \in Named(Answers) /\ Anonymous \in Piece
      BY Pieces DEF Named
    <3> QED BY <3>1, <3>2
  <2>7. c.alloc = s[q].alloc /\ c.ispriv = s[q].ispriv /\ c.tunnel = s[q].tunnel /\ c.rx = s[q].rx
        /\ c.rbuf = FALSE /\ c.wbuf = TRUE
    BY <2>1 DEF Sock
  <2> HIDE DEF c, d
  <2>8. sock'[q] = c /\ \A j \in Socks : j # q => sock'[j] = s[j]
    BY <1>1, <2>1, <2>3
  <2>9. SidesKept
    <3> SUFFICES ASSUME NEW j \in Socks
                 PROVE  IF sock'[j].alloc
                        THEN sock[j].alloc /\ sock'[j].ispriv = sock[j].ispriv /\ sock'[j].tunnel = sock[j].tunnel
                        ELSE sock'[j] = NoSock
      BY DEF SidesKept
    <3>1. CASE j = q
      BY <1>1, <2>1, <2>7, <2>8, <3>1 DEF SameOwners
    <3>2. CASE j # q
      BY <1>1, <2>8, <3>2 DEF SameOwners, Empty
    <3> QED BY <3>1, <3>2
  <2>10. Effect(r)
    <3>1. u.state = t.state /\ u.priv = t.priv /\ u.remote = t.remote /\ u.status = "tmptun_is_close"
      BY <1>1 DEF Tunnel
    <3> HIDE DEF u
    <3>2. tun'[r] = u /\ \A z \in Tunnels : z # r => tun'[z] = tun[z]
      BY <1>1, <2>3
    <3>3. Rebinds(tun[r], u)
      BY <3>1 DEF Rebinds, StaysTied, StaysRun
    <3> QED BY <2>9, <3>2, <3>3 DEF Effect
  <2>11. Ordered(h2, got) /\ Bound(h2)
    <3>1. Fine(h2, got) /\ Calm(h, h2)
      BY <2>1, <2>5, <2>6, GiveFine
    <3> HIDE DEF h2
    <3> QED BY <2>5, <3>1, CalmPlaced
  <2>12. y.rx = x.rx /\ y.rbuf = <<>> /\ y.wbuf = w
    <3> HIDE DEF w
    <3> QED BY <2>5
  <2>13. h2 = [h EXCEPT ![q] = y]
    OBVIOUS
  <2>14. Agree(sock', h2)
    <3>1. Match(s[q], x)
      BY <2>1 DEF Ready, Agree
    <3>2. w # <<>>
      <4> DEFINE b == x.wbuf
      <4>1. b \in Seq(Piece) /\ d \in Seq(Piece)
        BY <2>5, <2>6
      <4> HIDE DEF b
      <4>2. Join(b, d) = <<>> <=> b = <<>> /\ d = <<>>
        BY ONLY <4>1, JoinEmpty
      <4> QED BY <2>6, <4>2 DEF b
    <3> HIDE DEF w, x, y, h2
    <3>3. Match(sock'[q], y)
      BY <2>7, <2>8, <2>12, <3>1, <3>2 DEF Match
    <3>4. SameBits(s, {q})
      BY <2>8 DEF SameBits, Bits
    <3>5. Agree(sock', [h EXCEPT ![q] = y])
      BY <2>1, <2>5, <3>3, <3>4, AgreeOne DEF Ready
    <3> QED BY <2>13, <3>5
  <2>15. Lossless(h2)
    <3> SUFFICES ASSUME NEW j \in Socks, sock[j].alloc, sock'[j].alloc,
                        tun[sock[j].tunnel].state # "tunnel_waitting", NEW z \in Within(held[j]), z.from # 0
                 PROVE  z \in Within(h2[j])
      BY DEF Lossless
    <3>1. j # q
      BY <2>1
    <3> HIDE DEF y
    <3>2. h2[j] = h[j]
      BY <2>5, <2>13, <3>1
    <3> QED BY <3>2 DEF Ready, Covers
  <2>16. Moves(h2)
    BY <2>4, <2>11, <2>14 DEF Moves
  <2> QED BY <2>4, <2>10, <2>15, <2>16
<1> QED BY <1>2, <1>3

LEMMA StreamReadStep ==
    ASSUME HeapInv, HeapInv', PoolInv, StreamInv, NEW k \in Socks, StreamRead(k)
    PROVE  Effect(sock[k].tunnel) /\ given' \in Seq(Note) /\ \E h : Moves(h) /\ Lossless(h)
<1> DEFINE r == sock[k].tunnel
           t == tun[r]
           h == ReadIn(k)
           s == IF sock[k].rx THEN [sock EXCEPT ![k] = [@ EXCEPT !.rx = FALSE, !.rbuf = TRUE]] ELSE sock
<1>1. /\ sock[k].alloc /\ fault = "none" /\ SockOK(k) /\ TakeRead(k) /\ UNCHANGED got
      /\ r \in Tunnels /\ WhoOK /\ given \in Seq(Note)
  BY DEF StreamRead, ReadHandle, Consume, Running, PoolInv, SocksOK, Unsent, StreamInv, Histories,
         HeapInv, SockInTunnel
<1>2. CASE ~sock[k].rx /\ sock[k].peer # "open"
  <2>1. SockShutdown(k, sock) /\ TakeLeft(k)
    BY <1>1, <1>2 DEF StreamRead, ReadHandle, TakeRead
  <2> QED BY <1>1, <2>1, ReadShut
<1>3. CASE ~(~sock[k].rx /\ sock[k].peer # "open")
  <2>1. Reading(k, s) /\ StateHandle(k, s)
    BY <1>3 DEF StreamRead, ReadHandle, Reading
  <2> HIDE DEF s
  <2>2. Ready(s, h)
    BY <1>1, <2>1, ReadReady
  <2>3. SameOwners(s) /\ Empty(s) /\ s[k].tunnel = r
    BY <2>2 DEF Ready, SameOwners
  <2>4. CASE fault' # "none"
    <3>1. Settle(held) /\ UNCHANGED given
      BY <1>1, <1>3, <2>4 DEF TakeRead
    <3>2. Ordered(held, got) /\ Bound(held) /\ Covers(held, held)
      BY Standing, CoversSelf
    <3>3. Effect(r)
      <4>1. CASE UNCHANGED <<sock, tun>>
        <5>1. SidesKept
          BY <4>1, Standing, OwnersSides
        <5> QED BY <1>1, <4>1, <5>1, StillEffect
      <4>2. CASE SockForceShutdown(k, s)
        BY <1>1, <2>3, <4>2, ForceEffect
      <4>3. CASE SockShutdown(k, s)
        <5>1. Effect(r) \/ UNCHANGED <<sock, tun>>
          BY <1>1, <2>3, <4>3, ShutEffect
        <5> QED BY <4>1, <5>1
      <4>4. UNCHANGED <<sock, tun>> \/ SockForceShutdown(k, s) \/ SockShutdown(k, s)
        <5>1. CASE t.state \in HandshakeStates /\ Handshake(k, s)
          BY <1>1, <2>3, <2>4, <5>1 DEF Handshake, SockForceShutdown, Crash
        <5>2. CASE TunnelConnected(k, s)
          BY <1>1, <2>3, <2>4, <5>2 DEF TunnelConnected, TunnelShutdown, Crash
        <5>3. CASE TunnelWaitting(k, s)
          BY <1>1, <2>3, <2>4, <5>3 DEF TunnelWaitting
        <5> QED BY <2>1, <2>3, <5>1, <5>2, <5>3 DEF StateHandle
      <4> QED BY <4>1, <4>2, <4>3, <4>4
    <3>4. Moves(held) /\ Lossless(held)
      BY <1>1, <2>4, <3>1, <3>2, CoversLossless DEF Moves
    <3> QED BY <1>1, <3>1, <3>3, <3>4
  <2>5. CASE fault' = "none"
    <3>1. CASE t.state \in HandshakeStates
      <4>1. Handshake(k, s)
        BY <2>1, <2>3, <3>1 DEF StateHandle, HandshakeStates
      <4>2. t.priv # NULL
        BY <2>3, <2>5, <4>1 DEF Handshake, Crash
      <4>3. TakeHandshake(h, t.priv)
        BY <1>1, <1>3, <2>5, <3>1, <4>2 DEF TakeRead
      <4> HIDE DEF h
      <4> QED BY <1>1, <2>2, <2>5, <3>1, <4>1, <4>2, <4>3, ReadHandshake
    <3>2. CASE t.state = "connected_state"
      <4>1. TunnelConnected(k, s)
        BY <2>1, <2>3, <3>2 DEF StateHandle, HandshakeStates
      <4> DEFINE other == IF sock[k].ispriv THEN t.remote ELSE t.priv
                 mine == IF sock[k].ispriv THEN t.priv ELSE t.remote
      <4>2. IF other # NULL /\ mine # NULL /\ h[k].rbuf # <<>> THEN Carry(h, mine, other)
            ELSE Settle(h) /\ UNCHANGED given
        BY <1>1, <1>3, <2>5, <3>2 DEF TakeRead, HandshakeStates
      <4> QED BY <1>1, <2>2, <2>5, <3>2, <4>1, <4>2, ReadConnected
    <3>3. CASE t.state = "tunnel_waitting"
      <4>1. TunnelWaitting(k, s)
        BY <2>1, <2>3, <3>3 DEF StateHandle, HandshakeStates
      <4>2. IF t.remote # NULL THEN TakePage(h, t.remote) ELSE Settle(h) /\ UNCHANGED given
        BY <1>1, <1>3, <2>5, <3>3 DEF TakeRead, HandshakeStates
      <4> HIDE DEF h
      <4>3. Effect(r) /\ UNCHANGED given /\ \E h2 : Moves(h2) /\ Lossless(h2)
        BY <1>1, <2>2, <2>5, <3>3, <4>1, <4>2, ReadWaitting
      <4> QED BY <1>1, <4>3
    <3> QED BY <2>1, <2>3, <3>1, <3>2, <3>3 DEF StateHandle
  <2>6. fault' \in {"none"} \/ fault' # "none"
    OBVIOUS
  <2> QED BY <2>4, <2>5, <2>6
<1> QED BY <1>2, <1>3

----------------------------------------------------------------------------
(* Writing.                                                                *)

\* What is written to a connection keeps its client and its number.
LEMMA AddressedOf ==
    ASSUME NEW q \in Seq(Requests), NEW c \in Connections
    PROVE  LET z == Addressed(q, c)
           IN  /\ z \in Seq(Delivered) /\ DOMAIN z = DOMAIN q
               /\ \A i \in DOMAIN q : z[i].from = q[i].from /\ z[i].n = q[i].n
               /\ Sorted(q) => Sorted(z)
               /\ Sent(q) => Sent(z)
               /\ \A x : (Before(q, x) => Before(z, x)) /\ (Before(x, q) => Before(x, z))
<1> DEFINE z == Addressed(q, c)
<1>1. DOMAIN z = DOMAIN q /\ \A i \in DOMAIN q : z[i] = [q[i] EXCEPT !.to = c]
  BY DEF Addressed
<1>2. \A i \in DOMAIN q : q[i] \in Requests
  BY LenProperties, ElementOfSeq
<1>3. \A x \in Requests : LET y == [x EXCEPT !.to = c]
                          IN  y \in Delivered /\ y.from = x.from /\ y.n = x.n
  BY DEF Requests, Delivered
<1>4. \A i \in DOMAIN q : z[i] \in Delivered /\ z[i].from = q[i].from /\ z[i].n = q[i].n
  BY <1>1, <1>2, <1>3
<1>5. z \in Seq(Delivered)
  <2>1. DOMAIN q = 1..Len(q) /\ Len(q) \in Nat
    BY LenProperties
  <2>2. z = [i \in 1..Len(q) |-> z[i]]
    BY <2>1 DEF Addressed
  <2> HIDE DEF z
  <2> QED BY <1>4, <2>1, <2>2, IsASeq
<1> HIDE DEF z
<1>6. Sorted(q) => Sorted(z)
  BY <1>1, <1>4 DEF Sorted
<1>7. Sent(q) => Sent(z)
  BY <1>1, <1>4 DEF Sent
<1>8. \A x : (Before(q, x) => Before(z, x)) /\ (Before(x, q) => Before(x, z))
  BY <1>1, <1>4 DEF Before
<1> QED BY <1>1, <1>4, <1>5, <1>6, <1>7, <1>8 DEF z

\* What was handed to the private side are the oldest pieces of all its clients.
LEMMA WrittenOrdered ==
    ASSUME NEW h, NEW g \in Seq(Delivered), Ordered(h, g), NEW k \in Socks, Priv(k), who[k] \in Connections,
           NEW pre \in Seq(Piece), NEW rest \in Seq(Piece), h[k].wbuf = pre \o rest
    PROVE  LET h2 == [h EXCEPT ![k] = [@ EXCEPT !.wbuf = rest]]
               g2 == g \o Addressed(Numbered(pre), who[k])
           IN  g2 \in Seq(Delivered) /\ Ordered(h2, g2) /\ NoMore(h, h2)
<1> DEFINE x == h[k]
           y == [x EXCEPT !.wbuf = rest]
           h2 == [h EXCEPT ![k] = y]
           num == Numbered(pre)
           new == Addressed(num, who[k])
           g2 == g \o new
<1>1. /\ Fine(h, g) /\ Holds(h) /\ DOMAIN h = Socks /\ HoldsAt(k, x) /\ FirstAt(x, k, g)
      /\ InLine(h, g) /\ OneCarrier(h) /\ ~Client(k)
  BY DEF Ordered, Fine, Holds, HandshakeFirst, Priv, Client
<1>2. /\ x \in [rx : Seq(Piece), rbuf : Seq(Piece), wbuf : Seq(Piece)]
      /\ x.rx \in Seq(Named(Answers)) /\ x.rbuf \in Seq(Named(Answers)) /\ pre \o rest \in Seq(Named(Requests))
  BY <1>1 DEF HoldsAt
<1>3. y.rx = x.rx /\ y.rbuf = x.rbuf /\ y.wbuf = rest
      /\ y \in [rx : Seq(Piece), rbuf : Seq(Piece), wbuf : Seq(Piece)]
  BY <1>2
<1> HIDE DEF x, y
<1>4. h2[k] = y /\ \A j \in Socks : j # k => h2[j] = h[j]
  BY <1>1
<1>5. DOMAIN h2 = Socks
  BY <1>1
<1> HIDE DEF h2
<1>6. h[k] = x /\ x.wbuf = pre \o rest
  BY DEF x
<1>7. \A i \in DOMAIN pre : i \in DOMAIN (pre \o rest) /\ (pre \o rest)[i] = pre[i]
  BY ConcatFrom
<1>8. \A j \in DOMAIN rest : Len(pre) + j \in DOMAIN (pre \o rest) /\ (pre \o rest)[Len(pre) + j] = rest[j]
  BY ConcatFrom
<1>9. pre \in Seq(Named(Requests)) /\ rest \in Seq(Named(Requests))
  <2> DEFINE T == Named(Requests)
             w == pre \o rest
  <2>1. w \in Seq(T)
    BY <1>2
  <2> HIDE DEF T
  <2>2. \A i \in DOMAIN w : w[i] \in T
    <3> HIDE DEF w
    <3> QED BY <2>1, LenProperties, ElementOfSeq
  <2>3. \A i \in DOMAIN pre : pre[i] \in T
    BY <1>7, <2>2
  <2>4. \A i \in DOMAIN rest : rest[i] \in T
    BY <1>8, <2>2
  <2>5. \A q \in Seq(Piece) : (\A i \in DOMAIN q : q[i] \in T) => q \in Seq(T)
    OBVIOUS
  <2> QED BY <2>3, <2>4, <2>5 DEF T
<1>10. HeadOnly(pre) /\ HeadOnly(rest)
  <2>1. HeadOnly(pre \o rest)
    BY <1>1, <1>6 DEF FirstAt
  <2> QED BY <2>1, HeadOnlyParts
<1>11. Anonymous \notin Requests
  BY NotAnonymous
<1>12. /\ new \in Seq(Delivered)
       /\ Sorted(pre) => Sorted(new)
       /\ Sent(pre) => Sent(new)
       /\ \A z : (Before(pre, z) => Before(new, z)) /\ (Before(z, pre) => Before(z, new))
       /\ \A c : (\E i \in DOMAIN new : new[i].from = c) => \E i \in DOMAIN pre : pre[i].from = c
  <2>1. num \in Seq(Requests)
    BY <1>9, <1>10, <1>11, NumberedOf
  <2>2. /\ Sorted(pre) => Sorted(num)
        /\ Sent(pre) => Sent(num)
        /\ \A z : (Before(pre, z) => Before(num, z)) /\ (Before(z, pre) => Before(z, num))
        /\ \A c : (\E i \in DOMAIN num : num[i].from = c) => \E i \in DOMAIN pre : pre[i].from = c
    BY <1>9, <1>10, <1>11, NumberedMono, ZenonT(30)
  <2> HIDE DEF num
  <2>3. /\ new \in Seq(Delivered) /\ DOMAIN new = DOMAIN num
        /\ \A i \in DOMAIN num : new[i].from = num[i].from
        /\ Sorted(num) => Sorted(new)
        /\ Sent(num) => Sent(new)
        /\ \A z : (Before(num, z) => Before(new, z)) /\ (Before(z, num) => Before(z, new))
    BY <2>1, AddressedOf
  <2> HIDE DEF new
  <2> QED BY <2>2, <2>3
<1> HIDE DEF new
<1>13. g2 \in Seq(Delivered)
  BY <1>12, ConcatProperties
<1>14. \A p \in Socks : Unasked(p, g2) => Unasked(p, g)
  <2>1. \A i \in DOMAIN g : i \in DOMAIN g2 /\ g2[i] = g[i]
    BY <1>12, ConcatFrom
  <2> HIDE DEF g2
  <2> QED BY <2>1 DEF Unasked
<1>15. Fine(h2, g2)
  <2>1. HoldsAt(k, y)
    BY <1>1, <1>2, <1>3, <1>9 DEF HoldsAt
  <2>2. Holds(h2)
    BY <1>1, <1>4, <1>5, <2>1 DEF Holds
  <2>3. ASSUME NEW p \in Socks, Priv(p)
        PROVE  FirstAt(h2[p], p, g2)
    <3> HIDE DEF g2
    <3>1. CASE p = k
      BY <1>1, <1>3, <1>4, <1>10, <1>14, <3>1 DEF FirstAt
    <3>2. CASE p # k
      BY <1>1, <1>4, <1>14, <2>3, <3>2 DEF Fine, HandshakeFirst, FirstAt
    <3> QED BY <3>1, <3>2
  <2> QED BY <2>2, <2>3 DEF Fine, HandshakeFirst
<1>16. /\ Sorted(g) /\ Sent(g) /\ Sorted(pre \o rest) /\ Sent(pre \o rest) /\ Before(g, pre \o rest)
       /\ \A j \in Socks : Client(j) => Before(pre \o rest, Coming(h[j]))
  BY <1>1, <1>6 DEF InLine
<1>17. /\ Sorted(pre) /\ Sorted(rest) /\ Before(pre, rest) /\ Sent(pre) /\ Sent(rest)
       /\ Before(g, pre) /\ Before(g, rest)
       /\ \A j \in Socks : Client(j) => Before(pre, Coming(h[j])) /\ Before(rest, Coming(h[j]))
  <2>1. /\ Sorted(pre \o rest) <=> Sorted(pre) /\ Sorted(rest) /\ Before(pre, rest)
        /\ Sent(pre \o rest) <=> Sent(pre) /\ Sent(rest)
        /\ \A z : /\ Before(pre \o rest, z) <=> Before(pre, z) /\ Before(rest, z)
                  /\ Before(z, pre \o rest) <=> Before(z, pre) /\ Before(z, rest)
    BY ConcatSorted, ConcatSent, ConcatBefore
  <2> QED BY <1>16, <2>1
<1>18. /\ Sorted(new) /\ Sent(new) /\ Before(g, new) /\ Before(new, rest)
       /\ \A j \in Socks : Client(j) => Before(new, Coming(h[j]))
  BY <1>12, <1>17
<1>19. /\ Sorted(g2) /\ Sent(g2)
       /\ \A z : Before(g2, z) <=> Before(g, z) /\ Before(new, z)
  <2>1. /\ Sorted(g2) <=> Sorted(g) /\ Sorted(new) /\ Before(g, new)
        /\ Sent(g2) <=> Sent(g) /\ Sent(new)
        /\ \A z : Before(g2, z) <=> Before(g, z) /\ Before(new, z)
    BY <1>12, ConcatSorted, ConcatSent, ConcatBefore
  <2> HIDE DEF g2
  <2> QED BY <1>16, <1>18, <2>1
<1> HIDE DEF g2
<1>20. ASSUME NEW p \in Socks, Priv(p), p # k
       PROVE  Before(new, h[p].wbuf)
  <2> SUFFICES ASSUME NEW i \in DOMAIN new, NEW j \in DOMAIN h[p].wbuf,
                      new[i].from = h[p].wbuf[j].from, new[i].from # 0
               PROVE  FALSE
    BY DEF Before
  <2> DEFINE c == new[i].from
  <2>1. PICK m \in DOMAIN pre : pre[m].from = c
    BY <1>12
  <2>2. Carries(h, k, c)
    BY <1>6, <1>7, <2>1 DEF Carries
  <2>3. Carries(h, p, c)
    BY DEF Carries
  <2>4. c \in Clients
    <3>1. new[i] \in Delivered
      BY <1>12, LenProperties, ElementOfSeq
    <3> QED BY <3>1 DEF Delivered
  <2> QED BY <1>1, <1>20, <2>2, <2>3, <2>4 DEF OneCarrier
<1>21. InLine(h2, g2)
  <2>1. ASSUME NEW p \in Socks, Priv(p)
        PROVE  Sorted(h2[p].wbuf) /\ Sent(h2[p].wbuf) /\ Before(g2, h2[p].wbuf)
    <3>1. CASE p = k
      BY <1>3, <1>4, <1>17, <1>18, <1>19, <3>1
    <3>2. CASE p # k
      BY <1>1, <1>4, <1>19, <1>20, <2>1, <3>2 DEF InLine
    <3> QED BY <3>1, <3>2
  <2>2. ASSUME NEW j \in Socks, Client(j)
        PROVE  Sorted(Coming(h2[j])) /\ Sent(Coming(h2[j])) /\ Before(g2, Coming(h2[j]))
    <3>1. h2[j] = h[j]
      BY <1>1, <1>4, <2>2
    <3> QED BY <1>1, <1>18, <1>19, <2>2, <3>1 DEF InLine
  <2>3. ASSUME NEW p \in Socks, NEW j \in Socks, Priv(p), Client(j)
        PROVE  Before(h2[p].wbuf, Coming(h2[j]))
    <3>1. h2[j] = h[j]
      BY <1>1, <1>4, <2>3
    <3>2. CASE p = k
      BY <1>3, <1>4, <1>17, <2>3, <3>1, <3>2
    <3>3. CASE p # k
      BY <1>1, <1>4, <2>3, <3>1, <3>3 DEF InLine
    <3> QED BY <3>2, <3>3
  <2> QED BY <1>19, <2>1, <2>2, <2>3 DEF InLine
<1>22. \A p \in Socks, c \in Clients : Priv(p) /\ Carries(h2, p, c) => Carries(h, p, c)
  <2> SUFFICES ASSUME NEW p \in Socks, NEW c \in Clients, Carries(h2, p, c)
               PROVE  Carries(h, p, c)
    OBVIOUS
  <2>1. CASE p = k
    <3>1. PICK j \in DOMAIN rest : rest[j].from = c
      BY <1>3, <1>4, <2>1 DEF Carries
    <3> QED BY <1>6, <1>8, <2>1, <3>1 DEF Carries
  <2>2. CASE p # k
    BY <1>4, <2>2 DEF Carries
  <2> QED BY <2>1, <2>2
<1>23. OneCarrier(h2) /\ NoMore(h, h2)
  BY <1>1, <1>22 DEF OneCarrier, NoMore
<1>24. g2 \in Seq(Delivered) /\ Ordered(h2, g2) /\ NoMore(h, h2)
  BY <1>13, <1>15, <1>21, <1>23 DEF Ordered
<1> QED BY <1>24 DEF h2, g2, y, x, new, num

\* An answered client is parked; any other write leaves the tunnels alone.
LEMMA SwitchBound ==
    ASSUME IInv, PoolInv, NEW k \in Socks, sock[k].alloc, NEW x \in BOOLEAN, NEW s, s = Wrote(k, x),
           AfterWrite(k, s), UNCHANGED appList
    PROVE  /\ BoundKept /\ sock'[k].alloc /\ sock'[k].ispriv = sock[k].ispriv
           /\ \A j \in Socks : j # k => sock'[j] = sock[j]
           /\ sock'[k].rx = sock[k].rx /\ sock'[k].rbuf = sock[k].rbuf /\ sock'[k].wbuf \in BOOLEAN
<1> DEFINE r == sock[k].tunnel
           t == tun[r]
<1>1. HeapInv /\ ListsOK /\ LoopOK
  BY DEF IInv
<1>2. /\ r \in Tunnels /\ t \in Tunnel /\ tun \in [Tunnels -> Tunnel] /\ sock[k] \in Sock
      /\ sock \in [Socks -> Sock]
  BY <1>1 DEF HeapInv, SockInTunnel
<1>3. /\ s[k].tunnel = r /\ s[k].alloc /\ s[k].ispriv = sock[k].ispriv
      /\ s[k] \in Sock /\ s[k].rbuf = sock[k].rbuf /\ s \in [Socks -> Sock]
      /\ \A j \in Socks : j # k => s[j] = sock[j]
  <2>1. SameOwners(s)
    BY <1>1, WrittenBuf
  <2> QED BY <1>1, <2>1, WrittenBuf DEF SameOwners
<1>4. s[k].rx = sock[k].rx
  <2>1. s[k] = [sock[k] EXCEPT !.wbuf = x]
    BY <1>2 DEF Wrote
  <2> QED BY <1>2, <2>1 DEF Sock
<1>5. CASE Crash("null")
  BY <1>2, <1>5 DEF Crash, BoundKept, Sock
<1>6. ASSUME NEW m, sock' = [s EXCEPT ![k] = [@ EXCEPT !.mask = m]], UNCHANGED tun
      PROVE  /\ BoundKept /\ sock'[k].alloc /\ sock'[k].ispriv = sock[k].ispriv
             /\ \A j \in Socks : j # k => sock'[j] = sock[j]
             /\ sock'[k].rx = sock[k].rx /\ sock'[k].rbuf = sock[k].rbuf /\ sock'[k].wbuf \in BOOLEAN
  <2>1. sock'[k] = [s[k] EXCEPT !.mask = m] /\ \A j \in Socks : j # k => sock'[j] = sock[j]
    BY <1>3, <1>6
  <2>2. /\ sock'[k].alloc = s[k].alloc /\ sock'[k].ispriv = s[k].ispriv /\ sock'[k].tunnel = s[k].tunnel
        /\ sock'[k].rx = s[k].rx /\ sock'[k].rbuf = s[k].rbuf /\ sock'[k].wbuf \in BOOLEAN
    BY <1>3, <2>1 DEF Sock
  <2>3. \A j \in Socks : sock'[j].tunnel = sock[j].tunnel
    BY <1>3, <2>1, <2>2
  <2>4. BoundKept
    BY <1>6, <2>3 DEF BoundKept
  <2> QED BY <1>3, <1>4, <2>1, <2>2, <2>4
<1>7. ASSUME t.status = "tunn_is_run", k = t.remote, NEW w \in WaitObj,
             tun' = [[tun EXCEPT ![r] = LetGo(@, "tunn_is_idle")]
                       EXCEPT ![w] = Parked(@, k, "tmptun_is_alive")],
             waitList' = WaitListWith(w), UNCHANGED appList,
             sock' = [s EXCEPT ![k] = [@ EXCEPT !.mask = {"in"}, !.tunnel = w]]
      PROVE  /\ BoundKept /\ sock'[k].alloc /\ sock'[k].ispriv = sock[k].ispriv
             /\ \A j \in Socks : j # k => sock'[j] = sock[j]
             /\ sock'[k].rx = sock[k].rx /\ sock'[k].rbuf = sock[k].rbuf /\ sock'[k].wbuf \in BOOLEAN
  <2>1. w \in Tunnels /\ ~InApp(w)
    BY <1>1, <1>7, EntryTaken
  <2>2. InApp(r)
    BY <1>1, <1>7, EntryOf, OwnerListed
  <2>3. w # r /\ tun[w] \in Tunnel
    BY <1>2, <2>1, <2>2
  <2>4. /\ tun'[r] = LetGo(t, "tunn_is_idle") /\ tun'[w] = Parked(tun[w], k, "tmptun_is_alive")
        /\ \A q \in Tunnels : q \notin {r, w} => tun'[q] = tun[q]
    BY <1>2, <1>7, <2>1, <2>3
  <2>5. /\ tun'[r].remote = NULL
        /\ tun'[w].remote = k /\ tun'[w].state = "tunnel_waitting" /\ tun'[w].status = "tmptun_is_alive"
    BY <1>2, <2>3, <2>4 DEF LetGo, Parked, Tunnel
  <2>6. sock'[k] = [s[k] EXCEPT !.mask = {"in"}, !.tunnel = w] /\ \A j \in Socks : j # k => sock'[j] = sock[j]
    BY <1>3, <1>7
  <2>7. /\ sock'[k].alloc = s[k].alloc /\ sock'[k].ispriv = s[k].ispriv /\ sock'[k].tunnel = w
        /\ sock'[k].rx = s[k].rx /\ sock'[k].rbuf = s[k].rbuf /\ sock'[k].wbuf \in BOOLEAN
    <3> HIDE DEF r, t
    <3> QED BY ONLY <1>3, <2>6 DEF Sock
  <2>8. ASSUME NEW j \in Socks, sock'[j].alloc, tun'[sock'[j].tunnel].remote = j
        PROVE  LET e == tun[sock[j].tunnel]
                   u == tun'[sock'[j].tunnel]
               IN  /\ e.remote = j
                   /\ IF u.state = "tunnel_waitting"
                      THEN u.status = "tmptun_is_wait" => e.state = "tunnel_waitting" /\ e.status = "tmptun_is_wait"
                      ELSE /\ e.state # "tunnel_waitting"
                           /\ u.priv = e.priv \/ (e.priv \in Socks /\ ~sock'[e.priv].alloc)
    <3>1. CASE j = k
      BY <1>7, <2>5, <2>7, <3>1
    <3>2. CASE j # k
      <4>1. sock'[j] = sock[j] /\ sock[j].tunnel \in Tunnels
        BY <1>1, <2>6, <2>8, <3>2 DEF HeapInv, SockInTunnel
      <4>2. sock[j].tunnel \notin {r, w}
        BY <2>5, <2>8, <3>2, <4>1
      <4>3. tun'[sock[j].tunnel] = tun[sock[j].tunnel]
        BY <2>4, <4>1, <4>2
      <4> QED BY <2>8, <4>1, <4>3
    <3> QED BY <3>1, <3>2
  <2>9. BoundKept
    BY <2>8 DEF BoundKept
  <2> QED BY <1>3, <1>4, <2>6, <2>7, <2>9
<1>8. \/ Crash("null")
      \/ \E m : sock' = [s EXCEPT ![k] = [@ EXCEPT !.mask = m]] /\ UNCHANGED tun
      \/ /\ t.status = "tunn_is_run" /\ k = t.remote
         /\ \E w \in WaitObj :
              /\ tun' = [[tun EXCEPT ![r] = LetGo(@, "tunn_is_idle")]
                           EXCEPT ![w] = Parked(@, k, "tmptun_is_alive")]
              /\ waitList' = WaitListWith(w)
              /\ sock' = [s EXCEPT ![k] = [@ EXCEPT !.mask = {"in"}, !.tunnel = w]]
  <2>1. s[k].tunnel = sock[k].tunnel
    BY <1>3
  <2>2. CASE t.status = "tunn_is_run" /\ TunnelSwitch(k, s)
    BY <2>1, <2>2 DEF TunnelSwitch
  <2>3. CASE sock' = [s EXCEPT ![k] = [@ EXCEPT !.mask = IF s[k].wbuf THEN {"in", "out"} ELSE {"in"}]]
             /\ UNCHANGED tun
    BY <2>3
  <2> QED BY <2>1, <2>2, <2>3 DEF AfterWrite
<1> HIDE DEF r, t
<1> QED BY <1>5, <1>6, <1>7, <1>8

LEMMA WriteEffect ==
    ASSUME IInv, PoolInv, Empty(sock), NEW k \in Socks, WriteHandle(k)
    PROVE  /\ Sides /\ BoundKept
           /\ \A j \in Socks : j # k => sock'[j] = sock[j]
           /\ sock'[k].alloc => /\ sock'[k].rx = sock[k].rx /\ sock'[k].rbuf = sock[k].rbuf
                                /\ sock'[k].wbuf \in BOOLEAN
           /\ sock[k].alloc /\ UNCHANGED dials /\ fault = "none"
<1>1. HeapInv /\ sock[k].alloc /\ UNCHANGED appList /\ SameOwners(sock) /\ SockOK(k) /\ sock[k].tunnel \in Tunnels
  BY SelfOwners DEF IInv, WriteHandle, PoolInv, SocksOK, HeapInv, SockInTunnel
<1>2. UNCHANGED dials /\ fault = "none"
  BY DEF WriteHandle, Consume, Running
<1>3. CASE SockForceShutdown(k, sock)
  <2>1. Effect(sock[k].tunnel) /\ sock'[k] = NoSock /\ \A j \in Socks : j # k => sock'[j] = sock[j]
    BY <1>1, <1>3, ForceEffect
  <2>2. Sides /\ BoundKept
    BY <1>1, <2>1, EffectBound
  <2> QED BY <1>1, <1>2, <2>1, <2>2 DEF NoSock
<1>4. ASSUME NEW x \in BOOLEAN, AfterWrite(k, Wrote(k, x))
      PROVE  /\ Sides /\ BoundKept
             /\ \A j \in Socks : j # k => sock'[j] = sock[j]
             /\ sock'[k].alloc => /\ sock'[k].rx = sock[k].rx /\ sock'[k].rbuf = sock[k].rbuf
                                  /\ sock'[k].wbuf \in BOOLEAN
  <2>1. /\ BoundKept /\ sock'[k].alloc /\ sock'[k].ispriv = sock[k].ispriv
        /\ \A j \in Socks : j # k => sock'[j] = sock[j]
        /\ sock'[k].rx = sock[k].rx /\ sock'[k].rbuf = sock[k].rbuf /\ sock'[k].wbuf \in BOOLEAN
    BY <1>1, <1>4, SwitchBound
  <2>2. Sides
    BY <1>1, <2>1 DEF Sides, Empty
  <2> QED BY <2>1, <2>2
<1>5. CASE ~sock[k].wbuf /\ AfterWrite(k, sock)
  <2>1. sock \in [Socks -> Sock] /\ sock[k] \in Sock
    BY <1>1 DEF HeapInv
  <2>2. sock = Wrote(k, FALSE)
    <3>1. sock[k] = [sock[k] EXCEPT !.wbuf = FALSE]
      BY <1>5, <2>1 DEF Sock
    <3> QED BY <2>1, <3>1 DEF Wrote
  <2>3. AfterWrite(k, Wrote(k, FALSE))
    BY <1>5, <2>2
  <2> QED BY <1>1, <1>2, <1>4, <2>3
<1>6. \/ SockForceShutdown(k, sock) \/ (~sock[k].wbuf /\ AfterWrite(k, sock))
      \/ \E x \in BOOLEAN : AfterWrite(k, Wrote(k, x))
  BY DEF WriteHandle, Wrote
<1> QED BY <1>1, <1>2, <1>3, <1>4, <1>5, <1>6

\* A step loses no piece of a request but with the socket that held it, or parked.
Kept == \E h : Settle(h) /\ Lossless(h)

\* What is left of a client's answers.
LEMMA ClientWritten ==
    ASSUME NEW h, NEW g, Ordered(h, g), Bound(h), WhoOK, NEW k \in Socks, Client(k), NEW some \in BOOLEAN,
           NEW rest \in Left(h[k].wbuf, some)
    PROVE  LET h2 == [h EXCEPT ![k] = [@ EXCEPT !.wbuf = rest]]
           IN  Ordered(h2, g) /\ Bound(h2) /\ Covers(h, h2)
<1> DEFINE x == h[k]
           y == [x EXCEPT !.wbuf = rest]
           h2 == [h EXCEPT ![k] = y]
<1>1. Fine(h, g) /\ Holds(h) /\ HoldsAt(k, x) /\ ~Priv(k) /\ sock[k].alloc
  BY DEF Ordered, Fine, Holds, Priv, Client
<1>2. /\ x \in [rx : Seq(Piece), rbuf : Seq(Piece), wbuf : Seq(Piece)]
      /\ x.wbuf \in Seq(Named(Answers)) /\ x.rx \in Seq(Request(who[k])) /\ x.rbuf \in Seq(Request(who[k]))
  BY <1>1 DEF HoldsAt
<1>3. rest \in Seq(Piece) /\ rest \in Seq(Named(Answers))
  <2> DEFINE q == x.wbuf
  <2>1. q \in Seq(Piece) /\ q \in Seq(Named(Answers)) /\ rest \in Left(q, some)
    BY <1>2
  <2> HIDE DEF q
  <2> QED BY <2>1, LeftOf
<1>4. /\ y.rx = x.rx /\ y.rbuf = x.rbuf /\ y.wbuf = rest
      /\ y \in [rx : Seq(Piece), rbuf : Seq(Piece), wbuf : Seq(Piece)]
  BY <1>2, <1>3
<1> HIDE DEF x, y
<1>5. HoldsAt(k, y)
  BY <1>1, <1>2, <1>3, <1>4 DEF HoldsAt
<1>6. CalmAt(k, x, y)
  BY <1>1, <1>4 DEF CalmAt, Coming
<1>7. h[k] = x
  BY DEF x
<1>8. Fine(h2, g) /\ Calm(h, h2)
  BY <1>1, <1>5, <1>6, <1>7, OneChanged
<1>9. Covers(h, h2)
  BY <1>1, <1>4, <1>7, AnswerCovers
<1> HIDE DEF h2
<1>10. Ordered(h2, g) /\ Bound(h2)
  BY <1>8, CalmPlaced
<1> QED BY <1>9, <1>10 DEF h2, y, x

\* A piece that was written: the history tells only whose it is and its number.
Arrives(x, g) == \E i \in DOMAIN g : g[i].from = x.from /\ g[i].n = x.n

\* A piece of a private socket's write buffer is in the history afterwards, or is left.
LEMMA WrittenKept ==
    ASSUME got \in Seq(Delivered), Ordered(held, got), NEW k \in Socks, Priv(k), who[k] \in Connections,
           NEW pre \in Seq(Piece), NEW rest \in Seq(Piece), held[k].wbuf = pre \o rest,
           NEW x \in Within(held[k]), x.from # 0,
           NEW g2, g2 = got \o Addressed(Numbered(pre), who[k])
    PROVE  Arrives(x, g2) \/ x \in ToSet(rest)
<1> DEFINE T == Named(Requests)
           w == pre \o rest
           num == Numbered(pre)
           new == Addressed(num, who[k])
<1>1. HoldsAt(k, held[k]) /\ FirstAt(held[k], k, got) /\ sock[k].alloc /\ ~Client(k)
  BY DEF Ordered, Fine, Holds, HandshakeFirst, Priv, Client
<1>2. x # Anonymous /\ x \in ToSet(w)
  BY <1>1, RequestsAt
<1>3. w \in Seq(T) /\ HeadOnly(w)
  BY <1>1 DEF HoldsAt, FirstAt
<1>4. HeadOnly(pre) /\ Anonymous \notin Requests
  BY <1>3, HeadOnlyParts, NotAnonymous
<1>5. pre \in Seq(T)
  <2>1. \A i \in DOMAIN pre : pre[i] \in T
    <3>1. \A i \in DOMAIN pre : i \in DOMAIN w /\ w[i] = pre[i]
      BY ConcatFrom
    <3> HIDE DEF w, T
    <3> QED BY <1>3, <3>1, LenProperties, ElementOfSeq
  <2> HIDE DEF T
  <2> QED BY <2>1
<1>6. x \in ToSet(pre) \/ x \in ToSet(rest)
  <2>1. PICK i \in DOMAIN w : w[i] = x
    BY <1>2, <1>3, InSet
  <2>2. \/ i \in DOMAIN pre /\ w[i] = pre[i]
        \/ \E j \in DOMAIN rest : w[i] = rest[j]
    BY <2>1, ConcatAt
  <2> HIDE DEF w
  <2>3. (\E m \in DOMAIN pre : pre[m] = x) \/ \E j \in DOMAIN rest : rest[j] = x
    BY <2>1, <2>2
  <2> QED BY <2>3, InSet
<1>7. g2 = got \o new
  OBVIOUS
<1>8. ASSUME x \in ToSet(pre)
      PROVE  Arrives(x, g2)
  <2>1. x \in ToSet(num) /\ num \in Seq(Requests)
    BY <1>2, <1>4, <1>5, <1>8, NumberedMono, NumberedOf
  <2> HIDE DEF num
  <2>2. PICK i \in DOMAIN num : num[i] = x
    BY <2>1, InSet
  <2>3. new \in Seq(Delivered) /\ i \in DOMAIN new /\ new[i].from = x.from /\ new[i].n = x.n
    BY <2>1, <2>2, AddressedOf
  <2> HIDE DEF new
  <2>4. Len(got) + i \in DOMAIN (got \o new) /\ (got \o new)[Len(got) + i] = new[i]
    BY <2>3, ConcatFrom
  <2> QED BY <1>7, <2>3, <2>4 DEF Arrives
<1> QED BY <1>6, <1>8

\* Sockets that are not closed keep their bits.
LEMMA ReleasedMoves ==
    ASSUME HeapInv, StreamInv, Settle(held), UNCHANGED got, fault = "none", SameBits(sock, {})
    PROVE  Moves(held) /\ Lossless(held)
<1>1. Ordered(held, got) /\ Bound(held) /\ Agree(sock, held)
  BY Standing
<1>2. Agree(sock', held)
  BY <1>1, AgreeKept
<1> QED BY <1>1, <1>2, CoversSelf, CoversLossless DEF Moves

LEMMA StreamWriteStep ==
    ASSUME IInv, PoolInv, StreamInv, NEW k \in Socks, StreamWrite(k)
    PROVE  StreamInv' /\ Kept
<1> DEFINE x == held[k]
           q == x.wbuf
           some == sock'[k].alloc /\ sock'[k].wbuf
<1>1. PICK rest \in Left(q, some) :
        /\ Settle([held EXCEPT ![k] = [@ EXCEPT !.wbuf = rest]])
        /\ got' = IF sock[k].ispriv /\ sock'[k].alloc
                  THEN got \o Addressed(Numbered(SubSeq(q, 1, Len(q) - Len(rest))), who[k])
                  ELSE got
        /\ served' = IF sock[k].ispriv \/ q = rest THEN served ELSE served \cup {who[k]}
  BY DEF StreamWrite
<1>2. UNCHANGED <<who, sent, given>> /\ WriteHandle(k)
  BY DEF StreamWrite
<1>3. /\ HeapInv /\ Ordered(held, got) /\ Bound(held) /\ Empty(sock) /\ Agree(sock, held)
      /\ Fine(held, got) /\ Holds(held) /\ WhoOK /\ Histories /\ fault = "none" /\ sock[k].alloc
  <2>1. HeapInv /\ fault = "none" /\ sock[k].alloc
    BY <1>2 DEF IInv, WriteHandle, Consume, Running
  <2> QED BY <2>1, Standing DEF StreamInv
<1>4. /\ Sides /\ BoundKept
      /\ \A j \in Socks : j # k => sock'[j] = sock[j]
      /\ sock'[k].alloc => /\ sock'[k].rx = sock[k].rx /\ sock'[k].rbuf = sock[k].rbuf
                           /\ sock'[k].wbuf \in BOOLEAN
      /\ UNCHANGED dials
  BY <1>2, <1>3, WriteEffect
<1>5. x \in [rx : Seq(Piece), rbuf : Seq(Piece), wbuf : Seq(Piece)] /\ q \in Seq(Piece)
  BY <1>3 DEF Holds, HoldsAt
<1>6. sock[k].ispriv \in BOOLEAN
  BY <1>3 DEF HeapInv, Sock
<1>7. served' \subseteq Clients
  <2>1. ~sock[k].ispriv => who[k] \in Clients
    BY <1>3 DEF WhoOK, Client, Clients, Arrived
  <2> QED BY <1>1, <1>3, <2>1 DEF Histories
<1>8. SameBits(sock, {k})
  <2> SUFFICES ASSUME NEW j \in Socks, sock'[j].alloc, j # k
               PROVE  sock[j].alloc /\ Bits(sock[j], sock'[j])
    BY DEF SameBits
  <2> QED BY <1>4 DEF Bits
<1>9. ASSUME NEW h, Settle(h), Moves(h), Lossless(h), got' \in Seq(Delivered)
      PROVE  StreamInv' /\ Kept
  <2>1. Histories'
    BY <1>2, <1>3, <1>7, <1>9 DEF Histories
  <2>2. StreamInv'
    BY <1>2, <1>4, <1>9, <2>1, MovedInv
  <2> QED BY <1>9, <2>2 DEF Kept
<1>10. CASE ~sock'[k].alloc
  <2>1. Settle(held)
    <3> DEFINE h2 == [held EXCEPT ![k] = [@ EXCEPT !.wbuf = rest]]
    <3>1. \A j \in Socks : j # k => h2[j] = held[j]
      BY <1>3 DEF Holds
    <3>2. Settle(h2)
      BY <1>1
    <3> HIDE DEF h2
    <3> QED BY <1>10, <3>1, <3>2 DEF Settle
  <2>2. got' = got
    BY <1>1, <1>10
  <2>3. SameBits(sock, {})
    BY <1>8, <1>10 DEF SameBits
  <2>4. Moves(held) /\ Lossless(held)
    BY <1>3, <2>1, <2>2, <2>3, ReleasedMoves DEF Histories
  <2> QED BY <1>3, <1>9, <2>1, <2>2, <2>4 DEF Histories
<1>11. CASE sock'[k].alloc
  <2> DEFINE y == [x EXCEPT !.wbuf = rest]
             h2 == [held EXCEPT ![k] = y]
             pre == SubSeq(q, 1, Len(q) - Len(rest))
  <2>1. /\ rest \in Seq(Piece) /\ (some <=> rest # <<>>)
        /\ pre \in Seq(Piece) /\ q = pre \o rest
    <3>1. some \in BOOLEAN
      OBVIOUS
    <3> HIDE DEF some, q, pre
    <3>2. q \in Seq(Piece) /\ rest \in Left(q, some)
      BY <1>1, <1>5
    <3>3. pre = SubSeq(q, 1, Len(q) - Len(rest))
      BY DEF pre
    <3> QED BY ONLY <3>1, <3>2, <3>3, LeftOf
  <2>2. y.rx = x.rx /\ y.rbuf = x.rbuf /\ y.wbuf = rest
    BY <1>5, <2>1
  <2> HIDE DEF y
  <2>3. Match(sock'[k], y)
    <3>1. Match(sock[k], x)
      BY <1>3 DEF Agree
    <3> QED BY <1>4, <1>11, <2>1, <2>2, <3>1 DEF Match
  <2>4. Agree(sock', h2)
    BY <1>3, <1>8, <2>3, AgreeOne DEF Holds
  <2>5. Settle(h2)
    BY <1>1 DEF y
  <2>6. CASE ~sock[k].ispriv
    <3>1. Client(k) /\ got' = got
      BY <1>1, <1>3, <2>6 DEF Client
    <3>2. Ordered(h2, got) /\ Bound(h2) /\ Covers(held, h2)
      BY <1>1, <1>3, <3>1, ClientWritten DEF y
    <3> HIDE DEF h2
    <3>3. Moves(h2) /\ Lossless(h2)
      BY <2>4, <2>5, <3>1, <3>2, CoversLossless DEF Moves
    <3> QED BY <1>3, <1>9, <2>5, <3>1, <3>3 DEF Histories
  <2>7. CASE sock[k].ispriv
    <3> DEFINE g2 == got \o Addressed(Numbered(pre), who[k])
    <3>1. Priv(k) /\ got' = g2 /\ who[k] \in Connections
      BY <1>1, <1>3, <1>11, <2>7 DEF Priv, WhoOK
    <3> HIDE DEF pre
    <3>2. g2 \in Seq(Delivered) /\ Ordered(h2, g2) /\ NoMore(held, h2)
      <4>1. held[k].wbuf = pre \o rest /\ got \in Seq(Delivered)
        BY <1>3, <2>1 DEF Histories
      <4> QED BY <1>3, <2>1, <3>1, <4>1, WrittenOrdered DEF y
    <3>3. Bound(h2)
      BY <1>3, <3>2, NoMoreBound
    <3>4. h2[k] = y /\ \A j \in Socks : j # k => h2[j] = held[j]
      BY <1>3 DEF Holds
    <3> HIDE DEF h2
    <3>5. Lossless(h2)
      <4> SUFFICES ASSUME NEW j \in Socks, sock[j].alloc, sock'[j].alloc, NEW z \in Within(held[j]), z.from # 0
                   PROVE  Reached(z)' \/ \E i \in Socks : sock'[i].alloc /\ z \in Within(h2[i])
        BY DEF Lossless
      <4>1. CASE j # k
        BY <3>4, <4>1
      <4>2. CASE j = k
        <5>1. held[k].wbuf = pre \o rest /\ got \in Seq(Delivered)
          BY <1>3, <2>1 DEF Histories
        <5>2. Arrives(z, g2) \/ z \in ToSet(rest)
          <6>1. z \in Within(held[k]) /\ Ordered(held, got) /\ Priv(k) /\ who[k] \in Connections
            BY <1>3, <3>1, <4>2
          <6>2. pre \in Seq(Piece) /\ rest \in Seq(Piece) /\ z.from # 0
            BY <2>1
          <6>3. g2 = got \o Addressed(Numbered(pre), who[k])
            OBVIOUS
          <6> HIDE DEF g2
          <6> QED BY ONLY <5>1, <6>1, <6>2, <6>3, k \in Socks, WrittenKept
        <5>3. z \in ToSet(rest) => z \in Within(h2[k])
          BY <2>2, <3>4 DEF Within
        <5> HIDE DEF g2
        <5> QED BY <1>11, <3>1, <5>2, <5>3 DEF Reached, Arrives
      <4> QED BY <4>1, <4>2
    <3>6. Moves(h2)
      BY <2>4, <2>5, <3>1, <3>2, <3>3 DEF Moves
    <3> QED BY <1>9, <2>5, <3>1, <3>2, <3>5, <3>6
  <2> QED BY <1>6, <2>6, <2>7
<1> QED BY <1>10, <1>11

LEMMA StreamReadInv ==
    ASSUME IInv, IInv', PoolInv, StreamInv, NEW k \in Socks, StreamRead(k)
    PROVE  StreamInv' /\ Kept
<1> DEFINE r == sock[k].tunnel
<1>1. HeapInv /\ HeapInv' /\ WhoOK /\ Histories
  BY DEF IInv, StreamInv
<1>2. Effect(r) /\ given' \in Seq(Note) /\ \E h : Moves(h) /\ Lossless(h)
  BY <1>1, StreamReadStep
<1>3. /\ sock[k].alloc /\ UNCHANGED <<dials, who, sent, got>> /\ r \in Tunnels
      /\ served' = IF tun[r].state = "request_state" /\ tun'[r].state = "connected_state" /\ tun[r].remote # NULL
                   THEN served \cup {who[tun[r].remote]} ELSE served
  BY <1>1 DEF StreamRead, ReadHandle, Unsent, HeapInv, SockInTunnel
<1>4. Sides /\ BoundKept
  BY <1>1, <1>2, <1>3, EffectBound
<1>5. Histories'
  <2>1. tun[r].remote # NULL => who[tun[r].remote] \in Clients
    <3>1. tun[r].remote # NULL => tun[r].remote \in Socks /\ Client(tun[r].remote)
      BY <1>1, <1>3, EndsOf
    <3> QED BY <1>1, <3>1 DEF WhoOK, Clients, Arrived
  <2> QED BY <1>1, <1>2, <1>3, <2>1 DEF Histories
<1>6. PICK h : Moves(h) /\ Lossless(h)
  BY <1>2
<1>7. StreamInv'
  BY <1>3, <1>4, <1>5, <1>6, MovedInv
<1> QED BY <1>6, <1>7 DEF Kept, Moves

----------------------------------------------------------------------------
(* Steps that move no bytes.                                               *)

LEMMA SameHeld ==
    ASSUME StreamInv, UNCHANGED held, \A j \in Socks : ~sock'[j].alloc => ~sock[j].alloc
    PROVE  Settle(held)
<1>1. held = [j \in Socks |-> held[j]]
  BY DEF StreamInv
<1>2. \A j \in Socks : held[j] = IF sock'[j].alloc THEN held[j] ELSE Nothing
  BY DEF StreamInv, Freed
<1> QED BY <1>1, <1>2 DEF Settle

\* Only the batch, the walk, or what the kernel knows of a peer changes.
LEMMA IdleStep ==
    ASSUME IInv, StreamInv, fault = "none", UNCHANGED <<tun, dials, held, who, sent, got, given, served>>,
           \A j \in Socks : \/ sock'[j] = sock[j]
                            \/ /\ sock[j].alloc
                               /\ sock'[j].alloc = sock[j].alloc /\ sock'[j].ispriv = sock[j].ispriv
                               /\ sock'[j].tunnel = sock[j].tunnel /\ Bits(sock[j], sock'[j])
    PROVE  StreamInv' /\ Kept
<1>1. HeapInv /\ Empty(sock) /\ Histories
  BY Standing DEF IInv, StreamInv
<1>2. Sides
  BY <1>1 DEF Sides, Empty
<1>3. BoundKept
  <2>1. \A j \in Socks : sock'[j].tunnel = sock[j].tunnel
    OBVIOUS
  <2> QED BY <2>1 DEF BoundKept
<1>4. SameBits(sock, {})
  BY DEF SameBits, Bits
<1>5. Settle(held)
  BY SameHeld
<1>6. Moves(held) /\ Lossless(held)
  BY <1>1, <1>4, <1>5, ReleasedMoves
<1>7. Histories'
  BY <1>1 DEF Histories
<1>8. StreamInv'
  BY <1>2, <1>3, <1>6, <1>7, MovedInv
<1> QED BY <1>5, <1>6, <1>8 DEF Kept

LEMMA QuietStep ==
    ASSUME IInv, StreamInv,
           \/ EpollWait \/ PairSkip \/ PairingDone \/ \E l \in Listeners : AcceptFails(l)
           \/ \E k \in Socks : StaleEvent(k) \/ PeerFin(k) \/ PeerReset(k),
           Same, Unsent, UNCHANGED <<who, served>>
    PROVE  StreamInv' /\ Kept
<1>1. UNCHANGED <<held, who, sent, got, given, served>>
  BY DEF Same, Unsent
<1>2. CASE EpollWait \/ PairSkip \/ PairingDone \/ (\E l \in Listeners : AcceptFails(l)) \/ \E k \in Socks : StaleEvent(k)
  <2>1. fault = "none" /\ UNCHANGED <<tun, dials, sock>>
    BY <1>2 DEF EpollWait, PairSkip, PairingDone, AcceptFails, StaleEvent, Consume, Crash, Running
  <2> QED BY <1>1, <2>1, IdleStep
<1>3. ASSUME NEW k \in Socks, PeerFin(k) \/ PeerReset(k)
      PROVE  StreamInv' /\ Kept
  <2>1. fault = "none" /\ UNCHANGED <<tun, dials>> /\ sock[k].alloc
    BY <1>3 DEF PeerFin, PeerReset, Peer
  <2>2. sock \in [Socks -> Sock] /\ sock[k] \in Sock
    BY DEF IInv, HeapInv
  <2>3. /\ \A j \in Socks : j # k => sock'[j] = sock[j]
        /\ \/ sock'[k] = [sock[k] EXCEPT !.peer = "fin"]
           \/ sock'[k] = [sock[k] EXCEPT !.peer = "rst"]
    BY <1>3, <2>2 DEF PeerFin, PeerReset
  <2>4. /\ sock'[k].alloc = sock[k].alloc /\ sock'[k].ispriv = sock[k].ispriv
        /\ sock'[k].tunnel = sock[k].tunnel /\ Bits(sock[k], sock'[k])
    BY <2>2, <2>3 DEF Sock, Bits
  <2> QED BY <1>1, <2>1, <2>3, <2>4, IdleStep
<1> QED BY <1>2, <1>3

----------------------------------------------------------------------------
(* What the peers send.                                                    *)

SentGrow == /\ sent' \in [Clients \cup {0} -> Nat]
            /\ \A c \in Clients : sent[c] <= sent'[c] /\ (c > Arrived => sent'[c] = 0)

SentBy(q, f) == \A i \in DOMAIN q : q[i].from # 0 => q[i].n <= f[q[i].from]

LEMMA SentGrows ==
    ASSUME WhoOK, SentGrow, NEW q \in Seq(Piece), Sent(q)
    PROVE  SentBy(q, sent')
<1> SUFFICES ASSUME NEW i \in DOMAIN q, q[i].from # 0
             PROVE  q[i].n <= sent'[q[i].from]
  BY DEF SentBy
<1>1. q[i] \in Piece
  BY LenProperties, ElementOfSeq
<1>2. q[i].from \in Clients /\ q[i].n \in Nat
  BY <1>1 DEF Piece
<1>3. q[i].n <= sent[q[i].from]
  BY DEF Sent
<1>4. sent[q[i].from] \in Nat /\ sent'[q[i].from] \in Nat /\ sent[q[i].from] <= sent'[q[i].from]
  BY <1>2 DEF WhoOK, SentGrow
<1> QED BY <1>2, <1>3, <1>4

LEMMA InLineNext ==
    ASSUME Sorted(got'), SentBy(got', sent'),
           \A p \in Socks : Priv(p)' => /\ Sorted(held'[p].wbuf) /\ SentBy(held'[p].wbuf, sent')
                                        /\ Before(got', held'[p].wbuf),
           \A k \in Socks : Client(k)' => /\ Sorted(Coming(held'[k])) /\ SentBy(Coming(held'[k]), sent')
                                          /\ Before(got', Coming(held'[k])),
           \A p, k \in Socks : Priv(p)' /\ Client(k)' => Before(held'[p].wbuf, Coming(held'[k]))
    PROVE  InLine(held, got)'
<1>1. Sent(got)'
  BY DEF Sent, SentBy
<1>2. \A p \in Socks : Priv(p)' => Sent(held[p].wbuf)'
  BY DEF Sent, SentBy
<1>3. \A k \in Socks : Client(k)' => Sent(Coming(held[k]))'
  BY DEF Sent, SentBy
<1> QED BY <1>1, <1>2, <1>3 DEF InLine

\* One socket is sent something, the rest is as before.
LEMMA SentInv ==
    ASSUME HeapInv, StreamInv, SentGrow, NEW k \in Socks, sock[k].alloc, NEW y,
           held' = [held EXCEPT ![k] = y],
           sock' = [sock EXCEPT ![k] = [@ EXCEPT !.rx = TRUE]],
           UNCHANGED <<tun, dials, fault, who, got, given, served>>,
           HoldsAt(k, y), y.rx # <<>>, y.rbuf = held[k].rbuf, y.wbuf = held[k].wbuf,
           Priv(k) => FirstAt(y, k, got),
           Client(k) => /\ Sorted(Coming(y)) /\ SentBy(Coming(y), sent') /\ Before(got, Coming(y))
                        /\ \A p \in Socks : Priv(p) => Before(held[p].wbuf, Coming(y))
    PROVE  StreamInv'
<1>1. /\ sock \in [Socks -> Sock] /\ sock[k] \in Sock /\ held \in [Socks -> Buffers] /\ y \in Buffers
      /\ WhoOK /\ Ordered(held, got) /\ Bound(held) /\ Histories /\ Freed(held) /\ BuffersAgree
  BY DEF HeapInv, StreamInv, HoldsAt, Buffers, Ordered, Fine
<1>2. held'[k] = y /\ \A j \in Socks : j # k => held'[j] = held[j]
  BY <1>1
<1>3. /\ \A j \in Socks : j # k => sock'[j] = sock[j]
      /\ sock'[k].alloc = sock[k].alloc /\ sock'[k].ispriv = sock[k].ispriv /\ sock'[k].tunnel = sock[k].tunnel
      /\ sock'[k].rx = TRUE /\ sock'[k].rbuf = sock[k].rbuf /\ sock'[k].wbuf = sock[k].wbuf
  <2>1. sock'[k] = [sock[k] EXCEPT !.rx = TRUE] /\ \A j \in Socks : j # k => sock'[j] = sock[j]
    BY <1>1
  <2> QED BY <1>1, <2>1 DEF Sock
<1>4. \A j \in Socks : (Priv(j)' <=> Priv(j)) /\ (Client(j)' <=> Client(j)) /\ sock'[j].tunnel = sock[j].tunnel
  BY <1>3 DEF Priv, Client
<1>5. held' \in [Socks -> Buffers] /\ Histories'
  <2>1. held' \in [Socks -> Buffers]
    BY <1>1
  <2> QED BY <1>1, <2>1 DEF Histories
<1>6. WhoOK'
  BY <1>1, <1>4 DEF WhoOK, SentGrow, Arrived, Opened
<1>7. Freed(held)'
  BY <1>1, <1>2, <1>3 DEF Freed
<1>8. BuffersAgree'
  <2> SUFFICES ASSUME NEW j \in Socks, fault' = "none"
               PROVE  Match(sock'[j], held'[j])
    BY DEF BuffersAgree, Match
  <2>1. Match(sock[j], held[j])
    BY <1>1 DEF BuffersAgree, Match
  <2>2. CASE j = k
    BY <1>2, <1>3, <2>1, <2>2 DEF Match
  <2>3. CASE j # k
    BY <1>2, <1>3, <2>1, <2>3
  <2> QED BY <2>2, <2>3
<1>9. Holds(held)' /\ HandshakeFirst(held, got)'
  <2>1. ASSUME NEW j \in Socks
        PROVE  HoldsAt(j, held[j])' /\ (Priv(j)' => FirstAt(held[j], j, got)')
    <3>1. HoldsAt(j, held'[j]) /\ (Priv(j) => FirstAt(held'[j], j, got))
      BY <1>1, <1>2 DEF Ordered, Fine, Holds, HandshakeFirst
    <3>2. Request(who[j])' = Request(who[j])
      BY DEF Request
    <3>3. FirstAt(held[j], j, got)' <=> FirstAt(held'[j], j, got)
      BY DEF FirstAt, Unasked
    <3> QED BY <1>4, <3>1, <3>2, <3>3 DEF HoldsAt
  <2>2. DOMAIN held' = Socks
    BY <1>5
  <2> QED BY <2>1, <2>2 DEF Holds, HandshakeFirst
<1>10. \A p \in Socks : held'[p].wbuf = held[p].wbuf
  BY <1>2
<1>11. InLine(held, got)'
  <2>1. Sorted(got') /\ SentBy(got', sent')
    <3>1. Sorted(got) /\ Sent(got) /\ got \in Seq(Piece)
      BY <1>1, Pieces, SeqMonotonic DEF Ordered, InLine, Histories
    <3> QED BY <1>1, <3>1, SentGrows
  <2>2. ASSUME NEW p \in Socks, Priv(p)
        PROVE  Sorted(held'[p].wbuf) /\ SentBy(held'[p].wbuf, sent') /\ Before(got', held'[p].wbuf)
    <3>1. Sorted(held[p].wbuf) /\ Sent(held[p].wbuf) /\ Before(got, held[p].wbuf)
      BY <1>1, <2>2 DEF Ordered, InLine
    <3>2. held[p].wbuf \in Seq(Piece)
      BY <1>1 DEF Buffers
    <3> QED BY <1>1, <1>10, <3>1, <3>2, SentGrows
  <2>3. ASSUME NEW j \in Socks, Client(j)
        PROVE  /\ Sorted(Coming(held'[j])) /\ SentBy(Coming(held'[j]), sent') /\ Before(got', Coming(held'[j]))
               /\ \A p \in Socks : Priv(p) => Before(held'[p].wbuf, Coming(held'[j]))
    <3>1. CASE j = k
      BY <1>2, <1>10, <2>3, <3>1
    <3>2. CASE j # k
      <4>1. held'[j] = held[j]
        BY <1>2, <3>2
      <4>2. /\ Sorted(Coming(held[j])) /\ Sent(Coming(held[j])) /\ Before(got, Coming(held[j]))
            /\ \A p \in Socks : Priv(p) => Before(held[p].wbuf, Coming(held[j]))
        BY <1>1, <2>3 DEF Ordered, InLine
      <4>3. Coming(held[j]) \in Seq(Piece)
        <5>1. held[j].rbuf \in Seq(Piece) /\ held[j].rx \in Seq(Piece)
          BY <1>1 DEF Buffers
        <5> QED BY <5>1, ConcatProperties DEF Coming
      <4> QED BY <1>1, <1>10, <4>1, <4>2, <4>3, SentGrows
    <3> QED BY <3>1, <3>2
  <2> QED BY <1>4, <2>1, <2>2, <2>3, InLineNext
<1>12. \A c : \A p \in Socks : Carries(held, p, c)' <=> Carries(held, p, c)
  BY <1>10 DEF Carries
<1>13. OneCarrier(held)'
  <2>1. OneCarrier(held)
    BY <1>1 DEF Ordered
  <2> QED BY <1>4, <1>12, <2>1 DEF OneCarrier
<1>14. Bound(held)'
  BY <1>1, <1>4, <1>12 DEF Bound
<1> QED BY <1>5, <1>6, <1>7, <1>8, <1>9, <1>11, <1>13, <1>14 DEF StreamInv

LEMMA OnePiece ==
    ASSUME NEW z
    PROVE  /\ DOMAIN <<z>> = {1} /\ <<z>>[1] = z /\ <<z>> # <<>>
           /\ \A S : z \in S => <<z>> \in Seq(S)
           /\ Sorted(<<z>>) /\ HeadOnly(<<z>>)
<1> DEFINE q == <<z>>
<1>1. DOMAIN q = {1} /\ q[1] = z /\ q # <<>>
  OBVIOUS
<1>2. \A S : z \in S => q \in Seq(S)
  OBVIOUS
<1> HIDE DEF q
<1>3. Sorted(q) /\ HeadOnly(q)
  BY <1>1 DEF Sorted, HeadOnly
<1> QED BY <1>1, <1>2, <1>3 DEF q

LEMMA SentBefore ==
    ASSUME WhoOK, NEW q \in Seq(Piece), Sent(q), NEW c \in Clients, NEW z, z.from = c, z.n = sent[c] + 1
    PROVE  Before(q, <<z>>)
<1>1. DOMAIN <<z>> = {1} /\ <<z>>[1] = z
  BY OnePiece
<1> SUFFICES ASSUME NEW i \in DOMAIN q, q[i].from = c
             PROVE  q[i].n < z.n
  BY <1>1 DEF Before
<1>2. q[i] \in Piece
  BY LenProperties, ElementOfSeq
<1>3. q[i].n \in Nat /\ c \in Nat \ {0}
  BY <1>2 DEF Piece, Clients
<1>4. q[i].n <= sent[c] /\ sent[c] \in Nat
  BY <1>3 DEF Sent, WhoOK
<1> QED BY <1>3, <1>4

LEMMA PeerSends ==
    ASSUME IInv, StreamInv, NEW k \in Socks, PeerSend(k)
    PROVE  /\ HeapInv /\ sock[k].alloc /\ fault = "none" /\ held[k].rx = <<>> /\ held \in [Socks -> Buffers]
           /\ sock' = [sock EXCEPT ![k] = [@ EXCEPT !.rx = TRUE]]
           /\ UNCHANGED <<tun, dials, fault>>
           /\ held[k] \in Buffers /\ HoldsAt(k, held[k]) /\ (Priv(k) => FirstAt(held[k], k, got))
           /\ WhoOK
<1>1. sock[k].alloc /\ fault = "none" /\ ~sock[k].rx
  BY DEF PeerSend, Peer
<1>2. HeapInv /\ UNCHANGED <<tun, dials, fault>> /\ sock' = [sock EXCEPT ![k] = [@ EXCEPT !.rx = TRUE]]
  BY DEF PeerSend, Peer, IInv
<1>3. held[k].rx = <<>>
  BY <1>1 DEF StreamInv, BuffersAgree
<1> QED BY <1>1, <1>2, <1>3 DEF StreamInv, Holds, HandshakeFirst

\* What a peer sends is added to what its sock_t holds.
LEMMA SentKept ==
    ASSUME StreamInv, NEW k \in Socks, sock[k].alloc, held[k].rx = <<>>, NEW y,
           y.rbuf = held[k].rbuf, y.wbuf = held[k].wbuf, held' = [held EXCEPT ![k] = y],
           \A j \in Socks : sock'[j].alloc = sock[j].alloc
    PROVE  Kept
<1> DEFINE h2 == [held EXCEPT ![k] = y]
<1>1. h2 = [j \in Socks |-> h2[j]] /\ h2[k] = y /\ \A j \in Socks : j # k => h2[j] = held[j]
  BY DEF StreamInv
<1>2. Covers(held, h2)
  <2>1. ToSet(<<>>) = {}
    BY DEF ToSet
  <2> QED BY <2>1, OneCovered DEF StreamInv
<1> HIDE DEF h2
<1>3. \A j \in Socks : h2[j] = IF sock'[j].alloc THEN h2[j] ELSE Nothing
  BY <1>1 DEF StreamInv, Freed
<1>4. Settle(h2)
  BY <1>1, <1>3 DEF Settle, h2
<1> QED BY <1>2, <1>4, CoversLossless DEF Kept

LEMMA SocksStay ==
    ASSUME HeapInv, NEW k \in Socks, sock' = [sock EXCEPT ![k] = [@ EXCEPT !.rx = TRUE]]
    PROVE  \A j \in Socks : sock'[j].alloc = sock[j].alloc
<1>1. sock \in [Socks -> Sock] /\ sock[k] \in Sock
  BY DEF HeapInv
<1>2. sock'[k] = [sock[k] EXCEPT !.rx = TRUE] /\ \A j \in Socks : j # k => sock'[j] = sock[j]
  BY <1>1
<1>3. sock'[k].alloc = sock[k].alloc
  BY <1>1, <1>2 DEF Sock
<1> QED BY <1>2, <1>3

LEMMA ClientSendsInv ==
    ASSUME IInv, StreamInv, NEW k \in Socks, ClientSends(k)
    PROVE  StreamInv' /\ Kept
<1> DEFINE c == who[k]
           z == [from |-> c, n |-> sent[c] + 1, to |-> 0]
           x == held[k]
           b == x.rbuf
           y == [x EXCEPT !.rx = <<z>>]
<1>1. /\ HeapInv /\ sock[k].alloc /\ fault = "none" /\ x.rx = <<>> /\ held \in [Socks -> Buffers]
      /\ sock' = [sock EXCEPT ![k] = [@ EXCEPT !.rx = TRUE]]
      /\ UNCHANGED <<tun, dials, fault>>
      /\ x \in Buffers /\ HoldsAt(k, x) /\ WhoOK
  BY PeerSends DEF ClientSends
<1>2. /\ Client(k) /\ ~Priv(k) /\ sent[c] < MaxPieces /\ UNCHANGED <<who, got, given, served>>
      /\ sent' = [sent EXCEPT ![c] = @ + 1]
      /\ held' = [held EXCEPT ![k] = y]
  BY <1>1 DEF ClientSends, Client, Priv
<1>3. c \in 1..Arrived /\ c \in Clients /\ sent[c] \in Nat /\ sent \in [Clients \cup {0} -> Nat]
  BY <1>1, <1>2 DEF WhoOK, Clients, Arrived
<1>4. z \in Request(c) /\ z \in Piece /\ z.from = c /\ z.n = sent[c] + 1
  <2>1. z \in Request(c)
    BY <1>2, <1>3 DEF Request
  <2>2. z \in Piece
    BY <1>3, <2>1, Pieces
  <2> QED BY <2>1, <2>2
<1>5. SentGrow
  <2>1. /\ sent' \in [Clients \cup {0} -> Nat] /\ sent'[c] = sent[c] + 1
        /\ \A d \in Clients : d # c => sent'[d] = sent[d]
    BY <1>2, <1>3
  <2>2. \A d \in Clients : sent[d] \in Nat /\ (d > Arrived => sent[d] = 0 /\ d # c)
    <3>1. Arrived \in Int /\ \A d \in Clients : d \in Nat
      BY DEF Arrived, Clients, IInv, LoopOK, Listeners
    <3>2. c <= Arrived /\ c \in Nat
      BY <1>3, <3>1
    <3>3. \A d \in Clients : sent[d] \in Nat /\ (d > Arrived => sent[d] = 0)
      BY <1>1 DEF WhoOK
    <3>4. \A d \in Clients : d > Arrived => d # c
      BY <3>1, <3>2
    <3> QED BY <3>3, <3>4
  <2>3. \A d \in Clients : sent[d] <= sent'[d] /\ (d > Arrived => sent'[d] = 0)
    <3> SUFFICES ASSUME NEW d \in Clients
                 PROVE  sent[d] <= sent'[d] /\ (d > Arrived => sent'[d] = 0)
      OBVIOUS
    <3>1. CASE d = c
      BY <1>3, <2>1, <2>2, <3>1
    <3>2. CASE d # c
      BY <2>1, <2>2, <3>2
    <3> QED BY <3>1, <3>2
  <2> QED BY <2>1, <2>3 DEF SentGrow
<1>6. /\ DOMAIN <<z>> = {1} /\ <<z>>[1] = z /\ <<z>> # <<>> /\ <<z>> \in Seq(Piece) /\ <<z>> \in Seq(Request(c))
      /\ Sorted(<<z>>)
  <2> HIDE DEF z
  <2> QED BY <1>4, OnePiece
<1> HIDE DEF z
<1>7. y.rx = <<z>> /\ y.rbuf = b /\ y.wbuf = x.wbuf /\ y \in Buffers
  BY <1>1, <1>6 DEF Buffers
<1> HIDE DEF y
<1>8. HoldsAt(k, y)
  BY <1>1, <1>2, <1>6, <1>7 DEF HoldsAt, Buffers
<1>9. /\ b \in Seq(Piece) /\ Coming(x) = b /\ Coming(y) = b \o <<z>>
  <2>1. b \in Seq(Piece)
    BY <1>1 DEF Buffers
  <2>2. b \o <<>> = b
    BY <2>1, ConcatEmptySeq
  <2> QED BY <1>1, <1>7, <2>1, <2>2 DEF Coming
<1>10. /\ Sorted(b) /\ Sent(b) /\ Before(got, b)
       /\ \A p \in Socks : Priv(p) => Before(held[p].wbuf, b) /\ Sent(held[p].wbuf)
       /\ Sent(got) /\ got \in Seq(Piece)
  <2>1. InLine(held, got) /\ got \in Seq(Delivered)
    BY DEF StreamInv, Histories
  <2>2. got \in Seq(Piece)
    BY <2>1, Pieces, SeqMonotonic
  <2> QED BY <1>2, <1>9, <2>1, <2>2 DEF InLine
<1> HIDE DEF b
<1>11. \A q \in Seq(Piece) : Sent(q) => Before(q, <<z>>)
  BY <1>1, <1>3, <1>4, SentBefore
<1>12. Sorted(Coming(y)) /\ Before(got, Coming(y))
  <2>1. /\ Sorted(b \o <<z>>) <=> Sorted(b) /\ Sorted(<<z>>) /\ Before(b, <<z>>)
        /\ Before(got, b \o <<z>>) <=> Before(got, b) /\ Before(got, <<z>>)
    BY <1>6, <1>9, ConcatSorted, ConcatBefore, ZenonT(30)
  <2> QED BY <1>6, <1>9, <1>10, <1>11, <2>1
<1>13. \A p \in Socks : Priv(p) => Before(held[p].wbuf, Coming(y))
  <2> SUFFICES ASSUME NEW p \in Socks, Priv(p)
               PROVE  Before(held[p].wbuf, b \o <<z>>)
    BY <1>9
  <2>1. held[p].wbuf \in Seq(Piece)
    BY <1>1 DEF Buffers
  <2>2. \A e : Before(e, b \o <<z>>) <=> Before(e, b) /\ Before(e, <<z>>)
    BY <1>6, <1>9, ConcatBefore
  <2> QED BY <1>10, <1>11, <2>1, <2>2
<1>14. SentBy(Coming(y), sent')
  <2>1. SentBy(b, sent')
    BY <1>1, <1>5, <1>9, <1>10, SentGrows
  <2>2. sent'[c] = sent[c] + 1
    BY <1>2, <1>3
  <2> SUFFICES ASSUME NEW i \in DOMAIN (b \o <<z>>), (b \o <<z>>)[i].from # 0
               PROVE  (b \o <<z>>)[i].n <= sent'[(b \o <<z>>)[i].from]
    BY <1>9 DEF SentBy
  <2>3. \/ i \in DOMAIN b /\ (b \o <<z>>)[i] = b[i]
        \/ \E j \in DOMAIN <<z>> : (b \o <<z>>)[i] = <<z>>[j]
    BY <1>6, <1>9, ConcatAt
  <2>4. CASE i \in DOMAIN b /\ (b \o <<z>>)[i] = b[i]
    BY <2>1, <2>4 DEF SentBy
  <2>5. CASE (b \o <<z>>)[i] = z
    BY <1>3, <1>4, <2>2, <2>5
  <2> QED BY <1>6, <2>3, <2>4, <2>5
<1>15. StreamInv'
  BY <1>1, <1>2, <1>5, <1>6, <1>7, <1>8, <1>12, <1>13, <1>14, SentInv DEF b, x
<1>16. Kept
  BY <1>1, <1>2, <1>7, SentKept, SocksStay DEF b, x
<1> QED BY <1>15, <1>16

\* The private side sends a piece z of an answer, or of its handshake while it has got nothing.
LEMMA PrivateSendsInv ==
    ASSUME IInv, StreamInv, NEW k \in Socks, sock[k].ispriv, PeerSend(k), NEW z \in Named(Answers),
           held' = [held EXCEPT ![k] = [@ EXCEPT !.rx = <<z>>]],
           z = Anonymous <=> Unasked(k, got), SentGrow, UNCHANGED <<who, got, given, served>>
    PROVE  StreamInv' /\ Kept
<1> DEFINE x == held[k]
           y == [x EXCEPT !.rx = <<z>>]
<1>1. /\ HeapInv /\ sock[k].alloc /\ fault = "none" /\ x.rx = <<>> /\ held \in [Socks -> Buffers]
      /\ sock' = [sock EXCEPT ![k] = [@ EXCEPT !.rx = TRUE]]
      /\ UNCHANGED <<tun, dials, fault>>
      /\ x \in Buffers /\ HoldsAt(k, x) /\ FirstAt(x, k, got) /\ Priv(k) /\ ~Client(k)
  BY PeerSends DEF Priv, Client
<1>2. held' = [held EXCEPT ![k] = y]
  BY <1>1
<1>3. /\ DOMAIN <<z>> = {1} /\ <<z>>[1] = z /\ <<z>> # <<>> /\ <<z>> \in Seq(Piece)
      /\ <<z>> \in Seq(Named(Answers)) /\ HeadOnly(<<z>>)
  BY OnePiece, Pieces
<1>4. y.rx = <<z>> /\ y.rbuf = x.rbuf /\ y.wbuf = x.wbuf /\ y \in Buffers
  BY <1>1, <1>3 DEF Buffers
<1> HIDE DEF y
<1>5. HoldsAt(k, y)
  BY <1>1, <1>3, <1>4 DEF HoldsAt, Buffers
<1>6. FirstAt(y, k, got)
  BY <1>1, <1>3, <1>4 DEF FirstAt, Nobodys
<1>7. StreamInv'
  BY <1>1, <1>2, <1>3, <1>4, <1>5, <1>6, SentInv
<1>8. Kept
  BY <1>1, <1>2, <1>4, SentKept, SocksStay
<1> QED BY <1>7, <1>8

LEMMA AskedOf ==
    ASSUME StreamInv, NEW k \in Socks
    PROVE  /\ Asked(k) \subseteq Clients
           /\ Asked(k) = {} <=> Unasked(k, got)
<1>1. got \in Seq(Delivered)
  BY DEF StreamInv, Histories
<1>2. \A i \in DOMAIN got : got[i].from \in Clients
  <2>1. \A i \in DOMAIN got : got[i] \in Delivered
    BY <1>1, LenProperties, ElementOfSeq
  <2> QED BY <2>1 DEF Delivered
<1> QED BY <1>2 DEF Asked, Unasked

LEMMA PrivateInv ==
    ASSUME IInv, StreamInv, NEW k \in Socks, PrivateShakes(k) \/ PrivateAnswers(k)
    PROVE  StreamInv' /\ Kept
<1>1. WhoOK /\ sent \in [Clients \cup {0} -> Nat]
  BY DEF StreamInv, WhoOK
<1>2. CASE PrivateShakes(k)
  <2>1. SentGrow
    BY <1>1, <1>2 DEF PrivateShakes, WhoOK, SentGrow
  <2>2. Unasked(k, got) /\ Anonymous \in Named(Answers)
    BY <1>2, AskedOf DEF PrivateShakes, Named
  <2>3. /\ sock[k].ispriv /\ PeerSend(k) /\ UNCHANGED <<who, got, given, served>>
        /\ held' = [held EXCEPT ![k] = [@ EXCEPT !.rx = <<Anonymous>>]]
    BY <1>2 DEF PrivateShakes
  <2> QED BY <2>1, <2>2, <2>3, PrivateSendsInv
<1>3. CASE PrivateAnswers(k)
  <2>1. PICK c \in Asked(k) :
          held' = [held EXCEPT ![k] = [@ EXCEPT !.rx = <<[from |-> 0, n |-> sent[0] + 1, to |-> c]>>]]
    BY <1>3 DEF PrivateAnswers
  <2> DEFINE z == [from |-> 0, n |-> sent[0] + 1, to |-> c]
  <2>2. z \in Answers /\ ~Unasked(k, got)
    <3>1. c \in Clients /\ ~Unasked(k, got) /\ sent[0] \in Nat /\ sent[0] < MaxAnswers
      BY <1>1, <1>3, AskedOf DEF PrivateAnswers
    <3> QED BY <3>1 DEF Answers
  <2>3. z \in Named(Answers) /\ z # Anonymous
    BY <2>2, NotAnonymous DEF Named
  <2>4. SentGrow
    <3>1. sent' \in [Clients \cup {0} -> Nat] /\ \A d \in Clients : sent'[d] = sent[d]
      BY <1>1, <1>3 DEF PrivateAnswers, Clients
    <3> QED BY <1>1, <3>1 DEF SentGrow, WhoOK
  <2>5. /\ sock[k].ispriv /\ PeerSend(k) /\ UNCHANGED <<who, got, given, served>>
        /\ held' = [held EXCEPT ![k] = [@ EXCEPT !.rx = <<z>>]]
    BY <1>3, <2>1 DEF PrivateAnswers
  <2> HIDE DEF z
  <2> QED BY <2>2, <2>3, <2>4, <2>5, PrivateSendsInv
<1> QED BY <1>2, <1>3

----------------------------------------------------------------------------
(* Pairing.                                                                *)

LEMMA CarryNothing ==
    ASSUME NEW h \in [Socks -> Buffers], NEW p \in Socks, NEW q \in Socks, h[p].rbuf = <<>>
    PROVE  Carried(h, p, q) = h
<1>1. h[q] \in Buffers /\ h[p] \in Buffers
  OBVIOUS
<1>2. Join(h[q].wbuf, h[p].rbuf) = h[q].wbuf
  <2>1. h[q].wbuf \in Seq(Piece)
    BY DEF Buffers
  <2>2. h[q].wbuf \o <<>> = h[q].wbuf
    BY <2>1, ConcatEmptySeq
  <2> QED BY <2>2 DEF Join
<1>3. [h[q] EXCEPT !.wbuf = h[q].wbuf] = h[q] /\ [h[p] EXCEPT !.rbuf = <<>>] = h[p]
  BY <1>1 DEF Buffers
<1>4. Carried(h, p, q) = [[h EXCEPT ![q] = [@ EXCEPT !.wbuf = h[q].wbuf]] EXCEPT ![p] = [@ EXCEPT !.rbuf = <<>>]]
  BY <1>2 DEF Carried
<1>5. [h EXCEPT ![q] = [@ EXCEPT !.wbuf = h[q].wbuf]] = h
  BY <1>3
<1> QED BY <1>3, <1>4, <1>5

\* The client a pairing finds: it waits, and has sent nothing that was not cleared.
LEMMA PairedClient ==
    ASSUME IInv, PoolInv, NEW i \in First(WaitPending)
    PROVE  LET w == waitList[i]
               k == tun[w].remote
           IN  /\ w \in Tunnels /\ tun[w].state = "tunnel_waitting" /\ ~InApp(w)
               /\ k \in Socks /\ Client(k) /\ sock[k].tunnel = w /\ ~sock[k].rbuf
               /\ tun[w].status = "tmptun_is_wait"
<1> DEFINE w == waitList[i]
           k == tun[w].remote
<1>1. HeapInv /\ ListsOK
  BY DEF IInv
<1>2. w \in Tunnels /\ InWait(w) /\ IsPending(tun[w])
  <2>1. i \in DOMAIN waitList /\ IsPending(tun[w])
    BY FirstIn DEF WaitPending
  <2> QED BY <1>1, <2>1 DEF ListsOK, InWait
<1>3. WaitT(tun[w]) /\ ParkedOK(tun[w], sock, batch) /\ ~InApp(w)
  BY <1>2 DEF PoolInv, TunnelsOK, ListsApart
<1>4. k # NULL
  BY <1>2, <1>3 DEF IsPending, WaitT
<1>5. k \in Socks /\ Client(k) /\ sock[k].tunnel = w
  BY <1>1, <1>2, <1>4, EndsOf
<1>6. ~sock[k].rbuf
  BY <1>3, <1>4 DEF ParkedOK
<1>7. tun[w].status = "tmptun_is_wait"
  BY <1>2, <1>6 DEF IsPending
<1> QED BY <1>2, <1>3, <1>5, <1>6, <1>7 DEF WaitT

\* What a pairing does: the client k of the entry w moves to the idle tunnel r.
Paired(w, r, k) ==
    /\ w # r /\ tun[w].remote = k /\ tun[w].state = "tunnel_waitting" /\ tun[w].status = "tmptun_is_wait"
    /\ Client(k) /\ sock[k].tunnel = w /\ sock'[k].tunnel = r
    /\ tun'[w].remote = NULL /\ tun'[r].remote = k
    /\ \A x \in Tunnels : x \notin {w, r} => tun'[x] = tun[x]
    /\ sock'[k].alloc /\ ~sock'[k].ispriv /\ Bits(sock[k], sock'[k])
    /\ \A j \in Socks : j # k => sock'[j] = sock[j]

LEMMA PairMoves ==
    ASSUME IInv, PoolInv, PairBind
    PROVE  \E w, r \in Tunnels, k \in Socks : Paired(w, r, k)
<1>1. HeapInv /\ LoopOK /\ AtIdle
  BY BindAt DEF IInv
<1> DEFINE r == appList[scan]
<1>2. r \in Tunnels /\ InApp(r)
  <2>1. scan \in DOMAIN appList
    BY <1>1, BindAt
  <2> QED BY ONLY <1>1, <2>1 DEF LoopOK, InApp
<1>3. PICK i \in First(WaitPending) :
        LET w == waitList[i]
            k == tun[w].remote
            p == tun[r].priv
        IN  /\ tun' = [[tun EXCEPT ![w] = LetGo(@, "tmptun_is_free")]
                         EXCEPT ![r] = [@ EXCEPT !.status = "tunn_is_run", !.remote = k]]
            /\ sock' = IF p # NULL /\ sock[k].rbuf
                       THEN [Relay(sock, k, p) EXCEPT ![k] = [@ EXCEPT !.tunnel = r]]
                       ELSE [sock EXCEPT ![k] = [@ EXCEPT !.tunnel = r]]
  BY DEF PairBind
<1> DEFINE w == waitList[i]
           k == tun[w].remote
<1>4. /\ w \in Tunnels /\ tun[w].state = "tunnel_waitting" /\ ~InApp(w)
      /\ k \in Socks /\ Client(k) /\ sock[k].tunnel = w /\ ~sock[k].rbuf
      /\ tun[w].status = "tmptun_is_wait"
  BY PairedClient
<1>5. w # r
  BY <1>2, <1>4
<1>6. tun \in [Tunnels -> Tunnel] /\ sock \in [Socks -> Sock] /\ tun[w] \in Tunnel /\ tun[r] \in Tunnel
      /\ sock[k] \in Sock
  BY <1>1, <1>2, <1>4 DEF HeapInv
<1>7. /\ tun' = [[tun EXCEPT ![w] = LetGo(@, "tmptun_is_free")]
                   EXCEPT ![r] = [@ EXCEPT !.status = "tunn_is_run", !.remote = k]]
      /\ sock' = [sock EXCEPT ![k] = [sock[k] EXCEPT !.tunnel = r]]
  BY <1>3, <1>4
<1> HIDE DEF r, w, k
<1>8. /\ tun'[w] = LetGo(tun[w], "tmptun_is_free")
      /\ tun'[r] = [tun[r] EXCEPT !.status = "tunn_is_run", !.remote = k]
      /\ \A x \in Tunnels : x \notin {w, r} => tun'[x] = tun[x]
  BY <1>2, <1>4, <1>5, <1>6, <1>7
<1>9. /\ sock'[k] = [sock[k] EXCEPT !.tunnel = r]
      /\ \A j \in Socks : j # k => sock'[j] = sock[j]
  BY <1>4, <1>6, <1>7
<1>10. tun'[w].remote = NULL /\ tun'[r].remote = k
  BY <1>6, <1>8 DEF LetGo, Tunnel
<1>11. /\ sock'[k].alloc = sock[k].alloc /\ sock'[k].ispriv = sock[k].ispriv /\ sock'[k].tunnel = r
       /\ Bits(sock[k], sock'[k])
  BY <1>6, <1>9 DEF Sock, Bits
<1>12. sock'[k].alloc /\ ~sock'[k].ispriv
  BY <1>4, <1>11 DEF Client
<1>13. tun[w].remote = k
  BY DEF k
<1>14. Paired(w, r, k)
  BY <1>4, <1>5, <1>8, <1>9, <1>10, <1>11, <1>12, <1>13 DEF Paired
<1> QED BY <1>2, <1>4, <1>14

\* ... and moves no bytes: it has sent none, or they were cleared.
LEMMA PairHeld ==
    ASSUME IInv, PoolInv, StreamInv, StreamPair, \A j \in Socks : sock'[j].alloc <=> sock[j].alloc
    PROVE  Settle(held) /\ given' = given
<1>1. HeapInv /\ LoopOK /\ held \in [Socks -> Buffers] /\ PairBind /\ AtIdle /\ fault = "none"
  BY BindAt DEF IInv, StreamInv, StreamPair, PairBind, Running
<1>2. PICK i \in First(WaitPending) :
         LET k == tun[waitList[i]].remote
             p == tun[appList[scan]].priv
         IN  IF p # NULL THEN Carry(held, k, p) ELSE Same
  BY DEF StreamPair
<1> DEFINE k == tun[waitList[i]].remote
           r == appList[scan]
           p == tun[r].priv
<1>3. k \in Socks /\ ~sock[k].rbuf
  BY PairedClient
<1>4. held[k].rbuf = <<>>
  BY <1>1, <1>3 DEF StreamInv, BuffersAgree
<1>5. r \in Tunnels
  <2>1. scan \in DOMAIN appList
    BY <1>1, BindAt
  <2> QED BY ONLY <1>1, <2>1 DEF LoopOK
<1>6. CASE p = NULL
  <2>1. UNCHANGED <<held, given>>
    BY <1>2, <1>6 DEF Same
  <2> QED BY <2>1, SameHeld
<1>7. CASE p # NULL
  <2>1. p \in Socks /\ Priv(p)
    BY <1>1, <1>5, <1>7, EndsOf
  <2>2. Settle(Carried(held, k, p)) /\ Give(held[k].rbuf, k, p)
    BY <1>2, <1>7 DEF Carry, Carried
  <2> HIDE DEF k, p
  <2>3. Carried(held, k, p) = held
    BY <1>1, <1>3, <1>4, <2>1, CarryNothing
  <2>4. given' = given
    BY <2>1, <2>2 DEF Give, Priv
  <2> QED BY <2>2, <2>3, <2>4
<1> QED BY <1>6, <1>7

LEMMA PairedBound ==
    ASSUME IInv, IInv', StreamInv, NEW w \in Tunnels, NEW r \in Tunnels, NEW k \in Socks, Paired(w, r, k),
           Settle(held), UNCHANGED who
    PROVE  Bound(held)'
<1>1. HeapInv /\ HeapInv' /\ Bound(held)
  BY DEF IInv, StreamInv
<1> SUFFICES ASSUME NEW p \in Socks, NEW j \in Socks, Priv(p)', Client(j)', Carries(held, p, who[j])',
                    tun'[sock'[j].tunnel].remote = j
             PROVE  LET u == tun'[sock'[j].tunnel]
                    IN  IF u.state = "tunnel_waitting" THEN u.status # "tmptun_is_wait" ELSE u.priv = p
  BY DEF Bound
<1>2. Priv(p) /\ Client(j) /\ held'[p] = held[p] /\ p # k
  BY SettledAt DEF Paired, Priv, Client
<1>3. Carries(held, p, who[j])
  BY <1>2 DEF Carries
<1>4. j # k
  BY <1>1, <1>2, <1>3 DEF Bound, Paired
<1>5. sock'[j] = sock[j] /\ sock[j].tunnel \in Tunnels /\ sock[j].alloc
  BY <1>1, <1>2, <1>4 DEF Paired, HeapInv, SockInTunnel, Client
<1>6. sock[j].tunnel \notin {w, r}
  BY <1>4, <1>5 DEF Paired
<1>7. tun'[sock[j].tunnel] = tun[sock[j].tunnel]
  BY <1>5, <1>6 DEF Paired
<1> QED BY <1>1, <1>2, <1>3, <1>5, <1>7 DEF Bound

LEMMA PairSides ==
    ASSUME IInv, IInv', StreamInv, NEW w, NEW r, NEW k \in Socks, Paired(w, r, k)
    PROVE  Sides /\ SameBits(sock, {}) /\ \A j \in Socks : sock'[j].alloc <=> sock[j].alloc
<1>1. /\ sock'[k].alloc /\ sock[k].alloc /\ ~sock'[k].ispriv /\ ~sock[k].ispriv /\ Bits(sock[k], sock'[k])
      /\ \A j \in Socks : j # k => sock'[j] = sock[j]
  BY DEF Paired, Client
<1>2. sock[k].ispriv \in BOOLEAN /\ sock'[k].ispriv \in BOOLEAN
  BY DEF IInv, HeapInv, Sock
<1>3. Empty(sock)
  BY Standing DEF IInv
<1>4. Sides
  BY <1>1, <1>2, <1>3 DEF Sides, Empty
<1>5. SameBits(sock, {})
  BY <1>1 DEF SameBits, Bits
<1> QED BY <1>1, <1>4, <1>5

LEMMA StreamPairInv ==
    ASSUME IInv, IInv', PoolInv, StreamInv, StreamPair
    PROVE  StreamInv' /\ Kept
<1>1. /\ HeapInv /\ Ordered(held, got) /\ Bound(held) /\ Empty(sock) /\ (fault = "none" => Agree(sock, held))
      /\ WhoOK /\ Histories
  BY Standing DEF IInv, StreamInv
<1>2. PairBind /\ UNCHANGED <<dials, fault, who, sent, got, served>> /\ fault = "none"
  BY DEF StreamPair, PairBind, Unsent, Running
<1>3. PICK w \in Tunnels, r \in Tunnels, k \in Socks : Paired(w, r, k)
  BY <1>2, PairMoves
<1>4. Sides /\ SameBits(sock, {}) /\ \A j \in Socks : sock'[j].alloc <=> sock[j].alloc
  BY <1>3, PairSides
<1>5. Settle(held) /\ given' = given
  BY <1>4, PairHeld
<1>6. Agree(sock', held)
  BY <1>1, <1>2, <1>4, AgreeKept
<1>7. Holds(held)' /\ HandshakeFirst(held, got)' /\ InLine(held, got)' /\ OneCarrier(held)'
  <2>1. Ordered(held, got')
    BY <1>1, <1>2
  <2> QED BY <1>2, <1>4, <1>5, <2>1, MovedOrder
<1>8. Bound(held)'
  BY <1>2, <1>3, <1>5, PairedBound
<1>9. BuffersAgree' /\ Freed(held)' /\ WhoOK' /\ held' \in [Socks -> Buffers]
  BY <1>1, <1>2, <1>4, <1>5, <1>6, <1>7, MovedAgree, MovedWho, MovedHeld
<1>10. Histories'
  BY <1>1, <1>2, <1>5 DEF Histories
<1>11. Lossless(held)
  BY <1>1, CoversSelf, CoversLossless
<1> QED BY <1>5, <1>7, <1>8, <1>9, <1>10, <1>11 DEF StreamInv, Kept

----------------------------------------------------------------------------
(* Accepting.                                                              *)

\* What an accepted connection is: a socket k that holds nothing, of a tunnel r that was
\* nobody's or that k is bound to.
Accepted(k, r) ==
    /\ ~sock[k].alloc /\ sock'[k].alloc /\ sock'[k].tunnel = r
    /\ ~sock'[k].rx /\ ~sock'[k].rbuf /\ ~sock'[k].wbuf
    /\ \A j \in Socks : j # k => sock'[j] = sock[j]
    /\ tun'[r].remote \in {NULL, k}
    /\ \A x \in Tunnels : x # r => tun'[x] = tun[x]

LEMMA NewSockHolds ==
    ASSUME NEW r, NEW ispriv
    PROVE  LET b == NewSock(r, ispriv)
           IN  b.alloc /\ b.tunnel = r /\ ~b.rx /\ ~b.rbuf /\ ~b.wbuf /\ b.ispriv = ispriv
  BY DEF NewSock, NoSock

LEMMA AcceptedFrom ==
    ASSUME HeapInv, NEW k \in Socks, ~sock[k].alloc, NEW r, NEW ispriv,
           sock' = [sock EXCEPT ![k] = NewSock(r, ispriv)],
           tun'[r].remote \in {NULL, k}, \A x \in Tunnels : x # r => tun'[x] = tun[x]
    PROVE  Accepted(k, r) /\ sock'[k].ispriv = ispriv
<1> DEFINE b == NewSock(r, ispriv)
<1>1. b.alloc /\ b.tunnel = r /\ ~b.rx /\ ~b.rbuf /\ ~b.wbuf /\ b.ispriv = ispriv
  BY NewSockHolds
<1>2. sock \in [Socks -> Sock] /\ sock' = [sock EXCEPT ![k] = b]
  BY DEF HeapInv
<1> HIDE DEF b
<1>3. sock'[k] = b /\ \A j \in Socks : j # k => sock'[j] = sock[j]
  BY <1>2
<1> QED BY <1>1, <1>3 DEF Accepted

LEMMA AcceptPrivMoves ==
    ASSUME IInv, PoolInv, AcceptPriv
    PROVE  /\ \E k \in Socks, r \in Tunnels : Accepted(k, r) /\ sock'[k].ispriv
           /\ dials'["rmtfd"] = dials["rmtfd"] /\ fault' = fault
           /\ dials'["listenfd"] = dials["listenfd"] - 1
<1>1. HeapInv /\ LoopOK /\ tun \in [Tunnels -> Tunnel]
  BY DEF IInv, HeapInv
<1>2. dials'["rmtfd"] = dials["rmtfd"] /\ dials'["listenfd"] = dials["listenfd"] - 1 /\ fault' = fault
  BY <1>1 DEF AcceptPriv, LoopOK, Listeners
<1>3. PICK k \in Socks, r \in Tunnels :
        /\ ~sock[k].alloc
        /\ \/ r \in AppListFnd("tunn_is_free") /\ ReusePriv(r, k)
           \/ r = Fresh /\ NewPriv(r, k)
        /\ sock' = [sock EXCEPT ![k] = NewSock(r, TRUE)]
  BY DEF AcceptPriv
<1>4. tun'[r].remote \in {NULL, k} /\ \A x \in Tunnels : x # r => tun'[x] = tun[x]
  <2>1. CASE r \in AppListFnd("tunn_is_free") /\ ReusePriv(r, k)
    <3>1. InApp(r) /\ tun[r].status = "tunn_is_free"
      BY <1>1, <2>1, FoundInApp
    <3>2. tun[r].remote = NULL
      BY <3>1 DEF PoolInv, TunnelsOK, AppT
    <3>3. tun' = [tun EXCEPT ![r] = [tun[r] EXCEPT !.state = "open_state", !.status = "tunn_is_run", !.priv = k]]
      BY <2>1 DEF ReusePriv
    <3>4. tun[r] \in Tunnel
      BY <1>1
    <3>5. [tun[r] EXCEPT !.state = "open_state", !.status = "tunn_is_run", !.priv = k].remote = NULL
      BY <3>2, <3>4 DEF Tunnel
    <3> DEFINE t == [tun[r] EXCEPT !.state = "open_state", !.status = "tunn_is_run", !.priv = k]
    <3>6. tun' = [tun EXCEPT ![r] = t] /\ t.remote = NULL
      BY <3>3, <3>5
    <3> HIDE DEF t
    <3> QED BY <1>1, <3>6
  <2>2. CASE NewPriv(r, k)
    <3> DEFINE t == [ZeroTunnel EXCEPT !.priv = k]
    <3>1. tun' = [tun EXCEPT ![r] = t]
      BY <2>2 DEF NewPriv
    <3>2. t.remote = NULL
      BY DEF ZeroTunnel
    <3> HIDE DEF t
    <3> QED BY <1>1, <3>1, <3>2
  <2> QED BY <1>3, <2>1, <2>2
<1>5. Accepted(k, r) /\ sock'[k].ispriv
  BY <1>1, <1>3, <1>4, AcceptedFrom
<1> QED BY <1>2, <1>5

LEMMA AcceptRemoteMoves ==
    ASSUME IInv, PoolInv, AcceptRemote
    PROVE  /\ \/ fault' # "none" /\ UNCHANGED <<tun, sock>>
              \/ /\ \E k \in Socks, r \in Tunnels : Accepted(k, r) /\ ~sock'[k].ispriv
                 /\ fault' = fault
           /\ dials'["rmtfd"] = dials["rmtfd"] - 1 /\ dials["rmtfd"] > 0
           /\ dials'["listenfd"] = dials["listenfd"]
<1>1. HeapInv /\ LoopOK /\ ListsOK /\ tun \in [Tunnels -> Tunnel]
  BY DEF IInv, HeapInv
<1>2. dials'["rmtfd"] = dials["rmtfd"] - 1 /\ dials["rmtfd"] > 0 /\ dials'["listenfd"] = dials["listenfd"]
  BY <1>1 DEF AcceptRemote, LoopOK, Listeners, Consume
<1>3. PICK k \in Socks :
        /\ ~sock[k].alloc
        /\ \/ \E r \in AppListFnd("tunn_is_idle") : BindRemote(r, k)
           \/ \E w \in WaitObj : ParkRemote(w, k)
  BY DEF AcceptRemote
<1>4. ASSUME NEW r \in Tunnels, NEW t, t.remote = k, tun' = [tun EXCEPT ![r] = t],
             sock' = [sock EXCEPT ![k] = NewSock(r, FALSE)]
      PROVE  \E q \in Socks, x \in Tunnels : Accepted(q, x) /\ ~sock'[q].ispriv
  <2>1. tun'[r].remote = k /\ \A x \in Tunnels : x # r => tun'[x] = tun[x]
    BY <1>1, <1>4
  <2>2. Accepted(k, r) /\ sock'[k].ispriv = FALSE
    <3>1. tun'[r].remote \in {NULL, k} /\ ~sock[k].alloc /\ HeapInv
      BY <1>1, <1>3, <2>1
    <3>2. sock' = [sock EXCEPT ![k] = NewSock(r, FALSE)]
      BY <1>4
    <3> QED BY <2>1, <3>1, <3>2, AcceptedFrom, ZenonT(30)
  <2> QED BY <2>2
<1>5. ASSUME NEW r \in AppListFnd("tunn_is_idle"), BindRemote(r, k)
      PROVE  \/ fault' # "none" /\ UNCHANGED <<tun, sock>>
             \/ /\ \E q \in Socks, x \in Tunnels : Accepted(q, x) /\ ~sock'[q].ispriv
                /\ fault' = fault
  <2>1. r \in Tunnels
    BY <1>1, <1>5, FoundInApp
  <2>2. tun[r] \in Tunnel
    BY <1>1, <2>1
  <2> DEFINE t == [tun[r] EXCEPT !.status = "tunn_is_run", !.state = "connected_state", !.remote = k]
  <2>3. t.remote = k
    BY <2>2 DEF Tunnel
  <2>4. \/ Crash("null")
        \/ tun' = [tun EXCEPT ![r] = t] /\ sock' = [sock EXCEPT ![k] = NewSock(r, FALSE)] /\ fault' = fault
    BY <1>5 DEF BindRemote
  <2> HIDE DEF t
  <2> QED BY <1>4, <2>1, <2>3, <2>4 DEF Crash
<1>6. ASSUME NEW w \in WaitObj, ParkRemote(w, k)
      PROVE  /\ \E q \in Socks, x \in Tunnels : Accepted(q, x) /\ ~sock'[q].ispriv
             /\ fault' = fault
  <2>1. w \in Tunnels /\ tun[w] \in Tunnel
    BY <1>1, WaitObjType
  <2> DEFINE t == Parked(tun[w], k, "tmptun_is_wait")
  <2>2. t.remote = k
    BY <2>1 DEF Parked, Tunnel
  <2>3. tun' = [tun EXCEPT ![w] = t] /\ sock' = [sock EXCEPT ![k] = NewSock(w, FALSE)] /\ fault' = fault
    BY <1>6 DEF ParkRemote
  <2> HIDE DEF t
  <2> QED BY <1>4, <2>1, <2>2, <2>3
<1> QED BY <1>2, <1>3, <1>5, <1>6

\* Peers are numbered as they arrive: S are those of one port, n those that have come,
\* k the one that comes.
LEMMA NextNumber ==
    ASSUME NEW n \in Nat, NEW S, NEW S2, NEW k, NEW f, NEW f2,
           \A j \in S : f[j] \in 1..n,
           \A i, j \in S : f[i] = f[j] => i = j,
           S2 = S \cup {k}, k \notin S, f2[k] = n + 1, \A j \in S : f2[j] = f[j]
    PROVE  /\ \A j \in S2 : f2[j] \in 1..(n + 1)
           /\ \A i, j \in S2 : f2[i] = f2[j] => i = j
<1>1. \A j \in S : f2[j] \in 1..n /\ f2[j] # n + 1
  OBVIOUS
<1>2. \A j \in S2 : f2[j] \in 1..(n + 1)
  BY <1>1
<1>3. ASSUME NEW i \in S2, NEW j \in S2, f2[i] = f2[j]
      PROVE  i = j
  BY <1>1, <1>3
<1> QED BY <1>2, <1>3

\* The new peer is the next to arrive at its port.
LEMMA AcceptedWho ==
    ASSUME StreamInv, NEW k \in Socks, NEW r \in Tunnels, Accepted(k, r), UNCHANGED sent,
           dials["rmtfd"] \in Nat, dials'["rmtfd"] \in Nat, sock'[k].ispriv \in BOOLEAN,
           dials["listenfd"] \in Nat, dials'["listenfd"] \in Nat,
           who' = [j \in Socks |-> IF ~sock'[j].alloc \/ sock[j].alloc THEN who[j]
                                   ELSE IF sock'[j].ispriv THEN 1 + MaxPriv - dials["listenfd"]
                                   ELSE 1 + MaxRmt - dials["rmtfd"]],
           dials'["rmtfd"] = IF sock'[k].ispriv THEN dials["rmtfd"] ELSE dials["rmtfd"] - 1,
           dials'["listenfd"] = IF sock'[k].ispriv THEN dials["listenfd"] - 1 ELSE dials["listenfd"]
    PROVE  /\ WhoOK'
           /\ \A j \in Socks : j # k => who'[j] = who[j]
           /\ Client(k)' => who'[k] \in Clients /\ sent[who'[k]] = 0
<1> DEFINE d == dials["rmtfd"]
           e == dials'["rmtfd"]
           a == dials["listenfd"]
           b == dials'["listenfd"]
           n == MaxRmt - d
           m == MaxPriv - a
           C == {j \in Socks : Client(j)}
           C2 == {j \in Socks : Client(j)'}
           P == {j \in Socks : Priv(j)}
           P2 == {j \in Socks : Priv(j)'}
<1>1. /\ WhoOK /\ MaxRmt \in Nat /\ d \in Nat /\ e \in Nat /\ d <= MaxRmt
      /\ MaxPriv \in Nat /\ a \in Nat /\ b \in Nat /\ a <= MaxPriv
      /\ e = IF sock'[k].ispriv THEN d ELSE d - 1
      /\ b = IF sock'[k].ispriv THEN a - 1 ELSE a
  BY DEF StreamInv, WhoOK
<1>2. n \in Nat /\ m \in Nat /\ Arrived = n /\ Opened = m
      /\ Arrived' = (IF sock'[k].ispriv THEN n ELSE n + 1)
      /\ Opened' = (IF sock'[k].ispriv THEN m + 1 ELSE m)
      /\ Arrived' \in Nat /\ Arrived' <= MaxRmt /\ Opened' \in Nat /\ Opened' <= MaxPriv
      /\ e <= MaxRmt /\ b <= MaxPriv
  BY <1>1 DEF Arrived, Opened
<1>3. \A j \in Socks : j # k => who'[j] = who[j] /\ (Client(j)' <=> Client(j)) /\ (Priv(j)' <=> Priv(j))
  BY DEF Accepted, Client, Priv
<1>4. ~Client(k) /\ ~Priv(k) /\ (Client(k)' <=> ~sock'[k].ispriv) /\ (Priv(k)' <=> sock'[k].ispriv)
  BY DEF Accepted, Client, Priv
<1>5. who'[k] = IF sock'[k].ispriv THEN m + 1 ELSE n + 1
  BY <1>1 DEF Accepted
<1>6. /\ \A j \in C : who[j] \in 1..n
      /\ \A i, j \in C : who[i] = who[j] => i = j
      /\ \A j \in P : who[j] \in 1..m
      /\ \A i, j \in P : who[i] = who[j] => i = j
  BY <1>1, <1>2 DEF WhoOK
<1>7. \A j \in Socks : j \in C \/ j \in P => who'[j] = who[j]
  BY <1>3, <1>4
<1>8. ASSUME ~sock'[k].ispriv
      PROVE  /\ \A j \in C2 : who'[j] \in 1..Arrived'
             /\ \A i, j \in C2 : who'[i] = who'[j] => i = j
             /\ \A j \in P2 : who'[j] \in 1..Opened'
             /\ \A i, j \in P2 : who'[i] = who'[j] => i = j
  <2>1. C2 = C \cup {k} /\ k \notin C /\ P2 = P /\ who'[k] = n + 1 /\ \A j \in C : who'[j] = who[j]
    BY <1>3, <1>4, <1>5, <1>7, <1>8
  <2> HIDE DEF C, C2, P, P2, n, m
  <2>2. /\ \A j \in C2 : who'[j] \in 1..(n + 1)
        /\ \A i, j \in C2 : who'[i] = who'[j] => i = j
    <3>1. n \in Nat /\ (\A j \in C : who[j] \in 1..n) /\ \A i, j \in C : who[i] = who[j] => i = j
      BY <1>2, <1>6
    <3> QED BY ONLY <2>1, <3>1, NextNumber
  <2>3. /\ \A j \in P2 : who'[j] \in 1..m
        /\ \A i, j \in P2 : who'[i] = who'[j] => i = j
    BY <1>6, <1>7, <2>1 DEF P
  <2> QED BY <1>2, <1>8, <2>2, <2>3
<1>9. ASSUME sock'[k].ispriv
      PROVE  /\ \A j \in C2 : who'[j] \in 1..Arrived'
             /\ \A i, j \in C2 : who'[i] = who'[j] => i = j
             /\ \A j \in P2 : who'[j] \in 1..Opened'
             /\ \A i, j \in P2 : who'[i] = who'[j] => i = j
  <2>1. P2 = P \cup {k} /\ k \notin P /\ C2 = C /\ who'[k] = m + 1 /\ \A j \in P : who'[j] = who[j]
    BY <1>3, <1>4, <1>5, <1>7, <1>9
  <2> HIDE DEF C, C2, P, P2, n, m
  <2>2. /\ \A j \in P2 : who'[j] \in 1..(m + 1)
        /\ \A i, j \in P2 : who'[i] = who'[j] => i = j
    <3>1. m \in Nat /\ (\A j \in P : who[j] \in 1..m) /\ \A i, j \in P : who[i] = who[j] => i = j
      BY <1>2, <1>6
    <3> QED BY ONLY <2>1, <3>1, NextNumber
  <2>3. /\ \A j \in C2 : who'[j] \in 1..n
        /\ \A i, j \in C2 : who'[i] = who'[j] => i = j
    BY <1>6, <1>7, <2>1 DEF C
  <2> QED BY <1>2, <1>9, <2>2, <2>3
<1>10. WhoOK'
  <2> DEFINE A2 == Arrived'
             O2 == Opened'
  <2>1. /\ \A j \in C2 : who'[j] \in 1..A2
        /\ \A i, j \in C2 : who'[i] = who'[j] => i = j
        /\ \A j \in P2 : who'[j] \in 1..O2
        /\ \A i, j \in P2 : who'[i] = who'[j] => i = j
    BY <1>8, <1>9
  <2>2. A2 \in Nat /\ A2 <= MaxRmt /\ O2 \in Nat /\ O2 <= MaxPriv
    BY <1>2
  <2> HIDE DEF A2, O2
  <2>3. (\A x \in 1..A2 : x \in Clients) /\ \A x \in 1..O2 : x \in Connections
    BY <2>2 DEF Clients, Connections
  <2>4. \A j \in Socks : who'[j] \in Clients \cup Connections \cup {0}
    BY <1>1, <1>3, <1>4, <2>1, <2>3 DEF WhoOK
  <2>5. who' \in [Socks -> Clients \cup Connections \cup {0}]
    BY <2>4
  <2>6. \A c \in Clients : c > A2 => sent'[c] = 0
    <3>1. \A c \in Clients : c > A2 => c > Arrived
      BY <1>2 DEF Clients, A2
    <3> QED BY <1>1, <3>1 DEF WhoOK
  <2>7. sent' \in [Clients \cup {0} -> Nat] /\ e <= MaxRmt /\ b <= MaxPriv
    BY <1>1, <1>2 DEF WhoOK
  <2>8. \A j \in Socks : Client(j)' => who'[j] \in Clients /\ who'[j] \in 1..A2
    BY <2>1, <2>3
  <2>9. \A j \in Socks : Priv(j)' => who'[j] \in Connections /\ who'[j] \in 1..O2
    BY <2>1, <2>3
  <2> QED BY <2>1, <2>5, <2>6, <2>7, <2>8, <2>9 DEF WhoOK, A2, O2
<1>11. Client(k)' => who'[k] \in Clients /\ sent[who'[k]] = 0
  <2>1. Client(k)' => who'[k] = n + 1 /\ n + 1 \in Clients /\ n + 1 > Arrived
    BY <1>2, <1>4, <1>5 DEF Clients
  <2> QED BY <1>1, <2>1 DEF WhoOK
<1> QED BY <1>3, <1>10, <1>11

LEMMA NothingFine ==
    /\ Coming(Nothing) = <<>> /\ Nothing.wbuf = <<>>
    /\ \A k, g : FirstAt(Nothing, k, g) /\ Before(g, <<>>) /\ Before(<<>>, g)
    /\ Sorted(<<>>) /\ Sent(<<>>) /\ \A S : Nothing.rx \in Seq(S) /\ Nothing.rbuf \in Seq(S) /\ Nothing.wbuf \in Seq(S)
    /\ Nothing \in Buffers
<1>1. Nothing.rx = <<>> /\ Nothing.rbuf = <<>> /\ Nothing.wbuf = <<>>
  BY DEF Nothing
<1>2. <<>> \o <<>> = <<>>
  BY EmptySeq, ConcatEmptySeq
<1>3. DOMAIN <<>> = {}
  OBVIOUS
<1>4. \A S : <<>> \in Seq(S)
  BY EmptySeq
<1>5. Nothing \in Buffers
  BY <1>4 DEF Nothing, Buffers
<1>6. \A k, g : FirstAt(Nothing, k, g) /\ Before(g, <<>>) /\ Before(<<>>, g)
  BY <1>1, <1>3 DEF FirstAt, Before, HeadOnly, Nobodys
<1> QED BY <1>1, <1>2, <1>3, <1>4, <1>5, <1>6 DEF Sorted, Sent, Coming

\* It holds nothing, and nobody holds anything of its.
LEMMA AcceptedOrder ==
    ASSUME StreamInv, NEW k \in Socks, NEW r \in Tunnels, Accepted(k, r), UNCHANGED <<held, sent, got>>,
           \A j \in Socks : j # k => who'[j] = who[j]
    PROVE  Holds(held)' /\ HandshakeFirst(held, got)' /\ InLine(held, got)' /\ OneCarrier(held)'
<1>1. held[k] = Nothing /\ held' = held /\ Holds(held) /\ HandshakeFirst(held, got) /\ InLine(held, got)
      /\ OneCarrier(held) /\ DOMAIN held = Socks
  BY DEF StreamInv, Freed, Accepted
<1>2. \A j \in Socks : /\ Priv(j)' => Priv(j) \/ j = k
                       /\ Client(j)' => Client(j) \/ j = k
  BY DEF Priv, Client, Accepted
<1>3. ASSUME NEW j \in Socks
      PROVE  HoldsAt(j, held[j])'
  <2>1. CASE j = k
    BY <1>1, <2>1, NothingFine DEF HoldsAt, Buffers
  <2>2. CASE j # k
    <3>1. sock'[j] = sock[j] /\ HoldsAt(j, held[j]) /\ (Client(j) => who'[j] = who[j])
      BY <1>1, <2>2 DEF Accepted, Holds
    <3>2. (Priv(j)' <=> Priv(j)) /\ (Client(j)' <=> Client(j))
      BY <3>1 DEF Priv, Client
    <3>3. Client(j) => Request(who[j])' = Request(who[j])
      BY <3>1 DEF Request
    <3> QED BY <1>1, <3>1, <3>2, <3>3 DEF HoldsAt
  <2> QED BY <2>1, <2>2
<1>4. Holds(held)'
  BY <1>1, <1>3 DEF Holds
<1>5. HandshakeFirst(held, got)'
  <2>1. ASSUME NEW j \in Socks, Priv(j)'
        PROVE  FirstAt(held[j], j, got)'
    <3>1. CASE j = k
      <4>1. held[k].rbuf = <<>> /\ held[k].rx = <<>> /\ held[k].wbuf = <<>> /\ held' = held
        BY <1>1 DEF Nothing
      <4>2. HeadOnly(<<>>) /\ Nobodys(<<>>)
        BY DEF HeadOnly, Nobodys
      <4> QED BY <3>1, <4>1, <4>2 DEF FirstAt
    <3>2. CASE j # k
      <4>1. FirstAt(held[j], j, got) /\ who'[j] = who[j]
        BY <1>1, <1>2, <2>1, <3>2 DEF HandshakeFirst
      <4> QED BY <1>1, <4>1 DEF FirstAt, Unasked
    <3> QED BY <3>1, <3>2
  <2> QED BY <2>1 DEF HandshakeFirst
<1>6. InLine(held, got)'
  <2>1. \A q : Sent(q) => (\A i \in DOMAIN q : q[i].from # 0 => q[i].n <= sent'[q[i].from])
    BY DEF Sent
  <2>2. /\ Sorted(got) /\ Sent(got)
        /\ \A p \in Socks : Priv(p)' => Sorted(held[p].wbuf) /\ Sent(held[p].wbuf) /\ Before(got, held[p].wbuf)
        /\ \A j \in Socks : Client(j)' => /\ Sorted(Coming(held[j])) /\ Sent(Coming(held[j]))
                                          /\ Before(got, Coming(held[j]))
        /\ \A p, j \in Socks : Priv(p)' /\ Client(j)' => Before(held[p].wbuf, Coming(held[j]))
    <3>1. Sorted(got) /\ Sent(got)
      BY <1>1 DEF InLine
    <3>2. ASSUME NEW p \in Socks, Priv(p)'
          PROVE  Sorted(held[p].wbuf) /\ Sent(held[p].wbuf) /\ Before(got, held[p].wbuf)
      <4>1. CASE p = k
        BY <1>1, <4>1, NothingFine
      <4>2. CASE p # k
        BY <1>1, <1>2, <3>2, <4>2 DEF InLine
      <4> QED BY <4>1, <4>2
    <3>3. ASSUME NEW j \in Socks, Client(j)'
          PROVE  Sorted(Coming(held[j])) /\ Sent(Coming(held[j])) /\ Before(got, Coming(held[j]))
      <4>1. CASE j = k
        BY <1>1, <4>1, NothingFine
      <4>2. CASE j # k
        BY <1>1, <1>2, <3>3, <4>2 DEF InLine
      <4> QED BY <4>1, <4>2
    <3>4. ASSUME NEW p \in Socks, NEW j \in Socks, Priv(p)', Client(j)'
          PROVE  Before(held[p].wbuf, Coming(held[j]))
      <4>1. CASE p = k \/ j = k
        BY <1>1, <4>1, NothingFine
      <4>2. CASE p # k /\ j # k
        BY <1>1, <1>2, <3>4, <4>2 DEF InLine
      <4> QED BY <4>1, <4>2
    <3> QED BY <3>1, <3>2, <3>3, <3>4
  <2>3. /\ Sorted(got') /\ Sent(got')
        /\ \A p \in Socks : Priv(p)' => Sorted(held'[p].wbuf) /\ Sent(held'[p].wbuf) /\ Before(got', held'[p].wbuf)
        /\ \A j \in Socks : Client(j)' => /\ Sorted(Coming(held'[j])) /\ Sent(Coming(held'[j]))
                                          /\ Before(got', Coming(held'[j]))
        /\ \A p, j \in Socks : Priv(p)' /\ Client(j)' => Before(held'[p].wbuf, Coming(held'[j]))
    BY <1>1, <2>2
  <2>4. Sorted(got)' /\ Sent(got)'
    BY <2>1, <2>3 DEF Sorted, Sent
  <2>5. \A p \in Socks : Priv(p)' => Sorted(held[p].wbuf)' /\ Sent(held[p].wbuf)' /\ Before(got, held[p].wbuf)'
    BY <2>1, <2>3 DEF Sorted, Sent, Before
  <2>6. \A j \in Socks : Client(j)' => /\ Sorted(Coming(held[j]))' /\ Sent(Coming(held[j]))'
                                     /\ Before(got, Coming(held[j]))'
    <3> SUFFICES ASSUME NEW j \in Socks, Client(j)'
                 PROVE  /\ Sorted(Coming(held[j]))' /\ Sent(Coming(held[j]))'
                        /\ Before(got, Coming(held[j]))'
      OBVIOUS
    <3>1. Sorted(Coming(held'[j])) /\ Sent(Coming(held'[j])) /\ Before(got', Coming(held'[j]))
      BY <2>3
    <3>2. Sorted(Coming(held[j]))'
      BY <3>1 DEF Sorted, Coming
    <3>3. Sent(Coming(held[j]))'
      BY <2>1, <3>1 DEF Sent, Coming
    <3>4. Before(got, Coming(held[j]))'
      BY <3>1 DEF Before, Coming
    <3> QED BY <3>2, <3>3, <3>4
  <2>7. \A p, j \in Socks : Priv(p)' /\ Client(j)' => Before(held[p].wbuf, Coming(held[j]))'
    BY <2>3 DEF Before, Coming
  <2> QED BY <2>4, <2>5, <2>6, <2>7 DEF InLine
<1>7. OneCarrier(held)'
  <2>1. \A p \in Socks, c \in Clients : Priv(p)' /\ Carries(held, p, c)' => Priv(p) /\ Carries(held, p, c)
    <3>1. \A c : ~Carries(held, k, c)
      BY <1>1, NothingFine DEF Carries
    <3> QED BY <1>1, <1>2, <3>1 DEF Carries
  <2> QED BY <1>1, <2>1 DEF OneCarrier
<1> QED BY <1>4, <1>5, <1>6, <1>7

LEMMA AcceptedBound ==
    ASSUME HeapInv, HeapInv', StreamInv, NEW k \in Socks, NEW r \in Tunnels, Accepted(k, r), UNCHANGED held,
           \A j \in Socks : j # k => who'[j] = who[j],
           Client(k)' => who'[k] \in Clients /\ sent[who'[k]] = 0
    PROVE  Bound(held)'
<1>1. held[k] = Nothing /\ held' = held /\ Holds(held) /\ InLine(held, got) /\ Bound(held)
  BY DEF StreamInv, Freed, Accepted
<1> SUFFICES ASSUME NEW p \in Socks, NEW j \in Socks, Priv(p)', Client(j)', Carries(held, p, who[j])',
                    tun'[sock'[j].tunnel].remote = j
             PROVE  LET u == tun'[sock'[j].tunnel]
                    IN  IF u.state = "tunnel_waitting" THEN u.status # "tmptun_is_wait" ELSE u.priv = p
  BY DEF Bound
<1>2. p # k
  BY <1>1, NothingFine DEF Carries
<1>3. Priv(p)
  BY <1>2 DEF Accepted, Priv
<1>4. j # k
  <2> SUFFICES ASSUME j = k PROVE FALSE
    OBVIOUS
  <2> DEFINE c == who'[k]
             q == held[p].wbuf
  <2>1. c \in Clients /\ sent[c] = 0
    OBVIOUS
  <2>2. PICK i \in DOMAIN q : q[i].from = c
    BY <1>1 DEF Carries
  <2>3. q \in Seq(Named(Requests)) /\ Sent(q)
    BY <1>1, <1>3 DEF Holds, HoldsAt, InLine
  <2> HIDE DEF q, c
  <2>4. q[i] \in Named(Requests)
    BY <2>3, LenProperties, ElementOfSeq
  <2>5. c # 0
    BY <2>1 DEF Clients
  <2>6. q[i].n \in 1..MaxPieces
    BY <2>2, <2>4, <2>5 DEF Named, Anonymous, Requests
  <2>7. q[i].n <= 0
    BY <2>1, <2>2, <2>3, <2>5 DEF Sent
  <2> QED BY <2>6, <2>7
<1>5. sock'[j] = sock[j] /\ Client(j) /\ who'[j] = who[j] /\ sock[j].tunnel \in Tunnels
  BY <1>4 DEF Accepted, Client, HeapInv, SockInTunnel
<1>6. sock[j].tunnel # r
  BY <1>4, <1>5 DEF Accepted
<1>7. tun'[sock[j].tunnel] = tun[sock[j].tunnel]
  BY <1>5, <1>6 DEF Accepted
<1>8. Carries(held, p, who[j])
  BY <1>1, <1>5 DEF Carries
<1> QED BY <1>1, <1>3, <1>5, <1>7, <1>8 DEF Bound

LEMMA StreamAcceptInv ==
    ASSUME IInv, IInv', PoolInv, StreamInv, StreamAccept
    PROVE  StreamInv' /\ Kept
<1>1. /\ HeapInv /\ HeapInv' /\ UNCHANGED <<held, given, sent, got, served>> /\ fault = "none"
      /\ Ordered(held, got) /\ Bound(held) /\ Empty(sock) /\ (fault = "none" => Agree(sock, held))
      /\ held \in [Socks -> Buffers] /\ Histories
  <2>1. fault = "none" /\ UNCHANGED <<held, given, sent, got, served>>
    BY DEF StreamAccept, AcceptPriv, AcceptRemote, Consume, Running, Same, Unsent
  <2> QED BY <2>1, Standing DEF IInv, StreamInv
<1>2. Lossless(held)
  BY CoversSelf, CoversLossless
<1>3. /\ dials["rmtfd"] \in Nat /\ dials'["rmtfd"] \in Nat
      /\ dials["listenfd"] \in Nat /\ dials'["listenfd"] \in Nat
  BY DEF IInv, LoopOK, Listeners
<1>4. Histories'
  BY <1>1 DEF Histories
<1>5. who' = [k \in Socks |-> IF ~sock'[k].alloc \/ sock[k].alloc THEN who[k]
                              ELSE IF sock'[k].ispriv THEN 1 + MaxPriv - dials["listenfd"]
                              ELSE 1 + MaxRmt - dials["rmtfd"]]
  BY DEF StreamAccept
<1>6. ASSUME NEW k \in Socks, NEW r \in Tunnels, Accepted(k, r),
             dials'["rmtfd"] = IF sock'[k].ispriv THEN dials["rmtfd"] ELSE dials["rmtfd"] - 1,
             dials'["listenfd"] = IF sock'[k].ispriv THEN dials["listenfd"] - 1 ELSE dials["listenfd"]
      PROVE  StreamInv' /\ Kept
  <2>1. sock'[k].ispriv \in BOOLEAN
    BY <1>1 DEF HeapInv, Sock
  <2>2. /\ WhoOK'
        /\ \A j \in Socks : j # k => who'[j] = who[j]
        /\ Client(k)' => who'[k] \in Clients /\ sent[who'[k]] = 0
    BY <1>1, <1>3, <1>5, <1>6, <2>1, AcceptedWho
  <2>3. Holds(held)' /\ HandshakeFirst(held, got)' /\ InLine(held, got)' /\ OneCarrier(held)'
    BY <1>1, <1>6, <2>2, AcceptedOrder
  <2>4. Bound(held)'
    BY <1>1, <1>6, <2>2, AcceptedBound
  <2>5. held[k] = Nothing
    BY <1>6 DEF StreamInv, Freed, Accepted
  <2>6. Freed(held)'
    BY <1>1, <1>6 DEF StreamInv, Freed, Accepted
  <2>7. BuffersAgree'
    <3> SUFFICES ASSUME NEW j \in Socks PROVE Match(sock'[j], held[j])
      BY <1>1 DEF BuffersAgree, Match
    <3>1. CASE j = k
      BY <1>6, <2>5, <3>1 DEF Accepted, Match, Nothing
    <3>2. CASE j # k
      BY <1>1, <1>6, <3>2 DEF Accepted, StreamInv, BuffersAgree, Match
    <3> QED BY <3>1, <3>2
  <2>8. Settle(held)
    <3>1. \A j \in Socks : ~sock'[j].alloc => ~sock[j].alloc
      BY <1>6 DEF Accepted
    <3> QED BY <1>1, <3>1, SameHeld
  <2>9. held' \in [Socks -> Buffers]
    BY <1>1
  <2> QED BY <1>2, <1>4, <2>2, <2>3, <2>4, <2>6, <2>7, <2>8, <2>9 DEF StreamInv, Kept
<1>7. CASE AcceptPriv
  <2>1. /\ \E k \in Socks, r \in Tunnels : Accepted(k, r) /\ sock'[k].ispriv
        /\ dials'["rmtfd"] = dials["rmtfd"] /\ dials'["listenfd"] = dials["listenfd"] - 1
    BY <1>7, AcceptPrivMoves
  <2> QED BY <1>6, <2>1
<1>8. CASE AcceptRemote
  <2>1. /\ \/ fault' # "none" /\ UNCHANGED <<tun, sock>>
           \/ \E k \in Socks, r \in Tunnels : Accepted(k, r) /\ ~sock'[k].ispriv
        /\ dials'["rmtfd"] = dials["rmtfd"] - 1 /\ dials["rmtfd"] > 0
        /\ dials'["listenfd"] = dials["listenfd"]
    BY <1>8, AcceptRemoteMoves
  <2>2. CASE fault' # "none" /\ UNCHANGED <<tun, sock>>
    <3>1. UNCHANGED who
      BY <1>5, <2>2 DEF StreamInv, WhoOK
    <3>2. Sides
      BY <1>1, <2>2 DEF Sides, Empty
    <3>3. Settle(held)
      BY <1>1, <2>2, SameHeld
    <3>4. WhoOK'
      <4>1. \A j \in Socks : (Client(j)' <=> Client(j)) /\ (Priv(j)' <=> Priv(j))
        BY <2>2 DEF Client, Priv
      <4> DEFINE d == dials["rmtfd"]
                 e == dials'["rmtfd"]
      <4>2. d \in Nat /\ e \in Nat /\ e = d - 1 /\ MaxRmt \in Nat /\ d <= MaxRmt
        BY <1>3, <2>1 DEF StreamInv, WhoOK
      <4>3. MaxRmt - e = MaxRmt - d + 1 /\ MaxRmt - d \in Int /\ MaxRmt - e \in Int /\ e <= MaxRmt
        BY <4>2
      <4> HIDE DEF d, e
      <4>4. Arrived = MaxRmt - d /\ Arrived' = MaxRmt - e
        BY DEF Arrived, d, e
      <4>5. \A x \in 1..Arrived : x \in 1..Arrived'
        BY <4>3, <4>4
      <4>6. \A c \in Clients : c > Arrived' => c > Arrived
        BY <4>3, <4>4 DEF Clients
      <4>7. Opened' = Opened /\ dials'["listenfd"] = dials["listenfd"]
        BY <2>1 DEF Opened
      <4> QED BY <1>1, <3>1, <4>1, <4>3, <4>5, <4>6, <4>7 DEF StreamInv, WhoOK, e
    <3>5. Holds(held)' /\ HandshakeFirst(held, got)' /\ InLine(held, got)' /\ OneCarrier(held)'
      <4>1. Ordered(held, got')
        BY <1>1
      <4> QED BY <1>1, <3>1, <3>2, <3>3, <4>1, MovedOrder
    <3>6. Bound(held)'
      <4>1. BoundKept
        BY <2>2 DEF BoundKept
      <4> QED BY <1>1, <3>1, <3>2, <3>3, <4>1, MovedBound
    <3>7. BuffersAgree' /\ Freed(held)'
      BY <2>2, <3>2, <3>3, MovedAgree
    <3>8. held' \in [Socks -> Buffers]
      BY <1>1
    <3> QED BY <1>2, <1>4, <3>3, <3>4, <3>5, <3>6, <3>7, <3>8 DEF StreamInv, Kept
  <2>3. CASE \E k \in Socks, r \in Tunnels : Accepted(k, r) /\ ~sock'[k].ispriv
    BY <1>6, <2>1, <2>3
  <2> QED BY <2>1, <2>2, <2>3
<1> QED BY <1>7, <1>8 DEF StreamAccept

----------------------------------------------------------------------------
(* The invariant.                                                          *)

\* What Streams adds to TunnelServer decides no step of it.
LEMMA StreamsStep ==
    ASSUME [StreamsNext]_streamVars
    PROVE  [Next]_vars
<1>1. CASE UNCHANGED streamVars
  BY <1>1 DEF streamVars
<1>2. CASE StreamAccept \/ StreamPair
  BY <1>2 DEF StreamAccept, StreamPair, Next, Loop
<1>3. ASSUME NEW k \in Socks, \/ StreamRead(k) \/ StreamWrite(k)
                              \/ ClientSends(k) \/ PrivateShakes(k) \/ PrivateAnswers(k)
      PROVE  Next
  BY <1>3 DEF StreamRead, StreamWrite, ClientSends, PrivateShakes, PrivateAnswers, Next, Loop
<1>4. CASE \/ EpollWait \/ PairSkip \/ PairingDone \/ \E l \in Listeners : AcceptFails(l)
           \/ \E k \in Socks : StaleEvent(k) \/ PeerFin(k) \/ PeerReset(k)
  BY <1>4 DEF Next, Loop
<1> QED BY <1>1, <1>2, <1>3, <1>4 DEF StreamsNext

LEMMA StreamsInitInv ==
    ASSUME StreamsInit
    PROVE  PoolIInv /\ StreamInv
<1>1. PoolIInv /\ Init
  BY InitPool DEF StreamsInit
<1>2. \A k \in Socks : sock[k] = NoSock /\ ~sock[k].alloc /\ held[k] = Nothing
  BY <1>1 DEF StreamsInit, Init, NoSock
<1>3. \A k \in Socks : ~Priv(k) /\ ~Client(k)
  BY <1>2 DEF Priv, Client
<1>4. got = <<>> /\ given = <<>> /\ served = {}
  BY DEF StreamsInit
<1>5. Histories
  BY <1>4, EmptySeq DEF Histories
<1>6. WhoOK
  <2>1. dials["rmtfd"] <= MaxRmt /\ dials["listenfd"] <= MaxPriv
    BY <1>1 DEF Init, Listeners
  <2> QED BY <1>3, <2>1 DEF StreamsInit, WhoOK, Clients
<1>7. Freed(held) /\ BuffersAgree
  BY <1>2 DEF Freed, BuffersAgree, Nothing, NoSock
<1>8. held \in [Socks -> Buffers]
  BY NothingFine DEF StreamsInit
<1>9. Holds(held) /\ HandshakeFirst(held, got) /\ OneCarrier(held) /\ Bound(held)
  BY <1>3, <1>8 DEF Holds, HoldsAt, HandshakeFirst, OneCarrier, Bound, Buffers
<1>10. InLine(held, got)
  BY <1>3, <1>4, NothingFine DEF InLine
<1> QED BY <1>1, <1>5, <1>6, <1>7, <1>8, <1>9, <1>10 DEF StreamInv

\* Every step keeps it, and loses no piece of a request without a cause.
LEMMA StreamsKeep ==
    ASSUME PoolIInv, StreamInv, StreamsNext
    PROVE  StreamInv' /\ Kept
<1>1. IInv /\ PoolInv
  BY DEF PoolIInv
<1>2. IInv'
  BY NextPool, StreamsStep DEF PoolIInv
<1>3. CASE StreamAccept
  BY <1>1, <1>2, <1>3, StreamAcceptInv
<1>4. CASE StreamPair
  BY <1>1, <1>2, <1>4, StreamPairInv
<1>5. ASSUME NEW k \in Socks, StreamRead(k)
      PROVE  StreamInv' /\ Kept
  BY <1>1, <1>2, <1>5, StreamReadInv
<1>6. ASSUME NEW k \in Socks, StreamWrite(k)
      PROVE  StreamInv' /\ Kept
  BY <1>1, <1>6, StreamWriteStep
<1>7. ASSUME NEW k \in Socks, ClientSends(k)
      PROVE  StreamInv' /\ Kept
  BY <1>1, <1>7, ClientSendsInv
<1>8. ASSUME NEW k \in Socks, PrivateShakes(k) \/ PrivateAnswers(k)
      PROVE  StreamInv' /\ Kept
  BY <1>1, <1>8, PrivateInv
<1>9. CASE /\ \/ EpollWait \/ PairSkip \/ PairingDone \/ \E l \in Listeners : AcceptFails(l)
              \/ \E k \in Socks : StaleEvent(k) \/ PeerFin(k) \/ PeerReset(k)
           /\ Same /\ Unsent /\ UNCHANGED <<who, served>>
  BY <1>1, <1>9, QuietStep
<1> QED BY <1>3, <1>4, <1>5, <1>6, <1>7, <1>8, <1>9 DEF StreamsNext

LEMMA StutterKeeps ==
    ASSUME HeapInv, StreamInv, UNCHANGED streamVars
    PROVE  StreamInv'
<1>1. UNCHANGED <<tun, sock, dials, fault, held, who, sent, got, given, served>>
  BY DEF streamVars, vars
<1>2. Histories' /\ WhoOK' /\ Freed(held)' /\ BuffersAgree' /\ held' \in [Socks -> Buffers]
  BY <1>1 DEF StreamInv, Histories, WhoOK, Arrived, Opened, Client, Priv, Freed, BuffersAgree
<1>3. Ordered(held, got') /\ Bound(held) /\ Empty(sock)
  BY <1>1, Standing
<1>4. Sides /\ BoundKept
  BY <1>1, <1>3 DEF Sides, BoundKept, Empty
<1>5. Settle(held)
  BY <1>1, SameHeld
<1>6. Holds(held)' /\ HandshakeFirst(held, got)' /\ InLine(held, got)' /\ OneCarrier(held)'
  BY <1>1, <1>3, <1>4, <1>5, MovedOrder
<1>7. Bound(held)'
  BY <1>1, <1>3, <1>4, <1>5, MovedBound
<1> QED BY <1>2, <1>6, <1>7 DEF StreamInv

LEMMA StreamsAlways == StreamsSpec => [](PoolIInv /\ StreamInv)
<1>1. StreamsInit => PoolIInv /\ StreamInv
  BY StreamsInitInv
<1>2. PoolIInv /\ StreamInv /\ [StreamsNext]_streamVars => (PoolIInv /\ StreamInv)'
  BY NextPool, StreamsStep, StreamsKeep, StutterKeeps DEF PoolIInv, IInv
<1> QED BY <1>1, <1>2, PTL DEF StreamsSpec

\* Types, and the one bit per buffer by which TunnelServer decides is right about what the
\* buffer holds, for every number of sockets, clients and pieces.
THEOREM StreamTypes == StreamsSpec => []StreamsTypeOK
<1>1. PoolIInv /\ StreamInv => StreamsTypeOK
  <2> SUFFICES ASSUME PoolIInv, StreamInv PROVE StreamsTypeOK
    OBVIOUS
  <2>1. TypeOK
    BY DEF PoolIInv, IInv, HeapInv, ListsOK, LoopOK, TypeOK
  <2> QED BY <2>1 DEF StreamInv, StreamsTypeOK, Buffers, Histories, Delivered, WhoOK, Note
<1> QED BY <1>1, StreamsAlways, PTL

\* The private side gets each client's request in order and no piece of it twice: a client
\* is bound to one tunnel in its life, so its pieces never take two ways, and what waits to
\* be written is behind what was written and before what is still to come.
THEOREM RequestsOrdered == StreamsSpec => []RequestsInOrder
<1>1. StreamInv => RequestsInOrder
  <2> SUFFICES ASSUME StreamInv PROVE RequestsInOrder
    OBVIOUS
  <2>1. Sorted(got) /\ got \in Seq(Delivered)
    BY DEF StreamInv, InLine, Histories
  <2>2. \A i \in DOMAIN got : got[i].from # 0
    <3>1. \A i \in DOMAIN got : got[i] \in Delivered
      BY <2>1, LenProperties, ElementOfSeq
    <3> QED BY <3>1 DEF Delivered, Clients
  <2> QED BY <2>1, <2>2 DEF Sorted, RequestsInOrder
<1> QED BY <1>1, StreamsAlways, PTL

\* A piece of a request is lost only with the socket that held it, or under the fixed page
\* that a parked client is answered with: reading, relaying, pairing, a partial write and
\* the closing of other sockets leave it in a buffer, or write it to the private side.
THEOREM RequestsKept == StreamsSpec => RequestLossHasCause
<1>1. PoolIInv /\ StreamInv /\ [StreamsNext]_streamVars =>
        [\A k \in Socks : \A x \in Within(held[k]) :
           x.from # 0 /\ ~Reached(x)' /\ (\A j \in Socks : x \notin Within(held'[j])) =>
             ~sock'[k].alloc \/ tun[sock[k].tunnel].state = "tunnel_waitting"]_streamVars
  <2> SUFFICES ASSUME PoolIInv, StreamInv, StreamsNext,
                      NEW k \in Socks, NEW x \in Within(held[k]), x.from # 0, ~Reached(x)',
                      \A j \in Socks : x \notin Within(held'[j]), sock'[k].alloc,
                      tun[sock[k].tunnel].state # "tunnel_waitting"
               PROVE  FALSE
    OBVIOUS
  <2>1. PICK h : Settle(h) /\ Lossless(h)
    BY StreamsKeep DEF Kept
  <2>2. sock[k].alloc
    <3>1. Within(Nothing) = {}
      BY DEF Within, Nothing, ToSet
    <3> QED BY <3>1 DEF StreamInv, Freed
  <2>3. PICK j \in Socks : sock'[j].alloc /\ x \in Within(h[j])
    BY <2>1, <2>2 DEF Lossless
  <2>4. held'[j] = h[j]
    BY <2>1, <2>3, SettledAt
  <2> QED BY <2>3, <2>4
<1> QED BY <1>1, StreamsAlways, PTL DEF StreamsSpec, RequestLossHasCause

----------------------------------------------------------------------------
(* Answers.                                                                *)

\* What is still to come over a private connection rises, behind what came over it before,
\* what a finished client was given left aside.
Rising(q) == \A i, j \in DOMAIN q : i < j => q[j].n = 0 \/ q[i].n < q[j].n
Below(q, r) == \A i \in DOMAIN q, j \in DOMAIN r : r[j].n = 0 \/ q[i].n < r[j].n
Upto(q, m) == \A i \in DOMAIN q : q[i].n <= m
Behind(g, v, q) ==
    \A i \in DOMAIN g, j \in DOMAIN q : g[i].via = v /\ ~g[i].fin => q[j].n = 0 \/ g[i].n < q[j].n
Due(v, q, g, m) == Rising(q) /\ Upto(q, m) /\ Behind(g, v, q)
DueAt(h, g, m) == \A p \in Socks : Priv(p) => Due(who[p], Coming(h[p]), g, m)
Once(g) == \A i, j \in DOMAIN g : i < j /\ g[i].via = g[j].via => g[i].n < g[j].n \/ g[i].fin
AnswersInv == Once(given) /\ Upto(given, sent[0]) /\ DueAt(held, given, sent[0])

LEMMA ConcatUpto ==
    ASSUME NEW S, NEW q \in Seq(S), NEW r \in Seq(S), NEW m
    PROVE  Upto(q \o r, m) <=> Upto(q, m) /\ Upto(r, m)
<1> DEFINE z == q \o r
<1>0. /\ \A i \in DOMAIN q : i \in DOMAIN z /\ z[i] = q[i]
      /\ \A j \in DOMAIN r : Len(q) + j \in DOMAIN z /\ z[Len(q) + j] = r[j]
  BY ConcatFrom
<1>1. /\ \A i \in DOMAIN q : i \in DOMAIN z /\ z[i] = q[i]
      /\ \A j \in DOMAIN r : \E i \in DOMAIN z : z[i] = r[j]
  BY <1>0
<1>2. \A i \in DOMAIN z : \/ i \in DOMAIN q /\ z[i] = q[i]
                          \/ \E j \in DOMAIN r : z[i] = r[j]
  BY ConcatAt
<1> HIDE DEF z
<1>3. Upto(z, m) <=> Upto(q, m) /\ Upto(r, m)
  BY <1>1, <1>2 DEF Upto
<1> QED BY <1>3 DEF z

LEMMA ConcatBehind ==
    ASSUME NEW S, NEW q \in Seq(S), NEW r \in Seq(S), NEW g, NEW v
    PROVE  Behind(g, v, q \o r) <=> Behind(g, v, q) /\ Behind(g, v, r)
<1> DEFINE z == q \o r
<1>0. /\ \A i \in DOMAIN q : i \in DOMAIN z /\ z[i] = q[i]
      /\ \A j \in DOMAIN r : Len(q) + j \in DOMAIN z /\ z[Len(q) + j] = r[j]
  BY ConcatFrom
<1>1. /\ \A i \in DOMAIN q : i \in DOMAIN z /\ z[i] = q[i]
      /\ \A j \in DOMAIN r : \E i \in DOMAIN z : z[i] = r[j]
  BY <1>0
<1>2. \A i \in DOMAIN z : \/ i \in DOMAIN q /\ z[i] = q[i]
                          \/ \E j \in DOMAIN r : z[i] = r[j]
  BY ConcatAt
<1> HIDE DEF z
<1>3. Behind(g, v, z) <=> Behind(g, v, q) /\ Behind(g, v, r)
  BY <1>1, <1>2 DEF Behind
<1> QED BY <1>3 DEF z

LEMMA ConcatBelow ==
    ASSUME NEW S, NEW q \in Seq(S), NEW r \in Seq(S), NEW x
    PROVE  /\ Below(q \o r, x) <=> Below(q, x) /\ Below(r, x)
           /\ Below(x, q \o r) <=> Below(x, q) /\ Below(x, r)
<1> DEFINE z == q \o r
<1>0. /\ \A i \in DOMAIN q : i \in DOMAIN z /\ z[i] = q[i]
      /\ \A j \in DOMAIN r : Len(q) + j \in DOMAIN z /\ z[Len(q) + j] = r[j]
  BY ConcatFrom
<1>1. /\ \A i \in DOMAIN q : i \in DOMAIN z /\ z[i] = q[i]
      /\ \A j \in DOMAIN r : \E i \in DOMAIN z : z[i] = r[j]
  BY <1>0
<1>2. \A i \in DOMAIN z : \/ i \in DOMAIN q /\ z[i] = q[i]
                          \/ \E j \in DOMAIN r : z[i] = r[j]
  BY ConcatAt
<1> HIDE DEF z
<1>3. Below(z, x) <=> Below(q, x) /\ Below(r, x)
  BY <1>1, <1>2, SMTT(30) DEF Below
<1>4. Below(x, z) <=> Below(x, q) /\ Below(x, r)
  BY <1>1, <1>2, SMTT(30) DEF Below
<1> QED BY <1>3, <1>4 DEF z

LEMMA ConcatRising ==
    ASSUME NEW S, NEW q \in Seq(S), NEW r \in Seq(S)
    PROVE  Rising(q \o r) <=> Rising(q) /\ Rising(r) /\ Below(q, r)
<1> DEFINE z == q \o r
           a == Len(q)
<1>1. a \in Nat /\ DOMAIN q = 1..a /\ DOMAIN r = 1..Len(r) /\ Len(r) \in Nat
  BY LenProperties
<1>2. /\ \A i \in DOMAIN q : i \in DOMAIN z /\ z[i] = q[i] /\ i <= a
      /\ \A j \in DOMAIN r : a + j \in DOMAIN z /\ z[a + j] = r[j] /\ j >= 1
  BY ConcatFrom
<1>3. \A i \in DOMAIN z : \/ i \in DOMAIN q /\ z[i] = q[i]
                          \/ \E j \in DOMAIN r : i = a + j /\ z[i] = r[j]
  BY ConcatAt
<1> HIDE DEF z, a
<1>4. ASSUME Rising(z)
      PROVE  Rising(q) /\ Rising(r) /\ Below(q, r)
  <2>1. Rising(q)
    BY <1>2, <1>4 DEF Rising
  <2>2. Rising(r)
    <3> SUFFICES ASSUME NEW i \in DOMAIN r, NEW j \in DOMAIN r, i < j
                 PROVE  r[j].n = 0 \/ r[i].n < r[j].n
      BY DEF Rising
    <3>1. a + i < a + j
      BY <1>1
    <3> QED BY <1>2, <1>4, <3>1 DEF Rising
  <2>3. Below(q, r)
    <3> SUFFICES ASSUME NEW i \in DOMAIN q, NEW j \in DOMAIN r
                 PROVE  r[j].n = 0 \/ q[i].n < r[j].n
      BY DEF Below
    <3>1. i < a + j
      BY <1>1
    <3> QED BY <1>2, <1>4, <3>1 DEF Rising
  <2> QED BY <2>1, <2>2, <2>3
<1>5. ASSUME Rising(q), Rising(r), Below(q, r)
      PROVE  Rising(z)
  <2> SUFFICES ASSUME NEW i \in DOMAIN z, NEW j \in DOMAIN z, i < j
               PROVE  z[j].n = 0 \/ z[i].n < z[j].n
    BY DEF Rising
  <2>1. CASE i \in DOMAIN q /\ z[i] = q[i]
    BY <1>3, <1>5, <2>1 DEF Rising, Below
  <2>2. CASE \E m \in DOMAIN r : i = a + m /\ z[i] = r[m]
    <3>1. PICK m \in DOMAIN r : i = a + m /\ z[i] = r[m]
      BY <2>2
    <3>2. j \notin DOMAIN q
      BY <1>1, <3>1
    <3>3. PICK l \in DOMAIN r : j = a + l /\ z[j] = r[l]
      BY <1>3, <3>2
    <3>4. m < l
      BY <1>1, <3>1, <3>3
    <3> QED BY <1>5, <3>1, <3>3, <3>4 DEF Rising
  <2> QED BY <1>3, <2>1, <2>2
<1> QED BY <1>4, <1>5 DEF z

LEMMA DueParts ==
    ASSUME NEW S, NEW q \in Seq(S), NEW r \in Seq(S), NEW v, NEW g, NEW m
    PROVE  Due(v, q \o r, g, m) <=> Due(v, q, g, m) /\ Due(v, r, g, m) /\ Below(q, r)
<1>1. /\ Rising(q \o r) <=> Rising(q) /\ Rising(r) /\ Below(q, r)
      /\ Upto(q \o r, m) <=> Upto(q, m) /\ Upto(r, m)
      /\ Behind(g, v, q \o r) <=> Behind(g, v, q) /\ Behind(g, v, r)
  BY ConcatRising, ConcatUpto, ConcatBehind
<1> QED BY <1>1 DEF Due

LEMMA FirstAndTail ==
    ASSUME NEW S, NEW q \in Seq(S), q # <<>>
    PROVE  /\ <<q[1]>> \in Seq(S) /\ Tail(q) \in Seq(S)
           /\ q = <<q[1]>> \o Tail(q)
<1> DEFINE n == Len(q)
<1>1. n \in Nat /\ DOMAIN q = 1..n /\ \A i \in 1..n : q[i] \in S
  BY LenProperties, ElementOfSeq
<1>2. Tail(q) = SubSeq(q, 2, n) /\ 1 \in 1..n /\ Tail(q) \in Seq(S)
  BY <1>1, TailIsSubSeq, EmptySeq, HeadTailProperties
<1>3. SubSeq(q, 1, n) = <<q[1]>> \o SubSeq(q, 1 + 1, n)
  BY <1>1, <1>2, SubSeqRecursiveFirst
<1>4. SubSeq(q, 1, n) = q /\ 1 + 1 = 2
  BY SubSeqFull
<1>5. <<q[1]>> \in Seq(S)
  BY <1>1, <1>2
<1> QED BY <1>2, <1>3, <1>4, <1>5

\* Reading keeps the order: at most a piece that is nobody's is merged.
LEMMA JoinDue ==
    ASSUME NEW q \in Seq(Piece), NEW r \in Seq(Piece), NEW v, NEW g, NEW m, Due(v, q \o r, g, m)
    PROVE  Due(v, Join(q, r), g, m)
<1>1. CASE Join(q, r) = q \o r
  BY <1>1
<1>2. CASE r # <<>> /\ Join(q, r) = q \o Tail(r) /\ Tail(r) \in Seq(Piece)
  <2> DEFINE a == <<r[1]>>
             b == Tail(r)
  <2>1. a \in Seq(Piece) /\ b \in Seq(Piece) /\ r = a \o b
    BY <1>2, FirstAndTail
  <2> HIDE DEF a, b
  <2>2. Due(v, q, g, m) /\ Due(v, r, g, m) /\ Below(q, r)
    BY DueParts
  <2>3. Due(v, b, g, m)
    BY <2>1, <2>2, DueParts
  <2>4. Below(q, b)
    BY <2>1, <2>2, ConcatBelow
  <2>5. Due(v, q \o b, g, m)
    BY <2>1, <2>2, <2>3, <2>4, DueParts
  <2> QED BY <1>2, <2>5 DEF b
<1>3. \/ Join(q, r) = q \o r
      \/ r # <<>> /\ Join(q, r) = q \o Tail(r) /\ Tail(r) \in Seq(Piece)
  <2>1. \/ Join(q, r) = q \o r
        \/ /\ q # <<>> /\ r # <<>> /\ q[Len(q)] = Anonymous /\ r[1] = Anonymous
           /\ Join(q, r) = q \o Tail(r) /\ Tail(r) \in Seq(Piece)
    BY JoinCases
  <2> QED BY <2>1
<1> QED BY <1>1, <1>2, <1>3

\* Answers are noted behind those noted before; what is behind them stays behind, and they
\* themselves may be relayed again if the client they were given to has finished.
LEMMA NotesDue ==
    ASSUME NEW g \in Seq(Note), NEW m, NEW v, NEW fin, NEW q \in Seq(Named(Answers)), HeadOnly(q),
           NEW r \in Seq(Piece), Once(g), Upto(g, m), Due(v, q \o r, g, m),
           NEW new \in Seq(Note), DOMAIN new = DOMAIN Numbered(q),
           \A i \in DOMAIN new : new[i].n = Numbered(q)[i].n /\ new[i].via = v /\ new[i].fin = fin
    PROVE  /\ Once(g \o new) /\ Upto(g \o new, m)
           /\ Due(v, r, g \o new, m)
           /\ fin => Due(v, q \o r, g \o new, m)
           /\ \A u, x : u # v /\ Due(u, x, g, m) => Due(u, x, g \o new, m)
<1> DEFINE e == Numbered(q)
           z == g \o new
           a == Len(g)
<1>1. e \in Seq(Answers) /\ \E lead \in Seq({Anonymous}) : q = lead \o e
  BY NotAnonymous, NumberedOf
<1> HIDE DEF e
<1>2. PICK lead \in Seq({Anonymous}) : q = lead \o e
  BY <1>1
<1>3. lead \in Seq(Piece) /\ e \in Seq(Piece) /\ q \in Seq(Piece)
  BY <1>1, Pieces, SeqMonotonic
<1>4. Due(v, q, g, m) /\ Due(v, r, g, m) /\ Below(q, r)
  BY <1>3, DueParts
<1>5. Due(v, e, g, m)
  BY <1>2, <1>3, <1>4, DueParts
<1>6. Below(e, r)
  BY <1>2, <1>3, <1>4, ConcatBelow
<1>7. \A i \in DOMAIN e : e[i].n # 0
  <2>1. \A i \in DOMAIN e : e[i] \in Answers
    BY <1>1, LenProperties, ElementOfSeq
  <2> QED BY <2>1 DEF Answers
<1>8. DOMAIN new = DOMAIN e /\ \A i \in DOMAIN new : new[i].n = e[i].n /\ new[i].via = v /\ new[i].fin = fin
  BY DEF e
<1>9. Upto(z, m)
  <2>1. Upto(new, m)
    BY <1>5, <1>8 DEF Due, Upto
  <2> QED BY <2>1, ConcatUpto
<1>10. \A i \in DOMAIN z : \/ i \in DOMAIN g /\ z[i] = g[i]
                           \/ \E j \in DOMAIN new : i = a + j /\ z[i] = new[j]
  BY ConcatAt
<1>11. a \in Nat /\ DOMAIN g = 1..a /\ Len(new) \in Nat /\ DOMAIN new = 1..Len(new)
  BY LenProperties
<1> HIDE DEF z, a
<1>12. Once(z)
  <2> SUFFICES ASSUME NEW i \in DOMAIN z, NEW j \in DOMAIN z, i < j, z[i].via = z[j].via, ~z[i].fin
               PROVE  z[i].n < z[j].n
    BY DEF Once
  <2>1. CASE i \in DOMAIN g /\ z[i] = g[i]
    <3>1. CASE j \in DOMAIN g /\ z[j] = g[j]
      BY <2>1, <3>1 DEF Once
    <3>2. CASE \E l \in DOMAIN new : j = a + l /\ z[j] = new[l]
      <4>1. PICK l \in DOMAIN new : z[j] = new[l]
        BY <3>2
      <4>2. l \in DOMAIN e /\ z[j].n = e[l].n /\ g[i].via = v /\ ~g[i].fin
        BY <1>8, <2>1, <4>1
      <4>3. e[l].n = 0 \/ g[i].n < e[l].n
        BY <1>5, <2>1, <4>2 DEF Due, Behind
      <4> QED BY <1>7, <2>1, <4>2, <4>3
    <3> QED BY <1>10, <3>1, <3>2
  <2>2. CASE \E l \in DOMAIN new : i = a + l /\ z[i] = new[l]
    <3>1. PICK l \in DOMAIN new : i = a + l /\ z[i] = new[l]
      BY <2>2
    <3>2. j \notin DOMAIN g
      BY <1>11, <3>1
    <3>3. PICK b \in DOMAIN new : j = a + b /\ z[j] = new[b]
      BY <1>10, <3>2
    <3>4. l < b
      BY <1>11, <3>1, <3>3
    <3>5. e[b].n = 0 \/ e[l].n < e[b].n
      BY <1>5, <1>8, <3>4 DEF Due, Rising
    <3> QED BY <1>7, <1>8, <3>1, <3>3, <3>5
  <2> QED BY <1>10, <2>1, <2>2
<1>13. \A i \in DOMAIN z : \/ i \in DOMAIN g /\ z[i] = g[i]
                           \/ \E j \in DOMAIN new : z[i] = new[j]
  BY <1>10
<1>14. ASSUME NEW u, NEW x, Behind(g, u, x), u = v => fin \/ Below(e, x)
       PROVE  Behind(z, u, x)
  <2> SUFFICES ASSUME NEW i \in DOMAIN z, NEW j \in DOMAIN x, z[i].via = u, ~z[i].fin
               PROVE  x[j].n = 0 \/ z[i].n < x[j].n
    BY DEF Behind
  <2>1. CASE i \in DOMAIN g /\ z[i] = g[i]
    BY <1>14, <2>1 DEF Behind
  <2>2. CASE \E l \in DOMAIN new : z[i] = new[l]
    <3>1. PICK l \in DOMAIN new : z[i] = new[l]
      BY <2>2
    <3>2. l \in DOMAIN e /\ z[i].n = e[l].n /\ u = v /\ ~fin
      BY <1>8, <3>1
    <3> QED BY <1>14, <3>2 DEF Below
  <2> QED BY <1>13, <2>1, <2>2
<1>15. Due(v, r, z, m)
  BY <1>4, <1>6, <1>14 DEF Due
<1>16. fin => Due(v, q \o r, z, m)
  BY <1>14 DEF Due
<1>17. \A u, x : u # v /\ Due(u, x, g, m) => Due(u, x, z, m)
  BY <1>14 DEF Due
<1> QED BY <1>9, <1>12, <1>15, <1>16, <1>17 DEF z

\* What the three steps on a private socket's buffers leave to come.
LEMMA OneDue ==
    ASSUME NEW h, Holds(h), NEW g, NEW m, DueAt(h, g, m), NEW k \in Socks, NEW y,
           Priv(k) => Due(who[k], Coming(y), g, m)
    PROVE  DueAt([h EXCEPT ![k] = y], g, m)
<1> DEFINE h2 == [h EXCEPT ![k] = y]
<1>1. \A j \in Socks : h2[j] = IF j = k THEN y ELSE h[j]
  BY DEF Holds
<1> HIDE DEF h2
<1>2. DueAt(h2, g, m)
  BY <1>1 DEF DueAt
<1> QED BY <1>2 DEF h2

LEMMA ReadInDue ==
    ASSUME Holds(held), NEW g, NEW m, DueAt(held, g, m), NEW k \in Socks
    PROVE  DueAt(ReadIn(k), g, m)
<1> DEFINE b == held[k].rbuf
           c == held[k].rx
           y == [rx |-> <<>>, rbuf |-> Join(b, c), wbuf |-> held[k].wbuf]
<1>1. b \in Seq(Piece) /\ c \in Seq(Piece)
  BY DEF Holds, HoldsAt
<1>2. Coming(held[k]) = b \o c
  BY DEF Coming
<1> HIDE DEF b, c
<1>3. Join(b, c) \in Seq(Piece) /\ Join(b, c) \o <<>> = Join(b, c)
  BY <1>1, JoinCases, ConcatEmptySeq
<1>4. Coming(y) = Join(b, c)
  BY <1>3 DEF Coming
<1>5. Priv(k) => Due(who[k], Coming(y), g, m)
  BY <1>1, <1>2, <1>4, JoinDue DEF DueAt
<1> HIDE DEF y
<1>6. ReadIn(k) = [held EXCEPT ![k] = y]
  BY DEF ReadIn, y, b, c
<1>7. DueAt([held EXCEPT ![k] = y], g, m)
  BY <1>5, OneDue
<1> QED BY <1>6, <1>7

\* The rest of what was read, or nothing of it.
LEMMA RestDue ==
    ASSUME NEW h, Holds(h), NEW g, NEW m, DueAt(h, g, m), NEW p \in Socks,
           NEW some \in BOOLEAN, NEW rest \in Left(h[p].rbuf, some), NEW w
    PROVE  DueAt([h EXCEPT ![p] = [@ EXCEPT !.rbuf = rest, !.wbuf = w]], g, m)
<1> DEFINE x == h[p]
           b == x.rbuf
           c == x.rx
           y == [x EXCEPT !.rbuf = rest, !.wbuf = w]
           pre == SubSeq(b, 1, Len(b) - Len(rest))
<1>1. x \in [rx : Seq(Piece), rbuf : Seq(Piece), wbuf : Seq(Piece)] /\ b \in Seq(Piece) /\ c \in Seq(Piece)
  BY DEF Holds, HoldsAt
<1>2. Coming(x) = b \o c
  BY DEF Coming
<1>3. y.rbuf = rest /\ y.rx = c
  BY <1>1
<1> HIDE DEF y, b, c
<1>4. rest \in Seq(Piece) /\ pre \in Seq(Piece) /\ b = pre \o rest
  BY <1>1, LeftOf DEF b
<1> HIDE DEF x, pre
<1>5. Priv(p) => Due(who[p], Coming(y), g, m)
  <2> SUFFICES ASSUME Priv(p) PROVE Due(who[p], Coming(y), g, m)
    OBVIOUS
  <2> DEFINE v == who[p]
  <2>1. Due(v, b \o c, g, m)
    BY <1>2 DEF DueAt, x
  <2> HIDE DEF v
  <2>2. Due(v, b, g, m) /\ Due(v, c, g, m) /\ Below(b, c)
    BY <1>1, <2>1, DueParts
  <2>3. Due(v, rest, g, m) /\ Below(rest, c)
    BY <1>1, <1>4, <2>2, DueParts, ConcatBelow
  <2>4. Due(v, rest \o c, g, m)
    BY <1>1, <1>4, <2>2, <2>3, DueParts
  <2> QED BY <1>3, <2>4 DEF Coming, v
<1>6. DueAt([h EXCEPT ![p] = y], g, m)
  BY <1>5, OneDue
<1> QED BY <1>6 DEF y, x

\* Answers that are given to a client come behind those given before, and what is left to
\* come of their connection behind them.
LEMMA GiveDue ==
    ASSUME WhoOK, given \in Seq(Note), NEW h, Fine(h, got), NEW m, DueAt(h, given, m),
           Once(given), Upto(given, m), NEW i \in Socks, NEW j \in Socks, Priv(i), Client(j),
           Give(h[i].rbuf, i, j)
    PROVE  /\ Once(given') /\ Upto(given', m)
           /\ \A p \in Socks : Priv(p) /\ p # i => Due(who[p], Coming(h[p]), given', m)
           /\ Due(who[i], h[i].rx, given', m)
           /\ sock[j].peer # "open" => Due(who[i], Coming(h[i]), given', m)
<1> DEFINE q == h[i].rbuf
           r == h[i].rx
           v == who[i]
           new == NotedIn(q, i, j)
           fin == sock[j].peer # "open"
<1>1. HoldsAt(i, h[i]) /\ FirstAt(h[i], i, got)
  BY DEF Fine, Holds, HandshakeFirst
<1>2. q \in Seq(Named(Answers)) /\ HeadOnly(q) /\ r \in Seq(Piece)
  BY <1>1 DEF HoldsAt, FirstAt
<1>3. Coming(h[i]) = q \o r /\ Due(v, q \o r, given, m)
  BY DEF Coming, DueAt
<1>4. given' = given \o new
  BY DEF Give, Client
<1>5. /\ new \in Seq(Note) /\ DOMAIN new = DOMAIN Numbered(q)
      /\ \A l \in DOMAIN new : new[l].n = Numbered(q)[l].n /\ new[l].via = v /\ new[l].fin = fin
  <2> HIDE DEF q
  <2> QED BY <1>2, NotedNotes
<1>6. \A p \in Socks : Priv(p) /\ p # i => who[p] # v /\ Due(who[p], Coming(h[p]), given, m)
  BY DEF WhoOK, DueAt
<1> HIDE DEF q, r, v, new, fin
<1>7. /\ Once(given \o new) /\ Upto(given \o new, m)
      /\ Due(v, r, given \o new, m)
      /\ fin => Due(v, q \o r, given \o new, m)
      /\ \A u, x : u # v /\ Due(u, x, given, m) => Due(u, x, given \o new, m)
  BY <1>2, <1>3, <1>5, NotesDue
<1>8. \A p \in Socks : Priv(p) /\ p # i => Due(who[p], Coming(h[p]), given', m)
  BY <1>4, <1>6, <1>7
<1> QED BY <1>3, <1>4, <1>7, <1>8 DEF q, r, v, fin

\* Relaying clears what it has relayed.
LEMMA CarryDue ==
    ASSUME WhoOK, given \in Seq(Note), NEW h, Fine(h, got), NEW m, DueAt(h, given, m),
           Once(given), Upto(given, m), NEW i \in Socks, NEW j \in Socks, Priv(i), Client(j), Carry(h, i, j)
    PROVE  Settle(Carried(h, i, j)) /\ Once(given') /\ Upto(given', m) /\ DueAt(Carried(h, i, j), given', m)
<1> DEFINE h2 == Carried(h, i, j)
<1>1. Settle(h2) /\ Give(h[i].rbuf, i, j) /\ Holds(h) /\ i # j
  BY DEF Carry, Carried, Fine, Priv, Client
<1>2. /\ Once(given') /\ Upto(given', m)
      /\ \A p \in Socks : Priv(p) /\ p # i => Due(who[p], Coming(h[p]), given', m)
      /\ Due(who[i], h[i].rx, given', m)
  BY <1>1, GiveDue
<1>3. /\ h2[i].rbuf = <<>> /\ h2[i].rx = h[i].rx
      /\ \A p \in Socks : p \notin {i, j} => h2[p] = h[p]
  BY <1>1, CarriedAt
<1> HIDE DEF h2
<1>4. Coming(h2[i]) = h[i].rx
  <2>1. h[i].rx \in Seq(Piece)
    BY <1>1 DEF Holds, HoldsAt
  <2>2. <<>> \o h[i].rx = h[i].rx
    BY <2>1, ConcatEmptySeq
  <2> QED BY <1>3, <2>2 DEF Coming
<1>5. ~Priv(j)
  BY DEF Priv, Client
<1>6. DueAt(h2, given', m)
  BY <1>2, <1>3, <1>4, <1>5 DEF DueAt
<1> QED BY <1>1, <1>2, <1>6 DEF h2

\* Requests are relayed without a note.
LEMMA CarryBackDue ==
    ASSUME NEW h, Holds(h), NEW m, DueAt(h, given, m), Once(given), Upto(given, m),
           NEW i \in Socks, NEW j \in Socks, Client(i), Priv(j), Carry(h, i, j)
    PROVE  Settle(Carried(h, i, j)) /\ Once(given') /\ Upto(given', m) /\ DueAt(Carried(h, i, j), given', m)
<1> DEFINE h2 == Carried(h, i, j)
<1>1. Settle(h2) /\ given' = given /\ i # j
  BY DEF Carry, Carried, Give, Priv, Client
<1>2. /\ h2[j].rbuf = h[j].rbuf /\ h2[j].rx = h[j].rx
      /\ \A p \in Socks : p \notin {i, j} => h2[p] = h[p]
  BY <1>1, CarriedAt
<1> HIDE DEF h2
<1>3. ~Priv(i)
  BY DEF Priv, Client
<1>4. Coming(h2[j]) = Coming(h[j])
  BY <1>2 DEF Coming
<1>5. DueAt(h2, given, m)
  BY <1>2, <1>3, <1>4 DEF DueAt
<1> QED BY <1>1, <1>5 DEF h2

\* Released sockets lose what they hold, then.
LEMMA AnswersSettled ==
    ASSUME Sides, UNCHANGED <<who, sent>>, NEW h, Settle(h),
           Once(given'), Upto(given', sent[0]), DueAt(h, given', sent[0])
    PROVE  AnswersInv'
<1>1. \A p \in Socks : Priv(p)' => Priv(p) /\ held'[p] = h[p]
  BY SettledAt DEF Sides, Priv
<1>2. DueAt(held, given, sent[0])'
  <2> SUFFICES ASSUME NEW p \in Socks, Priv(p)'
               PROVE  Due(who'[p], Coming(held'[p]), given', sent'[0])
    BY DEF DueAt
  <2>1. Due(who[p], Coming(h[p]), given', sent[0]) /\ held'[p] = h[p]
    BY <1>1 DEF DueAt
  <2> QED BY <2>1
<1> QED BY <1>2 DEF AnswersInv

\* The sockets hold what h says, and what is still to come over each connection is in its place.
Moved(h) == Settle(h) /\ Once(given') /\ Upto(given', sent[0]) /\ DueAt(h, given', sent[0])

\* A client that has finished is given what is left for it: it may be given once more.
LEMMA LeftDue ==
    ASSUME HeapInv, StreamInv, AnswersInv, NEW k \in Socks, sock[k].alloc, sock[k].peer # "open", TakeLeft(k)
    PROVE  \E h : Moved(h)
<1> DEFINE r == sock[k].tunnel
           t == tun[r]
<1>1. /\ r \in Tunnels /\ WhoOK /\ given \in Seq(Note) /\ Fine(held, got) /\ Holds(held)
      /\ Once(given) /\ Upto(given, sent[0]) /\ DueAt(held, given, sent[0])
  BY Standing DEF HeapInv, SockInTunnel, StreamInv, Histories, AnswersInv
<1>2. CASE t.state = "connected_state" /\ k = t.remote /\ t.priv # NULL
  <2> DEFINE p == t.priv
             y == [held[k] EXCEPT !.wbuf = Join(held[k].wbuf, held[p].rbuf)]
             h == [held EXCEPT ![k] = y]
  <2>1. p \in Socks /\ Priv(p) /\ Client(k)
    <3>1. k # NULL
      OBVIOUS
    <3> QED BY <1>1, <1>2, <3>1, EndsOf
  <2>2. Settle(h) /\ Give(held[p].rbuf, p, k)
    BY <1>2 DEF TakeLeft
  <2> HIDE DEF p, y
  <2>3. /\ Once(given') /\ Upto(given', sent[0])
        /\ \A j \in Socks : Priv(j) /\ j # p => Due(who[j], Coming(held[j]), given', sent[0])
        /\ Due(who[p], Coming(held[p]), given', sent[0])
    BY <1>1, <2>1, <2>2, GiveDue
  <2>4. DueAt(held, given', sent[0])
    BY <2>3 DEF DueAt
  <2>5. DueAt(h, given', sent[0])
    <3>1. ~Priv(k)
      BY <2>1 DEF Priv, Client
    <3> QED BY <1>1, <2>4, <3>1, OneDue
  <2> QED BY <2>2, <2>3, <2>5 DEF Moved
<1>3. CASE ~(t.state = "connected_state" /\ k = t.remote /\ t.priv # NULL)
  <2>1. Settle(held) /\ given' = given
    BY <1>3 DEF TakeLeft
  <2> QED BY <1>1, <2>1 DEF Moved
<1> QED BY <1>2, <1>3

LEMMA ReadDue ==
    ASSUME HeapInv, HeapInv', StreamInv, AnswersInv, NEW k \in Socks, sock[k].alloc, TakeRead(k)
    PROVE  \E h : Moved(h)
<1> DEFINE r == sock[k].tunnel
           t == tun[r]
           h == ReadIn(k)
           other == IF sock[k].ispriv THEN t.remote ELSE t.priv
           mine == IF sock[k].ispriv THEN t.priv ELSE t.remote
           m == sent[0]
<1>1. /\ r \in Tunnels /\ WhoOK /\ given \in Seq(Note) /\ Fine(held, got) /\ Holds(held)
      /\ Once(given) /\ Upto(given, m) /\ DueAt(held, given, m)
  BY Standing DEF HeapInv, SockInTunnel, StreamInv, Histories, AnswersInv
<1>2. Fine(h, got) /\ Holds(h) /\ DueAt(h, given, m)
  <2>1. Fine(h, got)
    BY <1>1, ReadInFine
  <2>2. DueAt(h, given, m)
    BY <1>1, ReadInDue
  <2> QED BY <2>1, <2>2 DEF Fine
<1>3. /\ t.priv # NULL => t.priv \in Socks /\ Priv(t.priv)
      /\ t.remote # NULL => t.remote \in Socks /\ Client(t.remote)
  BY <1>1, EndsOf
<1>4. \/ ~sock[k].rx /\ sock[k].peer # "open" /\ TakeLeft(k)
      \/ Settle(held) /\ given' = given
      \/ t.priv # NULL /\ TakeHandshake(h, t.priv)
      \/ other # NULL /\ mine # NULL /\ Carry(h, mine, other)
      \/ t.remote # NULL /\ TakePage(h, t.remote)
      \/ Settle(h) /\ given' = given
  BY DEF TakeRead
<1> HIDE DEF h
<1>5. CASE sock[k].peer # "open" /\ TakeLeft(k)
  BY <1>5, LeftDue
<1>6. CASE Settle(held) /\ given' = given
  BY <1>1, <1>6 DEF Moved
<1>7. CASE t.priv # NULL /\ TakeHandshake(h, t.priv)
  <2> DEFINE p == t.priv
             w == IF sock'[p].wbuf /\ h[p].wbuf = <<>> THEN <<Anonymous>> ELSE h[p].wbuf
  <2>1. p \in Socks /\ sock'[p].rbuf \in BOOLEAN
    BY <1>3, <1>7 DEF HeapInv, Sock
  <2>2. given' = given
    BY <1>7 DEF TakeHandshake
  <2>3. PICK rest \in Left(h[p].rbuf, sock'[p].rbuf) : Settle([h EXCEPT ![p] = [@ EXCEPT !.rbuf = rest, !.wbuf = w]])
    BY <1>7 DEF TakeHandshake
  <2> HIDE DEF p, w
  <2>4. DueAt([h EXCEPT ![p] = [@ EXCEPT !.rbuf = rest, !.wbuf = w]], given, m)
    BY <1>2, <2>1, RestDue
  <2> QED BY <1>1, <2>2, <2>3, <2>4 DEF Moved
<1>8. CASE other # NULL /\ mine # NULL /\ Carry(h, mine, other)
  <2>1. CASE sock[k].ispriv
    <3>1. mine \in Socks /\ other \in Socks /\ Priv(mine) /\ Client(other)
      BY <1>3, <1>8, <2>1
    <3> HIDE DEF mine, other
    <3> QED BY <1>1, <1>2, <1>8, <3>1, CarryDue DEF Moved
  <2>2. CASE ~sock[k].ispriv
    <3>1. mine \in Socks /\ other \in Socks /\ Client(mine) /\ Priv(other)
      BY <1>3, <1>8, <2>2
    <3> HIDE DEF mine, other
    <3> QED BY <1>1, <1>2, <1>8, <3>1, CarryBackDue DEF Moved
  <2> QED BY <2>1, <2>2
<1>9. CASE t.remote # NULL /\ TakePage(h, t.remote)
  <2> DEFINE q == t.remote
             w == Join(h[q].wbuf, <<Anonymous>>)
             rest == <<>>
  <2>1. q \in Socks /\ given' = given /\ rest \in Left(h[q].rbuf, FALSE)
    BY <1>3, <1>9 DEF TakePage, Left
  <2>2. Settle([h EXCEPT ![q] = [@ EXCEPT !.rbuf = rest, !.wbuf = w]])
    BY <1>9 DEF TakePage
  <2> HIDE DEF q, w, rest
  <2>3. DueAt([h EXCEPT ![q] = [@ EXCEPT !.rbuf = rest, !.wbuf = w]], given, m)
    BY <1>2, <2>1, RestDue
  <2> QED BY <1>1, <2>1, <2>2, <2>3 DEF Moved
<1>10. CASE Settle(h) /\ given' = given
  BY <1>1, <1>2, <1>10 DEF Moved
<1> QED BY <1>4, <1>5, <1>6, <1>7, <1>8, <1>9, <1>10

----------------------------------------------------------------------------
(* Every step keeps what is to come behind what came.                      *)

LEMMA StreamReadAnswers ==
    ASSUME IInv, IInv', PoolInv, StreamInv, AnswersInv, NEW k \in Socks, StreamRead(k)
    PROVE  AnswersInv'
<1>1. HeapInv /\ HeapInv' /\ sock[k].alloc /\ TakeRead(k) /\ UNCHANGED <<who, sent>>
  BY DEF IInv, StreamRead, ReadHandle, Unsent
<1>2. Sides
  <2>1. Effect(sock[k].tunnel) /\ sock[k].tunnel \in Tunnels
    BY <1>1, StreamReadStep DEF HeapInv, SockInTunnel
  <2> QED BY <1>1, <2>1, EffectBound
<1>3. PICK h : Moved(h)
  BY <1>1, ReadDue
<1> QED BY <1>1, <1>2, <1>3, AnswersSettled DEF Moved

LEMMA StreamWriteAnswers ==
    ASSUME IInv, PoolInv, StreamInv, AnswersInv, NEW k \in Socks, StreamWrite(k)
    PROVE  AnswersInv'
<1>1. WriteHandle(k) /\ UNCHANGED <<who, sent, given>>
  BY DEF StreamWrite
<1>2. Sides
  <2>1. Empty(sock)
    BY Standing DEF IInv
  <2> QED BY <1>1, <2>1, WriteEffect
<1>3. PICK rest : Settle([held EXCEPT ![k] = [@ EXCEPT !.wbuf = rest]])
  BY DEF StreamWrite
<1> DEFINE y == [held[k] EXCEPT !.wbuf = rest]
           h == [held EXCEPT ![k] = y]
<1>4. Holds(held) /\ Once(given) /\ Upto(given, sent[0]) /\ DueAt(held, given, sent[0])
  BY DEF StreamInv, AnswersInv
<1>5. Priv(k) => Due(who[k], Coming(y), given, sent[0])
  <2>1. y.rx = held[k].rx /\ y.rbuf = held[k].rbuf
    BY <1>4 DEF Holds, HoldsAt
  <2> HIDE DEF y
  <2>2. Coming(y) = Coming(held[k])
    BY <2>1 DEF Coming
  <2> QED BY <1>4, <2>2 DEF DueAt
<1>6. Settle(h)
  BY <1>3
<1> HIDE DEF y
<1>7. DueAt(h, given, sent[0])
  BY <1>4, <1>5, OneDue
<1> QED BY <1>1, <1>2, <1>4, <1>6, <1>7, AnswersSettled

\* Nothing comes, and nobody changes sides.
LEMMA StillAnswers ==
    ASSUME AnswersInv, UNCHANGED <<held, given, who, sent>>, \A j \in Socks : Priv(j)' => Priv(j)
    PROVE  AnswersInv'
<1>1. DueAt(held, given, sent[0])'
  BY DEF AnswersInv, DueAt
<1> QED BY <1>1 DEF AnswersInv

LEMMA StreamPairAnswers ==
    ASSUME IInv, IInv', PoolInv, StreamInv, AnswersInv, StreamPair
    PROVE  AnswersInv'
<1>1. PairBind /\ UNCHANGED <<who, sent>>
  BY DEF StreamPair, Unsent
<1>2. PICK w \in Tunnels, r \in Tunnels, k \in Socks : Paired(w, r, k)
  BY <1>1, PairMoves
<1>3. Sides /\ \A j \in Socks : sock'[j].alloc <=> sock[j].alloc
  BY <1>2, PairSides
<1>4. Settle(held) /\ given' = given
  BY <1>3, PairHeld
<1>5. Once(given) /\ Upto(given, sent[0]) /\ DueAt(held, given, sent[0])
  BY DEF AnswersInv
<1> QED BY <1>1, <1>3, <1>4, <1>5, AnswersSettled

\* A new connection has sent nothing.
LEMMA StreamAcceptAnswers ==
    ASSUME IInv, PoolInv, StreamInv, AnswersInv, StreamAccept
    PROVE  AnswersInv'
<1>1. /\ UNCHANGED <<held, given, sent>>
      /\ \A j \in Socks : sock[j].alloc => who'[j] = who[j]
  BY DEF StreamAccept, Same, Unsent
<1>2. \A j \in Socks : sock[j].alloc => sock'[j] = sock[j]
  <2>1. CASE AcceptPriv
    <3>1. PICK k \in Socks, r \in Tunnels : Accepted(k, r)
      BY <2>1, AcceptPrivMoves
    <3> QED BY <3>1 DEF Accepted
  <2>2. CASE AcceptRemote
    <3>1. UNCHANGED sock \/ \E k \in Socks, r \in Tunnels : Accepted(k, r)
      BY <2>2, AcceptRemoteMoves
    <3> QED BY <3>1 DEF Accepted
  <2> QED BY <2>1, <2>2 DEF StreamAccept
<1>3. DueAt(held, given, sent[0])'
  <2> SUFFICES ASSUME NEW p \in Socks, Priv(p)'
               PROVE  Due(who'[p], Coming(held[p]), given, sent[0])
    BY <1>1 DEF DueAt
  <2>1. CASE sock[p].alloc
    <3>1. Priv(p) /\ who'[p] = who[p]
      BY <1>1, <1>2, <2>1 DEF Priv
    <3> QED BY <3>1 DEF AnswersInv, DueAt
  <2>2. CASE ~sock[p].alloc
    <3>1. Coming(held[p]) = <<>>
      BY <2>2, NothingFine DEF StreamInv, Freed
    <3> QED BY <3>1 DEF Due, Rising, Upto, Behind
  <2> QED BY <2>1, <2>2
<1> QED BY <1>1, <1>3 DEF AnswersInv

LEMMA ClientSendsAnswers ==
    ASSUME IInv, StreamInv, AnswersInv, NEW k \in Socks, ClientSends(k)
    PROVE  AnswersInv'
<1>1. /\ sock[k].alloc /\ ~sock[k].ispriv /\ held \in [Socks -> Buffers] /\ WhoOK
      /\ sock' = [sock EXCEPT ![k] = [@ EXCEPT !.rx = TRUE]] /\ sock \in [Socks -> Sock]
  <2>1. PeerSend(k) /\ ~sock[k].ispriv
    BY DEF ClientSends
  <2> QED BY <2>1, PeerSends DEF HeapInv
<1>2. Client(k) /\ ~Priv(k)
  BY <1>1 DEF Client, Priv
<1>3. sent'[0] = sent[0]
  <2>1. who[k] \in Clients /\ sent \in [Clients \cup {0} -> Nat] /\ 0 \notin Clients
    BY <1>1, <1>2 DEF WhoOK, Clients
  <2> QED BY <2>1 DEF ClientSends
<1>4. \A j \in Socks : j # k => sock'[j] = sock[j] /\ held'[j] = held[j]
  BY <1>1 DEF ClientSends
<1>5. ~Priv(k)'
  <2>1. sock[k] \in Sock /\ sock'[k] = [sock[k] EXCEPT !.rx = TRUE]
    BY <1>1
  <2> QED BY <1>1, <2>1 DEF Sock, Priv
<1>6. UNCHANGED <<who, given>>
  BY DEF ClientSends
<1>7. DueAt(held, given, sent[0])'
  <2> SUFFICES ASSUME NEW p \in Socks, Priv(p)'
               PROVE  Due(who[p], Coming(held'[p]), given, sent[0])
    BY <1>3, <1>6 DEF DueAt
  <2>1. Priv(p) /\ held'[p] = held[p]
    BY <1>4, <1>5 DEF Priv
  <2> QED BY <2>1 DEF AnswersInv, DueAt
<1> QED BY <1>3, <1>6, <1>7 DEF AnswersInv

\* The next answer has a number above all before it.
LEMMA NextDue ==
    ASSUME NEW m \in Nat, NEW m2 \in Nat, m <= m2, NEW v, NEW g \in Seq(Note), Upto(g, m),
           NEW b \in Seq(Piece), Due(v, b, g, m), NEW z \in Piece, z.n <= m2, z.n = 0 \/ z.n > m
    PROVE  Due(v, b \o <<z>>, g, m2)
<1> DEFINE r == <<z>>
<1>1. DOMAIN r = {1} /\ r[1] = z /\ r \in Seq(Piece)
  BY OnePiece
<1> HIDE DEF r
<1>2. \A i \in DOMAIN b : b[i].n \in Nat /\ b[i].n <= m
  <2>1. \A i \in DOMAIN b : b[i] \in Piece
    BY LenProperties, ElementOfSeq
  <2> QED BY <2>1 DEF Piece, Due, Upto
<1>3. \A i \in DOMAIN g : g[i].n \in Nat /\ g[i].n <= m
  <2>1. \A i \in DOMAIN g : g[i] \in Note
    BY LenProperties, ElementOfSeq
  <2> QED BY <2>1 DEF Note, Upto
<1>4. z.n \in Nat
  BY DEF Piece
<1>5. Due(v, b, g, m2)
  BY <1>2 DEF Due, Upto
<1>6. Due(v, r, g, m2)
  BY <1>1, <1>3, <1>4 DEF Due, Rising, Upto, Behind
<1>7. Below(b, r)
  BY <1>1, <1>2, <1>4 DEF Below
<1>8. Due(v, b \o r, g, m2)
  BY <1>1, <1>5, <1>6, <1>7, DueParts
<1> QED BY <1>8 DEF r

LEMMA LaterDue ==
    ASSUME NEW m \in Nat, NEW m2 \in Nat, m <= m2, NEW v, NEW g, NEW b \in Seq(Piece), Due(v, b, g, m)
    PROVE  Due(v, b, g, m2)
<1>1. \A i \in DOMAIN b : b[i].n \in Nat
  <2>1. \A i \in DOMAIN b : b[i] \in Piece
    BY LenProperties, ElementOfSeq
  <2> QED BY <2>1 DEF Piece
<1> QED BY <1>1 DEF Due, Upto

LEMMA PrivateSendsAnswers ==
    ASSUME IInv, StreamInv, AnswersInv, NEW k \in Socks, sock[k].ispriv, PeerSend(k), NEW z \in Piece,
           held' = [held EXCEPT ![k] = [@ EXCEPT !.rx = <<z>>]], UNCHANGED <<who, given>>,
           sent[0] <= sent'[0], sent'[0] \in Nat, z.n <= sent'[0], z.n = 0 \/ z.n > sent[0]
    PROVE  AnswersInv'
<1> DEFINE m == sent[0]
           m2 == sent'[0]
           x == held[k]
           y == [x EXCEPT !.rx = <<z>>]
<1>1. /\ sock[k].alloc /\ held \in [Socks -> Buffers] /\ WhoOK /\ x.rx = <<>> /\ x \in Buffers
      /\ sock' = [sock EXCEPT ![k] = [@ EXCEPT !.rx = TRUE]] /\ sock \in [Socks -> Sock]
      /\ given \in Seq(Note) /\ m \in Nat /\ m2 \in Nat
  BY PeerSends DEF HeapInv, StreamInv, Histories, WhoOK
<1>2. Once(given) /\ Upto(given, m) /\ DueAt(held, given, m) /\ m <= m2 /\ z.n <= m2 /\ (z.n = 0 \/ z.n > m)
  BY DEF AnswersInv
<1>3. /\ \A j \in Socks : j # k => sock'[j] = sock[j] /\ held'[j] = held[j]
      /\ held'[k] = y
  BY <1>1
<1>4. y.rx = <<z>> /\ y.rbuf = x.rbuf
  BY <1>1 DEF Buffers
<1> HIDE DEF m, m2, y
<1>5. Due(who[k], Coming(y), given, m2)
  <2>1. x.rbuf \in Seq(Piece) /\ x.rbuf \o <<>> = x.rbuf
    BY <1>1, ConcatEmptySeq DEF Buffers
  <2>2. Due(who[k], x.rbuf, given, m)
    BY <1>1, <1>2, <2>1 DEF DueAt, Priv, Coming
  <2> HIDE DEF x
  <2>3. Due(who[k], x.rbuf \o <<z>>, given, m2)
    BY <1>1, <1>2, <2>1, <2>2, NextDue
  <2> QED BY <1>4, <2>3 DEF Coming
<1>6. DueAt(held, given, sent[0])'
  <2> SUFFICES ASSUME NEW p \in Socks, Priv(p)'
               PROVE  Due(who[p], Coming(held'[p]), given, m2)
    BY DEF DueAt, m2
  <2>1. CASE p = k
    BY <1>3, <1>5, <2>1
  <2>2. CASE p # k
    <3>1. Priv(p) /\ held'[p] = held[p]
      BY <1>3, <2>2 DEF Priv
    <3>2. Due(who[p], Coming(held[p]), given, m) /\ Coming(held[p]) \in Seq(Piece)
      <4>1. held[p].rbuf \in Seq(Piece) /\ held[p].rx \in Seq(Piece)
        BY <1>1 DEF Buffers
      <4> QED BY <1>2, <3>1, <4>1, ConcatProperties DEF DueAt, Coming
    <3> QED BY <1>1, <1>2, <3>1, <3>2, LaterDue
  <2> QED BY <2>1, <2>2
<1>7. Upto(given, m2)
  <2>1. \A i \in DOMAIN given : given[i].n \in Nat
    <3>1. \A i \in DOMAIN given : given[i] \in Note
      BY <1>1, LenProperties, ElementOfSeq
    <3> QED BY <3>1 DEF Note
  <2> QED BY <1>1, <1>2, <2>1 DEF Upto
<1> QED BY <1>2, <1>6, <1>7 DEF AnswersInv, m2

LEMMA PrivateAnswersInv ==
    ASSUME IInv, StreamInv, AnswersInv, NEW k \in Socks, PrivateShakes(k) \/ PrivateAnswers(k)
    PROVE  AnswersInv'
<1>1. sent \in [Clients \cup {0} -> Nat] /\ sent[0] \in Nat
  BY DEF StreamInv, WhoOK
<1>2. CASE PrivateShakes(k)
  <2>1. Anonymous \in Piece /\ Anonymous.n = 0
    BY Pieces DEF Anonymous
  <2>2. /\ sock[k].ispriv /\ PeerSend(k) /\ UNCHANGED <<who, sent, given>>
        /\ held' = [held EXCEPT ![k] = [@ EXCEPT !.rx = <<Anonymous>>]]
    BY <1>2 DEF PrivateShakes
  <2>3. /\ sent[0] <= sent'[0] /\ sent'[0] \in Nat /\ Anonymous.n <= sent'[0]
        /\ Anonymous.n = 0 \/ Anonymous.n > sent[0]
    BY <1>1, <2>1, <2>2
  <2> QED BY <2>1, <2>2, <2>3, PrivateSendsAnswers
<1>3. CASE PrivateAnswers(k)
  <2>1. PICK c \in Asked(k) :
          held' = [held EXCEPT ![k] = [@ EXCEPT !.rx = <<[from |-> 0, n |-> sent[0] + 1, to |-> c]>>]]
    BY <1>3 DEF PrivateAnswers
  <2> DEFINE z == [from |-> 0, n |-> sent[0] + 1, to |-> c]
  <2>2. sock[k].ispriv /\ PeerSend(k) /\ UNCHANGED <<who, given>> /\ sent'[0] = sent[0] + 1 /\ sent[0] < MaxAnswers
    BY <1>1, <1>3 DEF PrivateAnswers
  <2>3. c \in Clients
    BY AskedOf
  <2>4. z \in Piece /\ z.n = sent[0] + 1
    BY <1>1, <2>2, <2>3 DEF Piece
  <2>5. held' = [held EXCEPT ![k] = [@ EXCEPT !.rx = <<z>>]]
    BY <2>1
  <2> HIDE DEF z
  <2>6. sent[0] <= sent'[0] /\ sent'[0] \in Nat /\ z.n <= sent'[0] /\ z.n > sent[0]
    BY <1>1, <2>2, <2>4
  <2> QED BY <2>2, <2>4, <2>5, <2>6, PrivateSendsAnswers
<1> QED BY <1>2, <1>3

LEMMA QuietAnswers ==
    ASSUME IInv, AnswersInv,
           \/ EpollWait \/ PairSkip \/ PairingDone \/ \E l \in Listeners : AcceptFails(l)
           \/ \E k \in Socks : StaleEvent(k) \/ PeerFin(k) \/ PeerReset(k),
           Same, Unsent, UNCHANGED who
    PROVE  AnswersInv'
<1>1. UNCHANGED <<held, who, sent, given>>
  BY DEF Same, Unsent
<1>2. CASE EpollWait \/ PairSkip \/ PairingDone \/ (\E l \in Listeners : AcceptFails(l)) \/ \E k \in Socks : StaleEvent(k)
  <2>1. UNCHANGED sock
    BY <1>2 DEF EpollWait, PairSkip, PairingDone, AcceptFails, StaleEvent, Consume, Crash
  <2> QED BY <1>1, <2>1, StillAnswers DEF Priv
<1>3. ASSUME NEW k \in Socks, PeerFin(k) \/ PeerReset(k)
      PROVE  AnswersInv'
  <2>1. sock \in [Socks -> Sock] /\ sock[k] \in Sock
    BY DEF IInv, HeapInv
  <2>2. /\ \A j \in Socks : j # k => sock'[j] = sock[j]
        /\ \/ sock'[k] = [sock[k] EXCEPT !.peer = "fin"]
           \/ sock'[k] = [sock[k] EXCEPT !.peer = "rst"]
    BY <1>3, <2>1 DEF PeerFin, PeerReset
  <2>3. sock'[k].alloc = sock[k].alloc /\ sock'[k].ispriv = sock[k].ispriv
    BY <2>1, <2>2 DEF Sock
  <2>4. \A j \in Socks : Priv(j)' => Priv(j)
    BY <2>2, <2>3 DEF Priv
  <2> QED BY <1>1, <2>4, StillAnswers
<1> QED BY <1>2, <1>3

LEMMA AnswersKeep ==
    ASSUME PoolIInv, StreamInv, AnswersInv, [StreamsNext]_streamVars
    PROVE  AnswersInv'
<1>1. IInv /\ PoolInv
  BY DEF PoolIInv
<1>2. IInv'
  BY NextPool, StreamsStep DEF PoolIInv
<1>3. CASE UNCHANGED streamVars
  <2>1. UNCHANGED <<sock, held, given, who, sent>>
    BY <1>3 DEF streamVars, vars
  <2> QED BY <2>1, StillAnswers DEF Priv
<1>4. CASE StreamAccept
  BY <1>1, <1>4, StreamAcceptAnswers
<1>5. CASE StreamPair
  BY <1>1, <1>2, <1>5, StreamPairAnswers
<1>6. ASSUME NEW k \in Socks, StreamRead(k)
      PROVE  AnswersInv'
  BY <1>1, <1>2, <1>6, StreamReadAnswers
<1>7. ASSUME NEW k \in Socks, StreamWrite(k)
      PROVE  AnswersInv'
  BY <1>1, <1>7, StreamWriteAnswers
<1>8. ASSUME NEW k \in Socks, ClientSends(k)
      PROVE  AnswersInv'
  BY <1>1, <1>8, ClientSendsAnswers
<1>9. ASSUME NEW k \in Socks, PrivateShakes(k) \/ PrivateAnswers(k)
      PROVE  AnswersInv'
  BY <1>1, <1>9, PrivateAnswersInv
<1>10. CASE /\ \/ EpollWait \/ PairSkip \/ PairingDone \/ \E l \in Listeners : AcceptFails(l)
               \/ \E k \in Socks : StaleEvent(k) \/ PeerFin(k) \/ PeerReset(k)
            /\ Same /\ Unsent /\ UNCHANGED <<who, served>>
  BY <1>1, <1>10, QuietAnswers
<1> QED BY <1>3, <1>4, <1>5, <1>6, <1>7, <1>8, <1>9, <1>10 DEF StreamsNext

LEMMA AnswersInitInv ==
    ASSUME StreamsInit
    PROVE  AnswersInv
<1>1. \A k \in Socks : ~Priv(k)
  BY DEF StreamsInit, Init, NoSock, Priv
<1>2. given = <<>>
  BY DEF StreamsInit
<1> QED BY <1>1, <1>2 DEF AnswersInv, Once, Upto, DueAt

\* What a private connection sends is relayed once and in its order, to whichever client is
\* bound: an answer is noted behind all that came before it over its connection, and what
\* was relayed is cleared, but for what a finished client is given of what is left.
THEOREM AnswersRelayedOnce == StreamsSpec => []AnswersOnce
<1>1. StreamsInit => AnswersInv
  BY AnswersInitInv
<1>2. PoolIInv /\ StreamInv /\ AnswersInv /\ [StreamsNext]_streamVars => AnswersInv'
  BY AnswersKeep
<1>3. AnswersInv => AnswersOnce
  BY DEF AnswersInv, Once, AnswersOnce
<1> QED BY <1>1, <1>2, <1>3, StreamsAlways, PTL DEF StreamsSpec
=============================================================================
