------------------------------ MODULE Streams ------------------------------
(***************************************************************************)
(* What the buffers of TunnelServer hold.  TunnelServer knows whether a    *)
(* buffer holds bytes; here every piece of a client's request and of the   *)
(* private side's answers has an identity, and each action of TunnelServer *)
(* moves the pieces its code moves.  The server itself cannot tell them    *)
(* apart: the module says whose bytes end up where.                        *)
(***************************************************************************)
EXTENDS TunnelServer, SequencesExt

CONSTANTS
    MaxPieces,   \* bound on the pieces of a client's request
    MaxAnswers,  \* bound on the pieces the private side answers with
    MaxGiven     \* bound on the answer pieces given to clients, repeated ones included

ASSUME PiecesAssumption == MaxPieces \in Nat /\ MaxAnswers \in Nat /\ MaxGiven \in Nat

VARIABLES
    held,        \* what the kernel and the two buffers of each sock_t hold
    who,         \* the peer behind a sock_t, by order of arrival at its port
    sent,        \* pieces sent so far, by each client and by the private side (0)
    got,         \* history: request pieces written to the private side, and on which connection
    given,       \* history: answer pieces put into the write buffer of a client
    served       \* history: clients the server has taken for served, and detached

streamVars == <<vars, held, who, sent, got, given, served>>

Clients == 1..MaxRmt
Connections == 1..MaxPriv    \* of the private side
\* `n' is 0 for bytes that are nobody's: the handshake's, and the fixed page.
Piece == [from: Clients \cup {0}, n: 0..(MaxPieces + MaxAnswers), to: Clients \cup Connections \cup {0}]
Anonymous == [from |-> 0, n |-> 0, to |-> 0]
\* Bytes that are nobody's are not counted.
Join(q, r) == IF q # <<>> /\ r # <<>> /\ q[Len(q)] = Anonymous /\ r[1] = Anonymous THEN q \o Tail(r) ELSE q \o r
Nothing == [rx |-> <<>>, rbuf |-> <<>>, wbuf |-> <<>>]

StreamsInit == /\ Init
               /\ held = [k \in Socks |-> Nothing] /\ who = [k \in Socks |-> 0]
               /\ sent = [c \in Clients \cup {0} |-> 0]
               /\ got = <<>> /\ given = <<>> /\ served = {}

----------------------------------------------------------------------------
\* Released sockets lose what they hold.
Settle(h) == held' = [k \in Socks |-> IF sock'[k].alloc THEN h[k] ELSE Nothing]

\* Bytes that are nobody's come first: a handshake's, from before there was a request.
Numbered(q) == IF q # <<>> /\ q[1] = Anonymous THEN Tail(q) ELSE q
NotedIn(q, from, to) ==
    [i \in DOMAIN Numbered(q) |->
       [n |-> Numbered(q)[i].n, asker |-> Numbered(q)[i].to, via |-> who[from], by |-> who[to],
        fin |-> sock[to].peer # "open"]]
\* Answer pieces q of a private socket are appended to the write buffer of a client.
Give(q, from, to) ==
    /\ given' = IF sock[to].ispriv THEN given ELSE given \o NotedIn(q, from, to)
    /\ Len(given') <= MaxGiven

\* Mutant: the bytes stay in the buffer they were copied from (no buff_clear).
CarryKeeps(h, from, to) ==
    /\ Settle([h EXCEPT ![to] = [@ EXCEPT !.wbuf = Join(h[to].wbuf, h[from].rbuf)]])
    /\ Give(h[from].rbuf, from, to)

\* Mutant: the bytes go in front of those already waiting to be written.
CarryInFront(h, from, to) ==
    /\ Settle([h EXCEPT ![to] = [@ EXCEPT !.wbuf = Join(h[from].rbuf, h[to].wbuf)],
                        ![from] = [@ EXCEPT !.rbuf = <<>>]])
    /\ Give(h[from].rbuf, from, to)

\* Mutant: the bytes replace those already waiting to be written.
CarryOver(h, from, to) ==
    /\ Settle([h EXCEPT ![to] = [@ EXCEPT !.wbuf = h[from].rbuf], ![from] = [@ EXCEPT !.rbuf = <<>>]])
    /\ Give(h[from].rbuf, from, to)

\* buff_concat of one side's read buffer to the other side's write buffer, buff_clear.
Carry(h, from, to) ==
    /\ Settle([h EXCEPT ![to] = [@ EXCEPT !.wbuf = Join(h[to].wbuf, h[from].rbuf)],
                        ![from] = [@ EXCEPT !.rbuf = <<>>]])
    /\ Give(h[from].rbuf, from, to)

Left(q, some) == IF some THEN Suffixes(q) \ {<<>>} ELSE {<<>>}

ReadIn(k) == [held EXCEPT ![k] = [rx |-> <<>>, rbuf |-> Join(held[k].rbuf, held[k].rx), wbuf |-> held[k].wbuf]]

\* A handshake handler takes pieces off the private socket's read buffer and answers.
TakeHandshake(h, p) ==
    /\ \E rest \in Left(h[p].rbuf, sock'[p].rbuf) :
         Settle([h EXCEPT ![p] = [@ EXCEPT !.rbuf = rest,
                     !.wbuf = IF sock'[p].wbuf /\ h[p].wbuf = <<>> THEN <<Anonymous>> ELSE h[p].wbuf]])
    /\ UNCHANGED given

\* The fixed page is written and the request it answers is cleared.
TakePage(h, q) ==
    /\ Settle([h EXCEPT ![q] = [@ EXCEPT !.rbuf = <<>>, !.wbuf = Join(h[q].wbuf, <<Anonymous>>)]])
    /\ UNCHANGED given

\* sock_shutdown: what the private side has sent and the client has not got is copied to
\* the client's write buffer, and stays where it was.
TakeLeft(k) ==
    LET t == tun[sock[k].tunnel]
    IN  IF t.state = "connected_state" /\ k = t.remote /\ t.priv # NULL
        THEN /\ Settle([held EXCEPT ![k] = [@ EXCEPT !.wbuf = Join(held[k].wbuf, held[t.priv].rbuf)]])
             /\ Give(held[t.priv].rbuf, t.priv, k)
        ELSE Settle(held) /\ UNCHANGED given

TakeRead(k) ==
    LET t == tun[sock[k].tunnel]
        h == ReadIn(k)
        other == IF sock[k].ispriv THEN t.remote ELSE t.priv
        mine == IF sock[k].ispriv THEN t.priv ELSE t.remote
        moved == t.state = "connected_state" /\ other # NULL /\ mine # NULL /\ h[k].rbuf # <<>>
        paged == t.state = "tunnel_waitting" /\ t.remote # NULL
    IN  IF ~sock[k].rx /\ sock[k].peer # "open" THEN TakeLeft(k)
        ELSE IF fault' # "none" THEN Settle(held) /\ UNCHANGED given
        ELSE IF t.state \in HandshakeStates /\ t.priv # NULL THEN TakeHandshake(h, t.priv)
        ELSE IF moved THEN Carry(h, mine, other)
        ELSE IF paged THEN TakePage(h, t.remote)
        ELSE Settle(h) /\ UNCHANGED given

Same == UNCHANGED <<held, given>>
Unsent == UNCHANGED <<sent, got>>

\* The last message of the handshake makes the tunnel idle even if a client is bound to it.
StreamRead(k) ==
    /\ ReadHandle(k) /\ TakeRead(k) /\ Unsent /\ UNCHANGED who
    /\ LET r == sock[k].tunnel
       IN  served' = IF tun[r].state = "request_state" /\ tun'[r].state = "connected_state" /\ tun[r].remote # NULL
                     THEN served \cup {who[tun[r].remote]} ELSE served

\* Pieces written to connection c.
Addressed(q, c) == [i \in DOMAIN q |-> [q[i] EXCEPT !.to = c]]

StreamWrite(k) ==
    /\ WriteHandle(k)
    /\ \E rest \in Left(held[k].wbuf, sock'[k].alloc /\ sock'[k].wbuf) :
         /\ Settle([held EXCEPT ![k] = [@ EXCEPT !.wbuf = rest]])
         /\ got' = IF sock[k].ispriv /\ sock'[k].alloc
                   THEN got \o Addressed(Numbered(SubSeq(held[k].wbuf, 1, Len(held[k].wbuf) - Len(rest))), who[k])
                   ELSE got
         /\ served' = IF sock[k].ispriv \/ held[k].wbuf = rest THEN served ELSE served \cup {who[k]}
    /\ UNCHANGED <<who, sent, given>>

\* waitLinePairing hands over a parked client and relays what it has sent.
StreamPair ==
    /\ PairBind
    /\ \E i \in First(WaitPending) :
         LET k == tun[waitList[i]].remote
             p == tun[appList[scan]].priv
         IN  IF p # NULL THEN Carry(held, k, p) ELSE Same
    /\ Unsent /\ UNCHANGED <<who, served>>

StreamAccept ==
    /\ AcceptPriv \/ AcceptRemote
    /\ who' = [k \in Socks |-> IF ~sock'[k].alloc \/ sock[k].alloc THEN who[k]
                               ELSE IF sock'[k].ispriv THEN 1 + MaxPriv - dials["listenfd"]
                               ELSE 1 + MaxRmt - dials["rmtfd"]]
    /\ Same /\ Unsent /\ UNCHANGED served

----------------------------------------------------------------------------
(* The peers.  A client sends its request in pieces.  The private side     *)
(* answers, on the connection they came over, only requests that have      *)
(* reached it, in any order and in any number of pieces; before the first  *)
(* one a connection is busy with its handshake.                            *)

Asked(k) == {got[i].from : i \in {i \in DOMAIN got : got[i].to = who[k]}}

ClientSends(k) ==
    LET c == who[k]
    IN  /\ ~sock[k].ispriv /\ PeerSend(k) /\ sent[c] < MaxPieces
        /\ sent' = [sent EXCEPT ![c] = @ + 1]
        /\ held' = [held EXCEPT ![k] = [@ EXCEPT !.rx = <<[from |-> c, n |-> sent[c] + 1, to |-> 0]>>]]
        /\ UNCHANGED <<who, got, given, served>>

PrivateShakes(k) ==
    /\ sock[k].ispriv /\ PeerSend(k) /\ Asked(k) = {}
    /\ held' = [held EXCEPT ![k] = [@ EXCEPT !.rx = <<Anonymous>>]]
    /\ UNCHANGED <<who, sent, got, given, served>>

PrivateAnswers(k) ==
    /\ sock[k].ispriv /\ PeerSend(k) /\ sent[0] < MaxAnswers
    /\ \E c \in Asked(k) :
         held' = [held EXCEPT ![k] = [@ EXCEPT !.rx = <<[from |-> 0, n |-> sent[0] + 1, to |-> c]>>]]
    /\ sent' = [sent EXCEPT ![0] = @ + 1]
    /\ UNCHANGED <<who, got, given, served>>

StreamsNext ==
    \/ StreamAccept \/ StreamPair
    \/ \E k \in Socks : \/ StreamRead(k) \/ StreamWrite(k)
                        \/ ClientSends(k) \/ PrivateShakes(k) \/ PrivateAnswers(k)
    \/ /\ \/ EpollWait \/ PairSkip \/ PairingDone \/ \E l \in Listeners : AcceptFails(l)
          \/ \E k \in Socks : StaleEvent(k) \/ PeerFin(k) \/ PeerReset(k)
       /\ Same /\ Unsent /\ UNCHANGED <<who, served>>

StreamsSpec == StreamsInit /\ [][StreamsNext]_streamVars

----------------------------------------------------------------------------
BuffersAgree ==
    \A k \in Socks : fault = "none" =>
      /\ sock[k].rx <=> held[k].rx # <<>>
      /\ sock[k].rbuf <=> held[k].rbuf # <<>>
      /\ sock[k].wbuf <=> held[k].wbuf # <<>>

\* Types, and TunnelServer's one bit per buffer is right about what the buffer holds.
StreamsTypeOK ==
    /\ TypeOK /\ held \in [Socks -> [rx: Seq(Piece), rbuf: Seq(Piece), wbuf: Seq(Piece)]]
    /\ BuffersAgree
    /\ who \in [Socks -> Clients \cup Connections \cup {0}] /\ sent \in [Clients \cup {0} -> Nat]
    /\ got \in Seq([from: Clients, n: 1..MaxPieces, to: Connections]) /\ served \subseteq Clients
    /\ given \in Seq([n: Nat, asker: Clients, via: Connections, by: Clients, fin: BOOLEAN])

\* The private side gets a client's request in order and no piece of it twice, though the
\* client may be parked, paired and kept alive while it sends.
RequestsInOrder ==
    \A i, j \in DOMAIN got : i < j /\ got[i].from = got[j].from => got[i].n < got[j].n

\* A piece of a request that the server has taken disappears without having been written
\* to the private side only with the socket that held it, or under the fixed page that a
\* parked client is answered with.
Within(h) == UNION {ToSet(h.rx), ToSet(h.rbuf), ToSet(h.wbuf)}
Reached(x) == \E i \in DOMAIN got : got[i].from = x.from /\ got[i].n = x.n
RequestLossHasCause ==
    [][\A k \in Socks : \A x \in Within(held[k]) :
         x.from # 0 /\ ~Reached(x)' /\ (\A j \in Socks : x \notin Within(held'[j])) =>
           ~sock'[k].alloc \/ tun[sock[k].tunnel].state = "tunnel_waitting"]_streamVars

\* What a private connection sends is relayed once and in its order, to whichever client is
\* bound; only what a finished client was given may be relayed again.
AnswersOnce ==
    \A i, j \in DOMAIN given :
      i < j /\ given[i].via = given[j].via => given[i].n < given[j].n \/ given[i].fin

\* A client is given another client's answer only when that one is gone or was taken for
\* served too soon: something had been written to it, be it the first piece of its answer
\* or the handshake's last bytes, or the handshake ended after it was bound.
MisdeliveryHasCause ==
    [][\A i \in DOMAIN given' \ DOMAIN given :
         LET c == given'[i].asker
         IN  c # given'[i].by /\ (\E k \in Socks : sock[k].alloc /\ ~sock[k].ispriv /\ who[k] = c) =>
               c \in served]_streamVars
=============================================================================
