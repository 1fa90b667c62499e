--------------------------- MODULE ChannelProofs ---------------------------
(***************************************************************************)
(* Proofs about Channel for any requests and answers: the two ends agree   *)
(* where the handshake of a private connection ends.  The invariant says   *)
(* what is under way in each direction at each stage of the handshake.     *)
(***************************************************************************)
EXTENDS Channel, HandshakeProofs

\* What each end has been sent and has not answered, in front of what it has not read.
Up == Parsed(tunnel) \o rbuf \o wire
Down == Parsed(med) \o mbuf \o down

Quiet == relayed = <<>> /\ answered = <<>> /\ passed = <<>>

\* The server expects the greeting, and gets nothing else.
AtGreeting ==
    /\ tunnel.state = "open_state" /\ status = "open" /\ Quiet
    /\ med.state = "open_state" /\ mbuf \o down = <<>>
    /\ \/ script = <<Greeting>> /\ Up = <<>>
       \/ script = <<>> /\ Up = Greeting

\* The server expects credentials or a request; the request follows the choice of a method.
AtRequest ==
    /\ tunnel.state \in {"auth_state", "request_state"} /\ script = <<>> /\ Quiet
    /\ tunnel.state = "request_state" => status = "open"
    /\ \/ /\ med.state = "open_state" /\ \E x \in UInt8 : mbuf \o down = <<5, x>>
          /\ tunnel.state = "request_state" => Up = <<>>
       \/ /\ med.state = "request_state" /\ med.read_count = 0 /\ mbuf \o down = <<>>
          /\ tunnel.state = "request_state" => Up = Request

\* The server is connected; its reply to the request goes before the client's requests.
AtStreams ==
    /\ tunnel.state = "connected_state" /\ script = <<>> /\ status = "open"
    /\ passed \o rbuf \o wire = answered
    /\ \/ med.state = "request_state" /\ answered = <<>> /\ Down = ConnectReply \o relayed
       \/ med.state = "connected_state" /\ mbuf \o down = relayed

ChannelTypeOK ==
    /\ med \in Tunnel /\ med.state \in {"open_state", "request_state", "connected_state"}
    /\ med.state = "open_state" => med.read_count = 0
    /\ mstatus \in {"open", "closed"} /\ (mstatus = "open" => med.read_count \in Labels(med))
    /\ mbuf \in Seq(UInt8) /\ down \in Seq(UInt8)
    /\ relayed \in Seq(UInt8) /\ answered \in Seq(UInt8) /\ passed \in Seq(UInt8)
    /\ client \in {"none", "early", "bound"}
    /\ client # "none" => tunnel.state = "connected_state"

InStep == client # "early" => mstatus = "open" /\ (AtGreeting \/ AtRequest \/ AtStreams)

ChannelInv == IInv /\ ChannelTypeOK /\ InStep

----------------------------------------------------------------------------
(* The messages of the two ends.                                           *)

LEMMA NameBytes ==
    ASSUME NEW n \in Nat
    PROVE  Name(n) \in Seq(UInt8) /\ Len(Name(n)) = n
<1>1. \A i \in 1..n : 119 \in UInt8
  BY DEF UInt8
<1>2. Name(n) \in [1..n -> UInt8]
  BY <1>1 DEF Name
<1>3. Name(n) \in Seq(UInt8)
  BY <1>2, SeqDef
<1> QED BY <1>2, <1>3

\* A message: five bytes, a name and a port.
LEMMA MessageBytes ==
    ASSUME NEW f \in Seq(UInt8), Len(f) = 5, NEW n \in Seq(UInt8), NEW p \in Seq(UInt8), Len(p) = 2
    PROVE  /\ f \o n \o p \in Seq(UInt8) /\ Len(f \o n \o p) = Len(n) + 7
           /\ \A i \in 1..5 : (f \o n \o p)[i] = f[i]
<1> DEFINE fn == f \o n
<1>1. /\ fn \in Seq(UInt8) /\ Len(fn) = Len(f) + Len(n) /\ Len(n) \in Nat
      /\ \A i \in 1..Len(f) : fn[i] = f[i]
  BY InFront
<1> HIDE DEF fn
<1>2. /\ fn \o p \in Seq(UInt8) /\ Len(fn \o p) = Len(fn) + Len(p)
      /\ \A i \in 1..Len(fn) : (fn \o p)[i] = fn[i]
  BY <1>1, InFront
<1>3. \A i \in 1..5 : i \in 1..Len(fn) /\ i \in 1..Len(f)
  BY <1>1
<1>4. /\ fn \o p \in Seq(UInt8) /\ Len(fn \o p) = Len(n) + 7
      /\ \A i \in 1..5 : (fn \o p)[i] = f[i]
  BY <1>1, <1>2, <1>3
<1> QED BY <1>4 DEF fn

LEMMA RequestBytes ==
    /\ Request \in Seq(UInt8) /\ Len(Request) = 22
    /\ Request[1] = 5 /\ Request[2] = 1 /\ Request[4] = 3 /\ Request[5] = 15
<1> DEFINE f == <<5, 1, 0, 3, 15>>
           n == Name(15)
           p == <<31, 154>>
<1>1. /\ f \in Seq(UInt8) /\ Len(f) = 5 /\ f[1] = 5 /\ f[2] = 1 /\ f[4] = 3 /\ f[5] = 15
      /\ p \in Seq(UInt8) /\ Len(p) = 2
  BY DEF UInt8
<1>2. n \in Seq(UInt8) /\ Len(n) = 15
  BY NameBytes
<1>3. Request = f \o n \o p
  BY DEF Request
<1> HIDE DEF f, n, p
<1>4. /\ f \o n \o p \in Seq(UInt8) /\ Len(f \o n \o p) = Len(n) + 7
      /\ \A i \in 1..5 : (f \o n \o p)[i] = f[i]
  BY ONLY <1>1, <1>2, MessageBytes
<1>5. /\ Request \in Seq(UInt8) /\ Len(Request) = Len(n) + 7 /\ \A i \in 1..5 : Request[i] = f[i]
  BY ONLY <1>3, <1>4, Zenon
<1>6. Request[1] = f[1] /\ Request[2] = f[2] /\ Request[4] = f[4] /\ Request[5] = f[5]
  BY ONLY <1>5
<1>7. Len(Request) = 22
  BY ONLY <1>2, <1>5
<1> QED BY ONLY <1>1, <1>5, <1>6, <1>7

LEMMA ConnectReplyBytes ==
    /\ ConnectReply \in Seq(UInt8) /\ Len(ConnectReply) = 23
    /\ ConnectReply[1] = 5 /\ ConnectReply[2] = 1 /\ ConnectReply[4] = 3 /\ ConnectReply[5] = 16
<1> DEFINE f == <<5, 1, 0, 3, 16>>
           n == Name(16)
           p == <<31, 144>>
<1>1. /\ f \in Seq(UInt8) /\ Len(f) = 5 /\ f[1] = 5 /\ f[2] = 1 /\ f[4] = 3 /\ f[5] = 16
      /\ p \in Seq(UInt8) /\ Len(p) = 2
  BY DEF UInt8
<1>2. n \in Seq(UInt8) /\ Len(n) = 16
  BY NameBytes
<1>3. ConnectReply = f \o n \o p
  BY DEF ConnectReply
<1> HIDE DEF f, n, p
<1>4. /\ f \o n \o p \in Seq(UInt8) /\ Len(f \o n \o p) = Len(n) + 7
      /\ \A i \in 1..5 : (f \o n \o p)[i] = f[i]
  BY ONLY <1>1, <1>2, MessageBytes
<1>5. /\ ConnectReply \in Seq(UInt8) /\ Len(ConnectReply) = Len(n) + 7 /\ \A i \in 1..5 : ConnectReply[i] = f[i]
  BY ONLY <1>3, <1>4, Zenon
<1>6. ConnectReply[1] = f[1] /\ ConnectReply[2] = f[2] /\ ConnectReply[4] = f[4] /\ ConnectReply[5] = f[5]
  BY ONLY <1>5
<1>7. Len(ConnectReply) = 23
  BY ONLY <1>2, <1>5
<1> QED BY ONLY <1>1, <1>5, <1>6, <1>7

\* Of a message that is there in part only one part can be read wrongly, and it is not.
LEMMA NamedParsed ==
    ASSUME NEW m \in Seq(UInt8), NEW rest \in Seq(UInt8), NEW q, q = m \o rest,
           NEW k \in Nat, Len(q) >= 7 + k, q[1] = 5, q[2] = 1, q[4] = 3, q[5] = k,
           NEW o, NEW g, RequestParsed(o, g, m)
    PROVE  \/ Waits(o, "request_state", g, m) /\ Len(m) < 7 + k
           \/ Takes(o, "connected_state", "connect", g, m, 7 + k) /\ Len(m) >= 7 + k
<1>1. Len(m) \in Nat /\ \A i \in 1..Len(m) : q[i] = m[i]
  BY InFront
<1>2. /\ Len(m) >= 4 => m[1] = 5 /\ m[2] = 1 /\ m[4] = 3
      /\ Len(m) >= 5 => m[5] = k
  BY <1>1
<1>3. CASE /\ Waits(o, "request_state", g, m)
           /\ \/ Len(m) < 4
              \/ /\ m[1] = 5 /\ m[2] = 1
                 /\ \/ m[4] = 1 /\ Len(m) < 10
                    \/ m[4] = 4 /\ Len(m) < 22
                    \/ m[4] = 3 /\ (Len(m) < 5 \/ Len(m) < 7 + m[5])
  <2>1. Len(m) < 4 \/ Len(m) < 5 \/ (Len(m) >= 5 /\ Len(m) < 7 + m[5])
    <3>1. Len(m) < 4 \/ Len(m) >= 4
      BY <1>1
    <3>2. Len(m) < 5 \/ Len(m) >= 5
      BY <1>1
    <3> QED BY <1>2, <1>3, <3>1, <3>2
  <2>2. Len(m) < 7 + k
    BY <1>1, <1>2, <2>1
  <2> QED BY <1>3, <2>2
<1>4. CASE \E l \in Nat :
             /\ Takes(o, "connected_state", "connect", g, m, l) /\ Len(m) >= l /\ Len(m) >= 4
             /\ m[1] = 5 /\ m[2] = 1
             /\ \/ m[4] = 1 /\ l = 10
                \/ m[4] = 4 /\ l = 22
                \/ m[4] = 3 /\ Len(m) >= 5 /\ l = 7 + m[5]
  <2>1. PICK l \in Nat :
             /\ Takes(o, "connected_state", "connect", g, m, l) /\ Len(m) >= l /\ Len(m) >= 4
             /\ \/ m[4] = 1 /\ l = 10
                \/ m[4] = 4 /\ l = 22
                \/ m[4] = 3 /\ Len(m) >= 5 /\ l = 7 + m[5]
    BY <1>4
  <2>2. l = 7 + k
    BY <1>2, <2>1
  <2> QED BY <2>1, <2>2
<1>5. CASE Len(m) >= 4 /\ (m[1] # 5 \/ m[2] # 1 \/ m[4] \notin {1, 3, 4})
  BY <1>2, <1>5
<1> QED BY <1>3, <1>4, <1>5 DEF RequestParsed

LEMMA DropAll ==
    ASSUME NEW q \in Seq(UInt8), NEW n \in Nat, Len(q) = n
    PROVE  Drop(q, n) = <<>>
<1>1. n \in 0..Len(q)
  OBVIOUS
<1>2. Drop(q, n) \in Seq(UInt8) /\ Len(Drop(q, n)) = Len(q) - n
  BY <1>1, CutParts
<1> QED BY <1>2, EmptySeq

\* Bytes dropped from a prefix are dropped from the whole.
LEMMA DropFront ==
    ASSUME NEW m \in Seq(UInt8), NEW rest \in Seq(UInt8), NEW n \in 0..Len(m)
    PROVE  Drop(m, n) \o rest = Drop(m \o rest, n)
<1> DEFINE a == SubSeq(m, 1, n)
           b == Drop(m, n)
<1>1. a \in Seq(UInt8) /\ b \in Seq(UInt8) /\ Len(a) = n /\ a \o b = m
  BY CutParts
<1> HIDE DEF a, b
<1> DEFINE br == b \o rest
<1>2. br \in Seq(UInt8) /\ Len(br) \in Nat
  BY <1>1, InFront
<1>3. m \o rest = a \o br
  <2>1. (a \o b) \o rest = a \o (b \o rest)
    <3>1. a \in Seq(UInt8) /\ b \in Seq(UInt8) /\ rest \in Seq(UInt8)
      BY <1>1
    <3> QED BY ONLY <3>1, Regroup, Zenon
  <2> QED BY <1>1, <2>1
<1> HIDE DEF br
<1>4. Drop(a \o br, Len(a) + 0) = Drop(br, 0)
  <2>1. 0 \in 0..Len(br)
    BY <1>2
  <2> QED BY <1>1, <1>2, <2>1, DropBehind
<1>5. n \in Nat /\ Len(a) + 0 = n
  BY <1>1, LenProperties
<1>6. Drop(br, 0) = br
  BY <1>2, DropNone
<1> QED BY <1>3, <1>4, <1>5, <1>6 DEF br, b

\* A buffer that is read into keeps what it has, in front of what is still to be read.
LEMMA ReadInto ==
    ASSUME NEW b \in Seq(UInt8), NEW w \in Seq(UInt8), NEW n \in 0..Len(w)
    PROVE  /\ b \o SubSeq(w, 1, n) \in Seq(UInt8) /\ Drop(w, n) \in Seq(UInt8)
           /\ (b \o SubSeq(w, 1, n)) \o Drop(w, n) = b \o w
<1>1. SubSeq(w, 1, n) \in Seq(UInt8) /\ Drop(w, n) \in Seq(UInt8)
  BY CutParts
<1> QED BY <1>1, InFront, MovedOver

\* The same with what has been parsed in front of the buffer.
LEMMA ReadIntoParsed ==
    ASSUME NEW p \in Seq(UInt8), NEW b \in Seq(UInt8), NEW w \in Seq(UInt8), NEW n \in 0..Len(w)
    PROVE  /\ p \o (b \o SubSeq(w, 1, n)) \in Seq(UInt8)
           /\ (p \o (b \o SubSeq(w, 1, n))) \o Drop(w, n) = (p \o b) \o w
<1> DEFINE s == SubSeq(w, 1, n)
           r == Drop(w, n)
           pb == p \o b
<1>1. s \in Seq(UInt8) /\ r \in Seq(UInt8)
  BY CutParts
<1>2. (pb \o s) \o r = pb \o w /\ pb \in Seq(UInt8)
  BY InFront, MovedOver
<1> HIDE DEF s, r
<1>3. p \o (b \o s) = pb \o s
  <2>1. (p \o b) \o s = p \o (b \o s)
    BY <1>1, Regroup, Zenon
  <2> QED BY <2>1
<1>4. p \o (b \o s) \in Seq(UInt8)
  BY <1>1, InFront
<1> QED BY <1>2, <1>3, <1>4 DEF s, r

LEMMA NothingLeft ==
    ASSUME NEW p \in Seq(UInt8), NEW q \in Seq(UInt8), Len(p \o q) <= Len(p)
    PROVE  q = <<>> /\ p \o q = p
<1>1. Len(p \o q) = Len(p) + Len(q) /\ Len(p) \in Nat /\ Len(q) \in Nat
  BY InFront
<1>2. Len(q) = 0
  BY <1>1
<1>3. q = <<>>
  BY <1>2, EmptySeq
<1> QED BY <1>3, ConcatEmptySeq

LEMMA NothingAtAll ==
    ASSUME NEW p \in Seq(UInt8), NEW q \in Seq(UInt8), p \o q = <<>>
    PROVE  p = <<>> /\ q = <<>>
<1>1. Len(p \o q) = Len(p) + Len(q) /\ Len(p) \in Nat /\ Len(q) \in Nat
  BY InFront
<1>2. Len(p \o q) = 0
  BY EmptySeq
<1>3. Len(p) = 0 /\ Len(q) = 0
  BY <1>1, <1>2
<1> QED BY <1>3, EmptySeq

----------------------------------------------------------------------------
(* The mediator's read.                                                    *)

MedStatus(g) == IF g.res = "refused" THEN "closed" ELSE g.res

\* The record the mediator calls a handler with, and what it makes of it.
MedRecord(n) == [t |-> med, buf |-> mbuf \o SubSeq(down, 1, n), out |-> <<>>, ok |-> FALSE, res |-> "open"]

LEMMA MedRecordType ==
    ASSUME ChannelTypeOK, mstatus = "open", NEW n \in 0..Len(down)
    PROVE  LET h == MedRecord(n)
           IN  /\ h \in Records /\ h.t = med /\ h.buf = mbuf \o SubSeq(down, 1, n) /\ h.out = <<>>
               /\ h.ok = FALSE /\ h.res = "open" /\ h.t.read_count \in Labels(h.t) /\ FieldsChecked(h.t)
               /\ Drop(down, n) \in Seq(UInt8)
<1> DEFINE b == mbuf \o SubSeq(down, 1, n)
<1>1. b \in Seq(UInt8) /\ Drop(down, n) \in Seq(UInt8)
  BY ReadInto DEF ChannelTypeOK
<1>2. med \in Tunnel /\ med.read_count \in Labels(med) /\ med.state # "auth_state"
  BY DEF ChannelTypeOK
<1>3. <<>> \in Seq(ReplyKinds)
  OBVIOUS
<1> HIDE DEF b
<1>4. LET h == [t |-> med, buf |-> b, out |-> <<>>, ok |-> FALSE, res |-> "open"]
      IN  /\ h \in Records /\ h.t = med /\ h.buf = b /\ h.out = <<>> /\ h.ok = FALSE /\ h.res = "open"
          /\ h.t.read_count \in Labels(h.t)
  BY <1>1, <1>2, <1>3 DEF Records
<1> QED BY <1>1, <1>2, <1>4 DEF b, MedRecord, FieldsChecked

\* What a handler makes of the tunnel t and the buffer b.
MedOutcome(g, t, b) ==
    \/ /\ t.state = "open_state" /\ g.out = <<>> /\ g.t = t
       /\ \/ Len(b) < 2 /\ g.res = "open" /\ g.buf = b
          \/ Len(b) >= 2 /\ b[1] # 5 /\ g.res = "refused" /\ g.buf = Drop(b, 1)
    \/ /\ t.state = "open_state" /\ Len(b) >= 2 /\ b[1] = 5
       /\ g.t \in Tunnel /\ g.t.state = "request_state" /\ g.t.read_count = 0
       /\ g.buf = Drop(b, 2) /\ g.out = Request /\ g.res = "open"
    \/ /\ t.state = "request_state" /\ g.out = <<>>
       /\ \E r \in Records : /\ Sound(r) /\ RequestParsed(<<>>, r, Parsed(t) \o b)
                             /\ g.t = r.t /\ g.buf = r.buf /\ g.res = r.res
    \/ t.state = "connected_state" /\ g.out = <<>> /\ g.t = t /\ g.buf = b /\ g.res = "open"

LEMMA MedHandles ==
    ASSUME NEW h \in Records, h.res = "open", h.out = <<>>, FieldsChecked(h.t),
           h.t.read_count \in Labels(h.t), h.t.state = "open_state" => h.t.read_count = 0,
           h.t.state \in {"open_state", "request_state", "connected_state"}
    PROVE  MedOutcome(MedHandle(h), h.t, h.buf)
<1>1. CASE h.t.state = "open_state"
  <2>1. MedHandle(h) = MedOpenHandle(h)
    BY <1>1 DEF MedHandle
  <2>2. CASE Len(h.buf) < 2
    BY <1>1, <2>1, <2>2 DEF MedOpenHandle, MedOutcome
  <2>3. Len(h.buf) \in Nat
    BY FieldTypes
  <2>4. CASE ~(Len(h.buf) < 2) /\ h.buf[1] # 5
    <3> DEFINE g == Refused(h, h.t, 1)
    <3>1. MedHandle(h) = g /\ 1 \in 0..Len(h.buf)
      BY <2>1, <2>3, <2>4 DEF MedOpenHandle
    <3>2. h.t \in Tunnel
      BY FieldTypes
    <3>3. g.t = h.t /\ g.buf = Drop(h.buf, 1) /\ g.res = "refused" /\ g.out = <<>>
      BY <3>1, <3>2, RefusedParts
    <3> HIDE DEF g
    <3> QED BY <1>1, <2>3, <2>4, <3>1, <3>3 DEF MedOutcome
  <2>5. CASE ~(Len(h.buf) < 2) /\ h.buf[1] = 5
    <3> DEFINE t == [h.t EXCEPT !.state = "request_state", !.nmethods = h.buf[2]]
               b == Drop(h.buf, 2)
               g == [h EXCEPT !.t = t, !.buf = b, !.out = Request]
    <3>1. MedHandle(h) = g /\ Len(h.buf) >= 2
      BY <2>1, <2>3, <2>5 DEF MedOpenHandle
    <3>2. h.t \in Tunnel /\ h.buf[2] \in UInt8
      <4>1. h.buf \in Seq(UInt8) /\ h.t \in Tunnel
        BY FieldTypes
      <4> QED BY <3>1, <4>1, TwoBytes
    <3>3. t \in Tunnel /\ t.state = "request_state" /\ t.read_count = 0
      BY <1>1, <3>2 DEF Tunnel, HandshakeStates
    <3>4. g.t = t /\ g.buf = b /\ g.out = Request /\ g.res = "open"
      <4> HIDE DEF t, b
      <4> QED BY DEF Records
    <3> HIDE DEF g, t
    <3> QED BY <1>1, <2>5, <3>1, <3>3, <3>4 DEF MedOutcome
  <2> QED BY <2>2, <2>4, <2>5
<1>2. CASE h.t.state = "request_state"
  <2> DEFINE r == RequestHandle(h)
             g == [r EXCEPT !.out = <<>>]
  <2>1. MedHandle(h) = g
    BY <1>2 DEF MedHandle, MedRequestHandle
  <2>2. Sound(r) /\ RequestParsed(<<>>, r, Parsed(h.t) \o h.buf)
    BY <1>2, RequestHandleSound, RequestHandleParse
  <2> HIDE DEF r
  <2>3. r \in Records /\ g.t = r.t /\ g.buf = r.buf /\ g.res = r.res /\ g.out = <<>>
    BY <2>2 DEF Sound, Records
  <2> HIDE DEF g
  <2> QED BY <1>2, <2>1, <2>2, <2>3 DEF MedOutcome
<1>3. CASE h.t.state = "connected_state"
  BY <1>3 DEF MedHandle, MedOutcome
<1> QED BY <1>1, <1>2, <1>3

LEMMA KeptInv ==
    ASSUME IInv, UNCHANGED <<auth, patient, replies, status, script, sent>>,
           rbuf' \in Seq(UInt8), wire' \in Seq(UInt8),
           \/ tunnel' = tunnel
           \/ tunnel' \in Tunnel /\ FieldsChecked(tunnel') /\ tunnel'.read_count \in Labels(tunnel')
    PROVE  IInv'
<1>1. FieldsChecked(tunnel)' <=> FieldsChecked(tunnel')
  BY DEF FieldsChecked
<1>2. tunnel' \in Tunnel /\ FieldsChecked(tunnel)'
  BY <1>1 DEF IInv, TypeOK
<1>3. TypeOK'
  BY <1>2 DEF IInv, TypeOK
<1>4. Labels(tunnel)' = Labels(tunnel')
  BY DEF Labels
<1>5. ResumesAtLabel'
  <2>1. CASE tunnel' = tunnel
    BY <2>1 DEF IInv, ResumesAtLabel
  <2>2. CASE tunnel'.read_count \in Labels(tunnel')
    BY <1>4, <2>2 DEF IInv, ResumesAtLabel
  <2> QED BY <2>1, <2>2
<1> QED BY <1>3, <1>5 DEF IInv

LEMMA NextParsedBy ==
    /\ Parsed(tunnel)' = Parsed(tunnel') /\ Parsed(med)' = Parsed(med')
    /\ Labels(med)' = Labels(med')
  BY DEF Parsed, Labels

----------------------------------------------------------------------------
(* The steps of the server.                                                *)

LEMMA ChannelSequences ==
    ASSUME IInv, ChannelTypeOK
    PROVE  /\ Parsed(tunnel) \in Seq(UInt8) /\ rbuf \in Seq(UInt8) /\ wire \in Seq(UInt8)
           /\ Parsed(med) \in Seq(UInt8) /\ mbuf \in Seq(UInt8) /\ down \in Seq(UInt8)
           /\ Parsed(tunnel) \o rbuf \in Seq(UInt8) /\ Parsed(med) \o mbuf \in Seq(UInt8)
<1>1. /\ Parsed(tunnel) \in Seq(UInt8) /\ rbuf \in Seq(UInt8) /\ wire \in Seq(UInt8)
      /\ Parsed(med) \in Seq(UInt8) /\ mbuf \in Seq(UInt8) /\ down \in Seq(UInt8)
  BY ParsedType DEF IInv, TypeOK, ChannelTypeOK
<1> QED BY <1>1, InFront

LEMMA ChannelInitInv ==
    ASSUME ChannelInit
    PROVE  ChannelInv
<1>1. IInv
  BY InitInv DEF ChannelInit
<1>2. /\ tunnel.state = "open_state" /\ tunnel.read_count = 0 /\ status = "open" /\ rbuf = <<>>
      /\ wire = <<>> /\ med = tunnel /\ mbuf = <<>> /\ down = <<>> /\ mstatus = "open"
      /\ script = <<Greeting>> /\ client = "none"
      /\ relayed = <<>> /\ answered = <<>> /\ passed = <<>>
  BY DEF ChannelInit, Init
<1>3. tunnel \in Tunnel /\ <<>> \in Seq(UInt8)
  BY <1>1 DEF IInv, TypeOK
<1>4. ChannelTypeOK
  BY <1>2, <1>3 DEF ChannelTypeOK, Labels
<1>5. <<>> \o <<>> = <<>>
  BY <1>3, ConcatEmptySeq
<1>6. Up = <<>>
  BY <1>2, <1>5 DEF Up, Parsed
<1>7. AtGreeting
  BY <1>2, <1>5, <1>6 DEF AtGreeting, Quiet
<1> QED BY <1>1, <1>2, <1>4, <1>7 DEF ChannelInv, InStep

LEMMA GreetingBytes ==
    /\ Greeting \in Seq(UInt8) /\ Len(Greeting) = 3 /\ Greeting[1] = 5 /\ Greeting[2] = 1
  BY DEF Greeting, UInt8

LEMMA GreetsKeeps ==
    ASSUME ChannelInv, MediatorGreets
    PROVE  ChannelInv'
<1>1. /\ IInv /\ ChannelTypeOK /\ InStep /\ Send
      /\ UNCHANGED <<med, mbuf, mstatus, down, client, relayed, answered, passed>>
  BY DEF ChannelInv, MediatorGreets, mediator, streams
<1>2. IInv'
  BY <1>1, SendInv
<1>3. /\ script # <<>> /\ wire' = wire \o Head(script) /\ script' = Tail(script)
      /\ UNCHANGED <<tunnel, rbuf, status>>
  BY <1>1 DEF Send
<1>4. ChannelTypeOK'
  BY <1>1, <1>3 DEF ChannelTypeOK, Labels
<1>5. ASSUME client # "early"
      PROVE  AtGreeting'
  <2>1. AtGreeting /\ script = <<Greeting>> /\ Up = <<>>
    BY <1>1, <1>3, <1>5 DEF InStep, AtGreeting, AtRequest, AtStreams
  <2>2. Head(script) = Greeting /\ Tail(script) = <<>>
    <3> HIDE DEF Greeting
    <3>1. Greeting \in Seq(UInt8)
      BY GreetingBytes
    <3> QED BY <2>1, <3>1
  <2> DEFINE a == Parsed(tunnel) \o rbuf
  <2>3. a \in Seq(UInt8) /\ wire \in Seq(UInt8) /\ Greeting \in Seq(UInt8)
    BY <1>1, ChannelSequences, GreetingBytes
  <2>4. Up' = a \o (wire \o Greeting)
    BY <1>3, <2>2, NextParsedBy DEF Up
  <2>5. Up = a \o wire
    BY DEF Up
  <2> HIDE DEF a
  <2>6. a \o (wire \o Greeting) = (a \o wire) \o Greeting
    BY ONLY <2>3, Regroup, Zenon
  <2>7. <<>> \o Greeting = Greeting
    BY <2>3, ConcatEmptySeq
  <2>8. Up' = Greeting
    BY <2>1, <2>4, <2>5, <2>6, <2>7, Zenon
  <2> QED BY <1>1, <1>3, <2>1, <2>2, <2>8 DEF AtGreeting, Quiet
<1> QED BY <1>1, <1>2, <1>4, <1>5 DEF ChannelInv, InStep

\* What a read of the server does: m is the message it has so far, rest what is left.
LEMMA ServerReadFacts ==
    ASSUME ChannelInv, NEW n \in 0..Len(wire), ServerReads(n)
    PROVE  \E m \in Seq(UInt8), rest \in Seq(UInt8), g \in Records :
             /\ m \o rest = Up /\ wire' = rest
             /\ tunnel' = g.t /\ rbuf' = g.buf /\ (g.res = "open" => status' = "open")
             /\ g.out = replies => down' = down
             /\ \A r \in ReplyKinds : g.out = Append(replies, r) => down' = down \o ReplyBytes(r)
             /\ tunnel.state \in HandshakeStates
             /\ tunnel.state = "open_state" => GreetingParsed(replies, g, m)
             /\ tunnel.state = "auth_state" => CredentialsParsed(replies, FALSE, g, m)
             /\ tunnel.state = "request_state" => RequestParsed(replies, g, m)
<1> DEFINE some == SubSeq(wire, 1, n)
           b == rbuf \o some
           rest == Drop(wire, n)
           h == [t |-> tunnel, buf |-> b, out |-> replies, ok |-> FALSE, res |-> "open"]
           g == StateHandle(h)
           p == Parsed(tunnel)
           m == p \o b
<1>1. ReadHandle(n, FALSE) /\ IInv /\ ChannelTypeOK
  BY DEF ServerReads, ChannelInv
<1>2. /\ status = "open" /\ tunnel.state \in HandshakeStates
      /\ tunnel' = g.t /\ rbuf' = g.buf /\ replies' = g.out /\ (g.res = "open" => status' = "open") /\ wire' = rest
  BY <1>1 DEF ReadHandle
<1>3. /\ m \in Seq(UInt8) /\ b \in Seq(UInt8) /\ rest \in Seq(UInt8) /\ m \o rest = Up
  <2>1. p \in Seq(UInt8) /\ rbuf \in Seq(UInt8) /\ wire \in Seq(UInt8)
    BY <1>1, ChannelSequences
  <2>2. Up = (p \o rbuf) \o wire
    BY DEF Up
  <2> HIDE DEF p
  <2>3. b \in Seq(UInt8) /\ rest \in Seq(UInt8)
    BY <2>1, ReadInto
  <2>4. m \in Seq(UInt8) /\ m \o rest = (p \o rbuf) \o wire
    <3>1. /\ p \o (rbuf \o SubSeq(wire, 1, n)) \in Seq(UInt8)
          /\ (p \o (rbuf \o SubSeq(wire, 1, n))) \o Drop(wire, n) = (p \o rbuf) \o wire
      BY ONLY <2>1, n \in 0..Len(wire), ReadIntoParsed, ZenonT(60)
    <3> QED BY <3>1
  <2> QED BY <2>2, <2>3, <2>4
<1>4. h \in Records /\ h.res = "open" /\ h.t = tunnel /\ h.out = replies /\ h.buf = b /\ h.ok = FALSE
  <2>1. tunnel \in Tunnel /\ replies \in Seq(ReplyKinds)
    BY <1>1 DEF IInv, TypeOK, ReplyKinds
  <2> HIDE DEF b
  <2> QED BY <1>3, <2>1 DEF Records
<1>5. FieldsChecked(h.t) /\ h.t.read_count \in Labels(h.t)
  BY <1>1, <1>2, <1>4 DEF IInv, TypeOK, ResumesAtLabel
<1>6. m = Parsed(h.t) \o h.buf
  BY <1>4
<1> HIDE DEF h, b, rest
<1>7. /\ tunnel.state = "open_state" => GreetingParsed(replies, g, m)
      /\ tunnel.state = "auth_state" => CredentialsParsed(replies, FALSE, g, m)
      /\ tunnel.state = "request_state" => RequestParsed(replies, g, m)
  <2>1. CASE tunnel.state = "open_state"
    <3>1. GreetingParsed(h.out, OpenHandle(h), Parsed(h.t) \o h.buf)
      BY <1>4, <1>5, <2>1, OpenHandleParse
    <3> QED BY <1>4, <1>6, <2>1, <3>1 DEF StateHandle
  <2>2. CASE tunnel.state = "auth_state"
    <3>1. CredentialsParsed(h.out, h.ok, AuthHandle(h), Parsed(h.t) \o h.buf)
      BY <1>4, <1>5, <2>2, AuthHandleParse
    <3> QED BY <1>4, <1>6, <2>2, <3>1 DEF StateHandle
  <2>3. CASE tunnel.state = "request_state"
    <3>1. RequestParsed(h.out, RequestHandle(h), Parsed(h.t) \o h.buf)
      BY <1>4, <1>5, <2>3, RequestHandleParse
    <3> QED BY <1>4, <1>6, <2>3, <3>1 DEF StateHandle
  <2> QED BY <1>2, <2>1, <2>2, <2>3 DEF HandshakeStates
<1>8. g \in Records
  BY <1>2, <1>4, <1>5, StateHandleSound DEF Sound
<1> HIDE DEF g, m
<1>9. /\ g.out = replies => down' = down
      /\ \A r \in ReplyKinds : g.out = Append(replies, r) => down' = down \o ReplyBytes(r)
  <2>1. down' = IF replies' = replies THEN down ELSE down \o ReplyBytes(replies'[Len(replies')])
    BY DEF ServerReads
  <2>2. ASSUME NEW r \in ReplyKinds, g.out = Append(replies, r)
        PROVE  down' = down \o ReplyBytes(r)
    <3>1. replies \in Seq(ReplyKinds)
      BY <1>1 DEF IInv, TypeOK, ReplyKinds
    <3>2. /\ Len(Append(replies, r)) = Len(replies) + 1 /\ Append(replies, r)[Len(replies) + 1] = r
          /\ Len(replies) \in Nat
      BY <3>1, AppendProperties, LenProperties
    <3>3. replies' # replies /\ replies'[Len(replies')] = r
      BY <1>2, <2>2, <3>2
    <3> QED BY <2>1, <3>3
  <2> QED BY <1>2, <2>1, <2>2
<1> QED BY <1>2, <1>3, <1>7, <1>8, <1>9

\* A message that goes on is still in front of the rest.
LEMMA UpWaits ==
    ASSUME NEW g, NEW m, NEW rest, NEW o, NEW state, Waits(o, state, g, m),
           tunnel' = g.t, rbuf' = g.buf, wire' = rest, (g.res = "open" => status' = "open")
    PROVE  Up' = m \o rest /\ tunnel'.state = state /\ status' = "open" /\ g.out = o
<1>1. Up' = (Parsed(g.t) \o g.buf) \o rest
  BY NextParsedBy DEF Up
<1> QED BY <1>1 DEF Waits

\* A message is complete, and there is nothing behind it.
LEMMA UpTakes ==
    ASSUME NEW g, NEW m \in Seq(UInt8), NEW o, NEW state, NEW reply, NEW l \in Nat,
           Takes(o, state, reply, g, m, l), Len(m) >= l,
           wire' \in Seq(UInt8), Len(m \o wire') = l,
           tunnel' = g.t, rbuf' = g.buf, (g.res = "open" => status' = "open")
    PROVE  /\ Up' = <<>> /\ rbuf' = <<>> /\ wire' = <<>> /\ tunnel'.state = state
           /\ status' = "open" /\ g.out = Append(o, reply)
<1>1. Len(m \o wire') = Len(m) + Len(wire') /\ Len(m) \in Nat /\ Len(wire') \in Nat
  BY InFront
<1>2. Len(m) = l /\ Len(wire') = 0
  BY <1>1
<1>3. wire' = <<>> /\ Drop(m, l) = <<>>
  BY <1>2, EmptySeq, DropAll
<1>4. /\ g.buf = <<>> /\ g.t.read_count = 0 /\ g.t.state = state /\ g.res = "open"
      /\ g.out = Append(o, reply)
  BY <1>3 DEF Takes
<1>5. Parsed(g.t) = <<>> /\ <<>> \o <<>> = <<>>
  BY <1>4, ConcatEmptySeq, EmptySeq DEF Parsed
<1>6. Up' = <<>>
  BY <1>3, <1>4, <1>5, NextParsedBy DEF Up
<1> QED BY <1>3, <1>4, <1>6

LEMMA GreetingStep ==
    ASSUME ChannelInv, AtGreeting, client # "early", NEW n \in 0..Len(wire), ServerReads(n)
    PROVE  down' \in Seq(UInt8) /\ (AtGreeting' \/ AtRequest')
<1>1. PICK m \in Seq(UInt8), rest \in Seq(UInt8), g \in Records :
        /\ m \o rest = Up /\ wire' = rest
        /\ tunnel' = g.t /\ rbuf' = g.buf /\ (g.res = "open" => status' = "open")
        /\ g.out = replies => down' = down
        /\ \A r \in ReplyKinds : g.out = Append(replies, r) => down' = down \o ReplyBytes(r)
        /\ GreetingParsed(replies, g, m)
  <2>1. tunnel.state = "open_state"
    BY DEF AtGreeting
  <2> QED BY <2>1, ServerReadFacts
<1>2. /\ UNCHANGED <<med, mbuf, script, relayed, answered, passed>>
      /\ down \in Seq(UInt8) /\ mbuf \in Seq(UInt8)
  BY DEF ServerReads, ReadHandle, mediator, streams, ChannelInv, ChannelTypeOK
<1>3. /\ Quiet /\ med.state = "open_state" /\ mbuf \o down = <<>>
      /\ \/ script = <<Greeting>> /\ Up = <<>>
         \/ script = <<>> /\ Up = Greeting
  BY DEF AtGreeting
<1>4. mbuf = <<>> /\ down = <<>>
  BY <1>2, <1>3, NothingAtAll
<1>5. Len(m) \in Nat /\ Len(rest) \in Nat /\ Len(Up) = Len(m) + Len(rest)
      /\ \A i \in 1..Len(m) : Up[i] = m[i]
  BY <1>1, InFront
<1>6. Len(m) >= 2 => Up = Greeting /\ script = <<>> /\ Len(Up) = 3 /\ m[1] = 5 /\ m[2] = 1
  <2>1. ASSUME Len(m) >= 2
        PROVE  Up # <<>>
    BY <1>5, <2>1, EmptySeq
  <2>2. ASSUME Len(m) >= 2
        PROVE  Up = Greeting /\ script = <<>>
    BY <1>3, <2>1, <2>2
  <2>3. ASSUME Len(m) >= 2
        PROVE  m[1] = Up[1] /\ m[2] = Up[2]
    BY <1>5, <2>3
  <2> QED BY <2>2, <2>3, GreetingBytes
<1>7. CASE Waits(replies, "open_state", g, m)
  <2>1. Up' = Up /\ tunnel'.state = "open_state" /\ status' = "open" /\ g.out = replies
    BY <1>1, <1>7, UpWaits
  <2>2. down' = down
    BY <1>1, <2>1
  <2>3. AtGreeting'
    BY <1>2, <1>3, <2>1, <2>2 DEF AtGreeting, Quiet
  <2> QED BY <1>2, <2>2, <2>3
<1>8. CASE /\ Takes(replies, IF auth THEN "auth_state" ELSE "request_state",
                    IF auth THEN "password" ELSE "no_auth", g, m, 2 + m[2])
           /\ Len(m) >= 2 /\ m[1] = 5 /\ Len(m) >= 2 + m[2]
  <2>1. script = <<>> /\ Len(m \o rest) = 3 /\ 2 + m[2] = 3 /\ Len(m) >= 3
    BY <1>1, <1>6, <1>8
  <2> DEFINE state == IF auth THEN "auth_state" ELSE "request_state"
             reply == IF auth THEN "password" ELSE "no_auth"
             x == IF auth THEN 2 ELSE 0
  <2>2. Takes(replies, state, reply, g, m, 3)
    BY <1>8, <2>1
  <2>3. /\ state \in {"auth_state", "request_state"} /\ reply \in ReplyKinds
        /\ ReplyBytes(reply) = <<5, x>> /\ x \in UInt8 /\ <<5, x>> \in Seq(UInt8)
    BY DEF ReplyKinds, ReplyBytes, UInt8
  <2> HIDE DEF state, reply, x
  <2>4. /\ Up' = <<>> /\ tunnel'.state = state /\ status' = "open" /\ g.out = Append(replies, reply)
    <3>1. wire' \in Seq(UInt8) /\ Len(m \o wire') = 3 /\ 3 \in Nat /\ Len(m) >= 3
      BY <1>1, <2>1
    <3>2. m \in Seq(UInt8) /\ tunnel' = g.t /\ rbuf' = g.buf /\ (g.res = "open" => status' = "open")
      BY <1>1
    <3> QED BY ONLY <2>2, <3>1, <3>2, UpTakes
  <2>5. down' = <<5, x>>
    <3>1. down' = down \o ReplyBytes(reply)
      BY <1>1, <2>3, <2>4
    <3>2. <<>> \o <<5, x>> = <<5, x>>
      BY <2>3, ConcatEmptySeq
    <3> QED BY <1>4, <2>3, <3>1, <3>2
  <2>6. mbuf' \o down' = <<5, x>>
    BY <1>2, <1>4, <2>3, <2>5, ConcatEmptySeq
  <2>7. AtRequest'
    BY <1>2, <1>3, <2>1, <2>3, <2>4, <2>6 DEF AtRequest, Quiet
  <2> QED BY <2>3, <2>5, <2>7
<1>9. CASE Len(m) >= 2 /\ m[1] # 5
  BY <1>6, <1>9
<1> QED BY <1>1, <1>7, <1>8, <1>9 DEF GreetingParsed

\* The mediator sends no credentials, and its request is not some.
LEMMA CredentialsStep ==
    ASSUME ChannelInv, AtRequest, tunnel.state = "auth_state", NEW n \in 0..Len(wire), ServerReads(n)
    PROVE  down' \in Seq(UInt8) /\ AtRequest'
<1>1. PICK m \in Seq(UInt8), rest \in Seq(UInt8), g \in Records :
        /\ tunnel' = g.t /\ rbuf' = g.buf /\ (g.res = "open" => status' = "open")
        /\ g.out = replies => down' = down
        /\ CredentialsParsed(replies, FALSE, g, m)
  BY ServerReadFacts
<1>2. /\ UNCHANGED <<med, mbuf, script, relayed, answered, passed>>
      /\ down \in Seq(UInt8)
  BY DEF ServerReads, ReadHandle, mediator, streams, ChannelInv, ChannelTypeOK
<1>3. g.t.state = "auth_state" /\ g.out = replies
  BY <1>1 DEF CredentialsParsed, Waits, Refuses
<1>4. tunnel'.state = "auth_state" /\ down' = down
  BY <1>1, <1>3
<1>5. AtRequest'
  BY <1>2, <1>4 DEF AtRequest, Quiet
<1> QED BY <1>2, <1>4, <1>5

LEMMA RequestStep ==
    ASSUME ChannelInv, AtRequest, tunnel.state = "request_state", NEW n \in 0..Len(wire), ServerReads(n)
    PROVE  down' \in Seq(UInt8) /\ (AtRequest' \/ AtStreams')
<1>1. PICK m \in Seq(UInt8), rest \in Seq(UInt8), g \in Records :
        /\ m \o rest = Up /\ wire' = rest
        /\ tunnel' = g.t /\ rbuf' = g.buf /\ (g.res = "open" => status' = "open")
        /\ g.out = replies => down' = down
        /\ \A r \in ReplyKinds : g.out = Append(replies, r) => down' = down \o ReplyBytes(r)
        /\ RequestParsed(replies, g, m)
  BY ServerReadFacts
<1>2. /\ UNCHANGED <<med, mbuf, script, relayed, answered, passed>>
      /\ down \in Seq(UInt8) /\ mbuf \in Seq(UInt8) /\ med \in Tunnel
  BY DEF ServerReads, ReadHandle, mediator, streams, ChannelInv, ChannelTypeOK
<1>3. Len(m) \in Nat /\ Len(rest) \in Nat /\ Len(Up) = Len(m) + Len(rest)
  BY <1>1, InFront
<1>4. CASE Waits(replies, "request_state", g, m)
  <2>1. Up' = Up /\ tunnel'.state = "request_state" /\ status' = "open" /\ g.out = replies
    BY <1>1, <1>4, UpWaits
  <2>2. down' = down
    BY <1>1, <2>1
  <2>3. AtRequest'
    BY <1>2, <2>1, <2>2 DEF AtRequest, Quiet
  <2> QED BY <1>2, <2>2, <2>3
<1>5. CASE Up = <<>>
  <2>1. Len(m) = 0
    BY <1>3, <1>5, EmptySeq
  <2>2. Waits(replies, "request_state", g, m)
    BY <1>1, <2>1 DEF RequestParsed
  <2> QED BY <1>4, <2>2
<1>6. CASE Up # <<>> /\ ~Waits(replies, "request_state", g, m)
  <2>1. /\ med.state = "request_state" /\ med.read_count = 0 /\ mbuf \o down = <<>>
        /\ Up = Request /\ script = <<>> /\ Quiet
    BY <1>6 DEF AtRequest
  <2>2. Takes(replies, "connected_state", "connect", g, m, 22) /\ Len(m) >= 22
    <3>1. Len(Up) >= 7 + 15 /\ Up[1] = 5 /\ Up[2] = 1 /\ Up[4] = 3 /\ Up[5] = 15
      BY <2>1, RequestBytes
    <3>2. Up = m \o rest /\ 15 \in Nat
      BY <1>1
    <3>3. \/ Waits(replies, "request_state", g, m) /\ Len(m) < 7 + 15
          \/ Takes(replies, "connected_state", "connect", g, m, 7 + 15) /\ Len(m) >= 7 + 15
      BY ONLY <1>1, <3>1, <3>2, NamedParsed
    <3> QED BY <1>6, <3>3
  <2>3. /\ rbuf' = <<>> /\ wire' = <<>> /\ tunnel'.state = "connected_state" /\ status' = "open"
        /\ g.out = Append(replies, "connect")
    <3> DEFINE l == 22
    <3>1. wire' \in Seq(UInt8) /\ Len(m \o wire') = l /\ l \in Nat
      BY <1>1, <2>1, RequestBytes
    <3>3. Takes(replies, "connected_state", "connect", g, m, l) /\ Len(m) >= l
      BY <2>2
    <3> HIDE DEF l
    <3>2. m \in Seq(UInt8) /\ tunnel' = g.t /\ rbuf' = g.buf /\ (g.res = "open" => status' = "open")
      BY <1>1
    <3> QED BY ONLY <3>1, <3>2, <3>3, UpTakes
  <2>4. down' = ConnectReply /\ mbuf = <<>> /\ ConnectReply \in Seq(UInt8)
    <3>1. mbuf = <<>> /\ down = <<>>
      BY <1>2, <2>1, NothingAtAll
    <3>2. ReplyBytes("connect") = ConnectReply /\ "connect" \in ReplyKinds
      BY DEF ReplyBytes, ReplyKinds
    <3>3. down' = <<>> \o ConnectReply
      BY <1>1, <2>3, <3>1, <3>2
    <3> QED BY <3>1, <3>3, ConnectReplyBytes, ConcatEmptySeq
  <2>5. Down' = ConnectReply \o <<>>
    <3>1. Parsed(med') = <<>>
      BY <1>2, <2>1 DEF Parsed
    <3>2. Down' = (<<>> \o <<>>) \o ConnectReply
      BY <1>2, <2>4, <3>1, NextParsedBy DEF Down
    <3>3. <<>> \o <<>> = <<>> /\ <<>> \o ConnectReply = ConnectReply /\ ConnectReply \o <<>> = ConnectReply
      BY <2>4, ConcatEmptySeq, EmptySeq
    <3> QED BY <3>2, <3>3
  <2>6. passed' \o rbuf' \o wire' = answered'
    <3>1. <<>> \o <<>> = <<>>
      BY ConcatEmptySeq, EmptySeq
    <3> QED BY <1>2, <2>1, <2>3, <3>1 DEF Quiet
  <2>7. AtStreams'
    BY <1>2, <2>1, <2>3, <2>5, <2>6 DEF AtStreams, Quiet
  <2> QED BY <2>4, <2>7
<1> QED BY <1>4, <1>5, <1>6

LEMMA ServerReadsKeeps ==
    ASSUME ChannelInv, NEW n \in 0..Len(wire), ServerReads(n)
    PROVE  ChannelInv'
<1>1. /\ ReadHandle(n, FALSE) /\ IInv /\ ChannelTypeOK /\ InStep
      /\ UNCHANGED <<med, mbuf, mstatus, client, relayed, answered, passed>>
  BY DEF ServerReads, ChannelInv, mediator, streams
<1>2. IInv'
  BY <1>1, ReadInv
<1>3. client = "none" /\ mstatus = "open" /\ (AtGreeting \/ AtRequest)
  <2>1. tunnel.state \in HandshakeStates
    BY <1>1 DEF ReadHandle
  <2>2. client = "none"
    BY <1>1, <2>1 DEF ChannelTypeOK, HandshakeStates
  <2> QED BY <1>1, <2>1, <2>2 DEF InStep, AtStreams, HandshakeStates
<1>4. down' \in Seq(UInt8) /\ (AtGreeting' \/ AtRequest' \/ AtStreams')
  <2>1. CASE AtGreeting
    BY <1>3, <2>1, GreetingStep
  <2>2. CASE AtRequest
    <3>1. tunnel.state = "auth_state" \/ tunnel.state = "request_state"
      BY <2>2 DEF AtRequest
    <3> QED BY <2>2, <3>1, CredentialsStep, RequestStep
  <2> QED BY <1>3, <2>1, <2>2
<1>5. ChannelTypeOK'
  BY <1>1, <1>3, <1>4 DEF ChannelTypeOK, Labels
<1> QED BY <1>1, <1>2, <1>3, <1>4, <1>5 DEF ChannelInv, InStep

LEMMA BindsKeeps ==
    ASSUME ChannelInv, ClientBinds
    PROVE  ChannelInv'
<1>1. IInv /\ ChannelTypeOK /\ InStep
  BY DEF ChannelInv
<1>2. /\ client = "none" /\ client' = IF tunnel.state = "connected_state" THEN "bound" ELSE "early"
      /\ tunnel' = [tunnel EXCEPT !.state = "connected_state", !.read_count = 0]
      /\ UNCHANGED <<auth, patient, rbuf, replies, status, script, sent, wire, med, mbuf, mstatus,
                     down, relayed, answered, passed>>
  BY DEF ClientBinds, setup, mediator
<1>3. tunnel' \in Tunnel /\ tunnel'.state = "connected_state" /\ tunnel'.read_count = 0
  <2>1. tunnel \in Tunnel
    BY <1>1 DEF IInv, TypeOK
  <2> QED BY <1>2, <2>1 DEF Tunnel, HandshakeStates
<1>4. IInv'
  <2>1. FieldsChecked(tunnel') /\ tunnel'.read_count \in Labels(tunnel')
    BY <1>3 DEF FieldsChecked, Labels
  <2>2. rbuf' \in Seq(UInt8) /\ wire' \in Seq(UInt8)
    BY <1>1, <1>2 DEF IInv, TypeOK
  <2> QED BY <1>1, <1>2, <1>3, <2>1, <2>2, KeptInv
<1>5. ChannelTypeOK'
  BY <1>1, <1>2, <1>3 DEF ChannelTypeOK, Labels
<1>6. ASSUME client' # "early"
      PROVE  mstatus' = "open" /\ AtStreams'
  <2>1. AtStreams /\ mstatus = "open"
    BY <1>1, <1>2, <1>6 DEF InStep, AtGreeting, AtRequest, AtStreams, HandshakeStates
  <2>2. Down' = Down
    BY <1>2 DEF Down, Parsed
  <2> QED BY <1>2, <1>3, <2>1, <2>2 DEF AtStreams
<1> QED BY <1>4, <1>5, <1>6 DEF ChannelInv, InStep

\* The next n bytes of a stream of which some have been sent.
LEMMA NextBytes ==
    ASSUME NEW q \in Seq(UInt8), NEW a \in Seq(UInt8), NEW n \in 1..(Len(q) - Len(a))
    PROVE  SubSeq(q, Len(a) + 1, Len(a) + n) \in Seq(UInt8)
<1>1. Len(q) \in Nat /\ Len(a) \in Nat /\ \A i \in 1..Len(q) : q[i] \in UInt8
  BY LenProperties, ElementOfSeq
<1> DEFINE k == Len(a)
           l == Len(q)
<1>2. k \in Nat /\ l \in Nat /\ n \in 1..(l - k) /\ \A i \in 1..l : q[i] \in UInt8
  BY <1>1
<1> HIDE DEF k, l
<1>3. k + 1 \in Int /\ k + n \in Int /\ \A i \in (k + 1)..(k + n) : q[i] \in UInt8
  BY <1>2
<1>4. SubSeq(q, k + 1, k + n) \in Seq(UInt8)
  BY <1>3, SubSeqProperties
<1> QED BY <1>4 DEF k

LEMMA RelaysKeeps ==
    ASSUME ChannelInv, NEW n \in 1..(Len(Requests) - Len(relayed)), ServerRelays(n)
    PROVE  ChannelInv'
<1> DEFINE bytes == SubSeq(Requests, Len(relayed) + 1, Len(relayed) + n)
<1>1. /\ IInv /\ ChannelTypeOK /\ InStep /\ client # "none"
      /\ down' = down \o bytes /\ relayed' = relayed \o bytes
      /\ UNCHANGED <<auth, patient, tunnel, rbuf, replies, status, script, sent, wire, med, mbuf,
                     mstatus, client, answered, passed>>
  BY DEF ChannelInv, ServerRelays, vars, setup, mediator
<1>2. relayed \in Seq(UInt8) /\ down \in Seq(UInt8) /\ mbuf \in Seq(UInt8) /\ Parsed(med) \o mbuf \in Seq(UInt8)
  BY <1>1, ChannelSequences DEF ChannelTypeOK
<1>3. bytes \in Seq(UInt8)
  BY <1>2, NextBytes, StreamsAssumption
<1> HIDE DEF bytes
<1>4. IInv'
  BY <1>1, KeptInv DEF IInv, TypeOK
<1>5. down' \in Seq(UInt8) /\ relayed' \in Seq(UInt8)
  BY <1>1, <1>2, <1>3, InFront
<1>6. ChannelTypeOK'
  BY <1>1, <1>5 DEF ChannelTypeOK, Labels
<1>7. ASSUME client # "early"
      PROVE  mstatus = "open" /\ AtStreams'
  <2>1. AtStreams /\ mstatus = "open"
    BY <1>1, <1>7 DEF InStep, AtGreeting, AtRequest, AtStreams, ChannelTypeOK, HandshakeStates
  <2>2. Down' = Down \o bytes
    <3> DEFINE a == Parsed(med) \o mbuf
    <3>1. Down' = a \o (down \o bytes) /\ Down = a \o down
      BY <1>1, NextParsedBy DEF Down
    <3>2. a \in Seq(UInt8) /\ down \in Seq(UInt8) /\ bytes \in Seq(UInt8)
      BY <1>2, <1>3
    <3> HIDE DEF a
    <3>3. a \o (down \o bytes) = (a \o down) \o bytes
      BY ONLY <3>2, Regroup, Zenon
    <3> QED BY <3>1, <3>3
  <2>3. mbuf' \o down' = (mbuf \o down) \o bytes
    <3>1. mbuf \in Seq(UInt8) /\ down \in Seq(UInt8) /\ bytes \in Seq(UInt8)
      BY <1>2, <1>3
    <3>2. mbuf \o (down \o bytes) = (mbuf \o down) \o bytes
      BY ONLY <3>1, Regroup, Zenon
    <3> QED BY <1>1, <3>2
  <2>4. ConnectReply \o (relayed \o bytes) = (ConnectReply \o relayed) \o bytes
    <3>1. ConnectReply \in Seq(UInt8) /\ relayed \in Seq(UInt8) /\ bytes \in Seq(UInt8)
      BY <1>2, <1>3, ConnectReplyBytes
    <3> QED BY ONLY <3>1, Regroup, Zenon
  <2>5. CASE med.state = "request_state" /\ answered = <<>> /\ Down = ConnectReply \o relayed
    <3>1. Down' = ConnectReply \o relayed'
      BY <1>1, <2>2, <2>4, <2>5, Zenon
    <3> QED BY <1>1, <2>1, <2>5, <3>1 DEF AtStreams
  <2>6. CASE med.state = "connected_state" /\ mbuf \o down = relayed
    <3>1. mbuf' \o down' = relayed'
      BY <1>1, <2>3, <2>6, Zenon
    <3> QED BY <1>1, <2>1, <2>6, <3>1 DEF AtStreams
  <2> QED BY <2>1, <2>5, <2>6 DEF AtStreams
<1> QED BY <1>1, <1>4, <1>6, <1>7 DEF ChannelInv, InStep

LEMMA PassesKeeps ==
    ASSUME ChannelInv, NEW n \in 0..Len(wire), ServerPasses(n)
    PROVE  ChannelInv'
<1> DEFINE some == SubSeq(wire, 1, n)
           rest == Drop(wire, n)
<1>1. /\ IInv /\ ChannelTypeOK /\ InStep /\ client # "none"
      /\ passed' = passed \o rbuf \o some /\ rbuf' = <<>> /\ wire' = rest
      /\ UNCHANGED <<auth, patient, tunnel, replies, status, script, sent, med, mbuf, mstatus, down,
                     client, relayed, answered>>
  BY DEF ChannelInv, ServerPasses, setup, mediator
<1>2. /\ rbuf \in Seq(UInt8) /\ wire \in Seq(UInt8) /\ passed \in Seq(UInt8) /\ <<>> \in Seq(UInt8)
      /\ some \in Seq(UInt8) /\ rest \in Seq(UInt8) /\ passed \o rbuf \in Seq(UInt8)
  <2>1. rbuf \in Seq(UInt8) /\ wire \in Seq(UInt8) /\ passed \in Seq(UInt8)
    BY <1>1, ChannelSequences DEF ChannelTypeOK
  <2> QED BY <2>1, CutParts, InFront
<1>3. passed' \in Seq(UInt8) /\ passed' \o rest = (passed \o rbuf) \o wire
  <2>1. (passed \o rbuf) \o some \in Seq(UInt8)
    BY <1>2, InFront
  <2>2. ((passed \o rbuf) \o SubSeq(wire, 1, n)) \o Drop(wire, n) = (passed \o rbuf) \o wire
    <3> DEFINE p == passed \o rbuf
    <3>1. p \in Seq(UInt8) /\ wire \in Seq(UInt8)
      BY <1>2
    <3> HIDE DEF p
    <3>2. (p \o SubSeq(wire, 1, n)) \o Drop(wire, n) = p \o wire
      BY ONLY <3>1, n \in 0..Len(wire), MovedOver
    <3> QED BY <3>2 DEF p
  <2> QED BY <1>1, <2>1, <2>2
<1> HIDE DEF some, rest
<1>4. IInv'
  BY <1>1, <1>2, KeptInv DEF IInv
<1>5. ChannelTypeOK'
  BY <1>1, <1>3 DEF ChannelTypeOK, Labels
<1>6. ASSUME client # "early"
      PROVE  mstatus = "open" /\ AtStreams'
  <2>1. AtStreams /\ mstatus = "open"
    BY <1>1, <1>6 DEF InStep, AtGreeting, AtRequest, AtStreams, ChannelTypeOK, HandshakeStates
  <2>2. Down' = Down
    BY <1>1 DEF Down, Parsed
  <2>3. passed' \o rbuf' \o wire' = answered'
    <3>1. passed' \o <<>> = passed'
      BY <1>3, ConcatEmptySeq
    <3>2. (passed \o rbuf) \o wire = answered
      BY <2>1 DEF AtStreams
    <3> QED BY <1>1, <1>3, <3>1, <3>2, Zenon
  <2> QED BY <1>1, <2>1, <2>2, <2>3 DEF AtStreams
<1> QED BY <1>1, <1>4, <1>5, <1>6 DEF ChannelInv, InStep

----------------------------------------------------------------------------
(* The steps of the mediator.                                              *)

\* What a read of the mediator does: b is what the handler is given, rest what is left.
LEMMA MediatorReadFacts ==
    ASSUME ChannelInv, NEW n \in 0..Len(down), MediatorReads(n)
    PROVE  \E b, rest, g :
             /\ b \in Seq(UInt8) /\ rest \in Seq(UInt8)
             /\ b \o rest = mbuf \o down /\ down' = rest
             /\ Parsed(med) \o b \in Seq(UInt8) /\ (Parsed(med) \o b) \o rest = Down
             /\ med' = g.t /\ mbuf' = g.buf /\ mstatus' = MedStatus(g) /\ wire' = wire \o g.out
             /\ MedOutcome(g, med, b)
<1> DEFINE h == MedRecord(n)
           g == MedHandle(h)
           b == mbuf \o SubSeq(down, 1, n)
           rest == Drop(down, n)
           p == Parsed(med)
<1>1. mstatus = "open" /\ IInv /\ ChannelTypeOK
  BY DEF MediatorReads, ChannelInv
<1>2. p \in Seq(UInt8) /\ mbuf \in Seq(UInt8) /\ down \in Seq(UInt8)
  BY <1>1, ChannelSequences
<1>3. b \in Seq(UInt8) /\ rest \in Seq(UInt8) /\ b \o rest = mbuf \o down
  BY <1>2, ReadInto
<1>4. p \o b \in Seq(UInt8) /\ (p \o b) \o rest = (p \o mbuf) \o down
  <2> HIDE DEF p
  <2>1. /\ p \o (mbuf \o SubSeq(down, 1, n)) \in Seq(UInt8)
        /\ (p \o (mbuf \o SubSeq(down, 1, n))) \o Drop(down, n) = (p \o mbuf) \o down
    BY ONLY <1>2, n \in 0..Len(down), ReadIntoParsed, ZenonT(60)
  <2> QED BY <2>1
<1>5. /\ med' = g.t /\ mbuf' = g.buf /\ mstatus' = MedStatus(g) /\ wire' = wire \o g.out /\ down' = rest
  BY DEF MediatorReads, MedRecord, MedStatus
<1>6. /\ h \in Records /\ h.t = med /\ h.buf = b /\ h.out = <<>> /\ h.res = "open"
      /\ h.t.read_count \in Labels(h.t) /\ FieldsChecked(h.t)
  BY <1>1, MedRecordType
<1> HIDE DEF h
<1>7. MedOutcome(g, h.t, h.buf)
  BY <1>1, <1>6, MedHandles DEF ChannelTypeOK
<1> HIDE DEF b, rest, g
<1>8. MedOutcome(g, med, b)
  BY <1>6, <1>7
<1>9. Down = (p \o mbuf) \o down
  BY DEF Down
<1> HIDE DEF p
<1>10. p \o b \in Seq(UInt8) /\ (p \o b) \o rest = Down
  BY <1>4, <1>9
<1> QED BY <1>3, <1>5, <1>8, <1>10 DEF p

LEMMA MediatorReadTypes ==
    ASSUME ChannelInv, NEW n \in 0..Len(down), MediatorReads(n)
    PROVE  IInv' /\ ChannelTypeOK'
<1>1. PICK b, rest, g :
        /\ b \in Seq(UInt8) /\ rest \in Seq(UInt8)
        /\ down' = rest
        /\ med' = g.t /\ mbuf' = g.buf /\ mstatus' = MedStatus(g) /\ wire' = wire \o g.out
        /\ MedOutcome(g, med, b)
  BY MediatorReadFacts
<1>2. /\ IInv /\ ChannelTypeOK
      /\ UNCHANGED <<auth, patient, tunnel, rbuf, replies, status, script, sent,
                     client, relayed, answered, passed>>
  BY DEF ChannelInv, MediatorReads, setup, server, streams
<1>3. /\ g.t \in Tunnel /\ g.t.state \in {"open_state", "request_state", "connected_state"}
      /\ g.t.state = "open_state" => g.t.read_count = 0
      /\ g.res \in {"open", "refused"} /\ (g.res = "open" => g.t.read_count \in Labels(g.t))
      /\ g.buf \in Seq(UInt8) /\ g.out \in {<<>>, Request}
  <2>0. mstatus = "open"
    BY DEF MediatorReads
  <2>1. CASE g.t = med /\ g.buf = b /\ g.out = <<>> /\ g.res = "open"
    BY <1>1, <1>2, <2>0, <2>1 DEF ChannelTypeOK
  <2>4. CASE Len(b) >= 2 /\ g.t = med /\ g.buf = Drop(b, 1) /\ g.out = <<>> /\ g.res = "refused"
    <3>1. 1 \in 0..Len(b)
      BY <1>1, <2>4, LenProperties
    <3>2. g.buf \in Seq(UInt8)
      BY <1>1, <2>4, <3>1, CutParts
    <3> QED BY <1>1, <1>2, <2>0, <2>4, <3>2 DEF ChannelTypeOK
  <2>2. CASE /\ Len(b) >= 2 /\ g.t \in Tunnel /\ g.t.state = "request_state" /\ g.t.read_count = 0
             /\ g.buf = Drop(b, 2) /\ g.out = Request /\ g.res = "open"
    <3>1. b \in Seq(UInt8) /\ 2 \in 0..Len(b)
      BY <1>1, <2>2, TwoBytes
    <3>2. g.buf \in Seq(UInt8)
      BY <2>2, <3>1, CutParts
    <3> QED BY <2>2, <3>2 DEF Labels
  <2>3. ASSUME g.out = <<>>,
               NEW r \in Records, Sound(r), RequestParsed(<<>>, r, Parsed(med) \o b),
               g.t = r.t, g.buf = r.buf, g.res = r.res
        PROVE  /\ g.t \in Tunnel /\ g.t.state \in {"request_state", "connected_state"}
               /\ g.res \in {"open", "refused"} /\ (g.res = "open" => g.t.read_count \in Labels(g.t))
               /\ g.buf \in Seq(UInt8)
    <3>1. r.t.state \in {"request_state", "connected_state"}
      BY <2>3 DEF RequestParsed, Waits, Takes, Refuses
    <3> QED BY <2>3, <3>1 DEF Sound, Records
  <2> QED BY <1>1, <2>1, <2>2, <2>3, <2>4 DEF MedOutcome
<1>4. wire' \in Seq(UInt8)
  <2>1. wire \in Seq(UInt8) /\ <<>> \in Seq(UInt8) /\ Request \in Seq(UInt8)
    BY <1>2, RequestBytes DEF IInv, TypeOK
  <2>2. g.out \in Seq(UInt8)
    <3> HIDE DEF Request
    <3> QED BY <1>3, <2>1
  <2> QED BY <1>1, <2>1, <2>2, InFront
<1>5. IInv'
  <2>1. rbuf' \in Seq(UInt8)
    BY <1>2 DEF IInv, TypeOK
  <2> QED BY <1>2, <1>4, <2>1, KeptInv
<1>6. ChannelTypeOK'
  BY <1>1, <1>2, <1>3, NextParsedBy DEF ChannelTypeOK, MedStatus
<1> QED BY <1>5, <1>6

\* The choice of a method has arrived: the request is sent.
LEMMA MedOpenStep ==
    ASSUME ChannelInv, AtRequest, med.state = "open_state", NEW n \in 0..Len(down), MediatorReads(n)
    PROVE  mstatus' = "open" /\ AtRequest'
<1>1. PICK b, rest, g :
        /\ b \in Seq(UInt8) /\ rest \in Seq(UInt8)
        /\ b \o rest = mbuf \o down /\ down' = rest
        /\ med' = g.t /\ mbuf' = g.buf /\ mstatus' = MedStatus(g) /\ wire' = wire \o g.out
        /\ MedOutcome(g, med, b)
  BY MediatorReadFacts
<1>2. /\ IInv /\ ChannelTypeOK
      /\ UNCHANGED <<auth, patient, tunnel, rbuf, replies, status, script, sent,
                     client, relayed, answered, passed>>
  BY DEF ChannelInv, MediatorReads, setup, server, streams
<1>3. PICK x \in UInt8 : mbuf \o down = <<5, x>>
  BY DEF AtRequest
<1>4. /\ <<5, x>> \in Seq(UInt8) /\ Len(<<5, x>>) = 2 /\ <<5, x>>[1] = 5
  BY DEF UInt8
<1>5. Len(b) \in Nat /\ Len(rest) \in Nat /\ Len(b) + Len(rest) = 2 /\ (Len(b) >= 1 => b[1] = 5)
  <2> DEFINE q == b \o rest
  <2>1. Len(q) = Len(b) + Len(rest) /\ Len(b) \in Nat /\ Len(rest) \in Nat
        /\ \A i \in 1..Len(b) : q[i] = b[i]
    BY <1>1, InFront
  <2>2. Len(q) = 2 /\ q[1] = 5
    BY <1>1, <1>3, <1>4
  <2> HIDE DEF q
  <2>3. Len(b) >= 1 => b[1] = q[1]
    BY ONLY <2>1
  <2> QED BY ONLY <2>1, <2>2, <2>3
<1>6. CASE g.out = <<>> /\ g.t = med /\ g.buf = b /\ g.res = "open"
  <2>1. wire \in Seq(UInt8) /\ wire \o <<>> = wire
    BY <1>2, ConcatEmptySeq DEF IInv, TypeOK
  <2>2. wire' = wire /\ med' = med
    BY <1>1, <1>6, <2>1
  <2>3. Up' = Up
    BY <1>2, <2>2, NextParsedBy DEF Up
  <2>4. mbuf' \o down' = mbuf \o down
    BY <1>1, <1>6
  <2> QED BY <1>1, <1>2, <1>6, <2>2, <2>3, <2>4 DEF AtRequest, Quiet, MedStatus
<1>7. CASE /\ Len(b) >= 2 /\ g.t.state = "request_state" /\ g.t.read_count = 0
           /\ g.buf = Drop(b, 2) /\ g.out = Request /\ g.res = "open"
  <2>1. Len(b) = 2 /\ Len(rest) = 0
    <3> DEFINE k == Len(b)
               l == Len(rest)
    <3>1. k >= 2 /\ k \in Nat /\ l \in Nat /\ k + l = 2
      BY <1>5, <1>7
    <3> HIDE DEF k, l
    <3>2. k = 2 /\ l = 0
      BY ONLY <3>1
    <3> QED BY <3>2 DEF k, l
  <2>2. mbuf' = <<>> /\ down' = <<>>
    BY <1>1, <1>7, <2>1, DropAll, EmptySeq
  <2>3. mbuf' \o down' = <<>>
    BY <2>2, ConcatEmptySeq, EmptySeq
  <2>4. Up' = Up \o Request
    <3> DEFINE a == Parsed(tunnel) \o rbuf
               r == Request
    <3>1. a \in Seq(UInt8) /\ wire \in Seq(UInt8) /\ r \in Seq(UInt8)
      BY <1>2, ChannelSequences, RequestBytes
    <3>2. Up' = a \o (wire \o r) /\ Up = a \o wire
      BY <1>1, <1>2, <1>7, NextParsedBy DEF Up
    <3> HIDE DEF a, r
    <3>3. a \o (wire \o r) = (a \o wire) \o r
      BY ONLY <3>1, Regroup, Zenon
    <3> QED BY <3>2, <3>3 DEF r
  <2>5. ASSUME tunnel.state = "request_state"
        PROVE  Up' = Request
    <3>1. Up = <<>>
      BY <2>5 DEF AtRequest
    <3>2. <<>> \o Request = Request
      BY RequestBytes, ConcatEmptySeq
    <3> QED BY <2>4, <3>1, <3>2
  <2> QED BY <1>1, <1>2, <1>7, <2>3, <2>5 DEF AtRequest, Quiet, MedStatus
<1>8. b[1] # 5 => ~(Len(b) >= 2)
  BY <1>5
<1> QED BY <1>1, <1>6, <1>7, <1>8 DEF MedOutcome

\* The server's reply is parsed as a request would be, and what follows it is a client's.
LEMMA MedRequestStep ==
    ASSUME ChannelInv, AtStreams, med.state = "request_state", NEW n \in 0..Len(down), MediatorReads(n)
    PROVE  mstatus' = "open" /\ AtStreams'
<1>1. PICK b, rest, g :
        /\ b \in Seq(UInt8) /\ rest \in Seq(UInt8)
        /\ down' = rest
        /\ Parsed(med) \o b \in Seq(UInt8) /\ (Parsed(med) \o b) \o rest = Down
        /\ med' = g.t /\ mbuf' = g.buf /\ mstatus' = MedStatus(g) /\ wire' = wire \o g.out
        /\ MedOutcome(g, med, b)
  BY MediatorReadFacts
<1>2. /\ IInv /\ ChannelTypeOK
      /\ UNCHANGED <<auth, patient, tunnel, rbuf, replies, status, script, sent,
                     client, relayed, answered, passed>>
  BY DEF ChannelInv, MediatorReads, setup, server, streams
<1>3. PICK r \in Records : /\ RequestParsed(<<>>, r, Parsed(med) \o b)
                           /\ g.out = <<>> /\ g.t = r.t /\ g.buf = r.buf /\ g.res = r.res
  BY <1>1 DEF MedOutcome
<1> DEFINE m == Parsed(med) \o b
           c == ConnectReply
<1>4. m \in Seq(UInt8) /\ m \o rest = Down /\ RequestParsed(<<>>, r, m)
  BY <1>1, <1>3
<1> HIDE DEF m
<1>5. answered = <<>> /\ Down = c \o relayed /\ script = <<>> /\ status = "open"
      /\ passed \o rbuf \o wire = answered
  BY DEF AtStreams
<1>6. relayed \in Seq(UInt8) /\ c \in Seq(UInt8) /\ Len(c) = 7 + 16 /\ Len(c) = 23
  BY <1>2, ConnectReplyBytes DEF ChannelTypeOK
<1>7. wire' = wire
  <2>1. wire \in Seq(UInt8) /\ wire \o <<>> = wire
    BY <1>2, ConcatEmptySeq DEF IInv, TypeOK
  <2> QED BY <1>1, <1>3, <2>1
<1>8. passed' \o rbuf' \o wire' = answered' /\ tunnel' = tunnel /\ script' = <<>> /\ status' = "open"
      /\ answered' = <<>> /\ relayed' = relayed
  BY <1>2, <1>5, <1>7
<1>9. \/ Waits(<<>>, "request_state", r, m)
      \/ Takes(<<>>, "connected_state", "connect", r, m, 7 + 16) /\ Len(m) >= 7 + 16
  <2> DEFINE q == c \o relayed
  <2>1. /\ q \in Seq(UInt8) /\ Len(q) = Len(c) + Len(relayed) /\ Len(relayed) \in Nat
        /\ \A i \in 1..Len(c) : q[i] = c[i]
    BY <1>6, InFront
  <2> HIDE DEF q
  <2>2. /\ Len(q) >= 7 + 16 /\ q[1] = c[1] /\ q[2] = c[2] /\ q[4] = c[4] /\ q[5] = c[5]
    BY <1>6, <2>1
  <2>3. q[1] = 5 /\ q[2] = 1 /\ q[4] = 3 /\ q[5] = 16 /\ 16 \in Nat
    BY <2>2, ConnectReplyBytes
  <2>4. q = m \o rest
    BY <1>4, <1>5 DEF q
  <2> QED BY ONLY <1>1, <1>4, <2>2, <2>3, <2>4, NamedParsed
<1>10. CASE Waits(<<>>, "request_state", r, m)
  <2>1. med'.state = "request_state" /\ mstatus' = "open" /\ Parsed(med') \o mbuf' = m
    BY <1>1, <1>3, <1>10 DEF Waits, MedStatus
  <2>2. Down' = m \o rest
    BY <1>1, <2>1, NextParsedBy DEF Down
  <2> QED BY <1>2, <1>4, <1>5, <1>8, <2>1, <2>2 DEF AtStreams
<1>11. CASE Takes(<<>>, "connected_state", "connect", r, m, 7 + 16) /\ Len(m) >= 7 + 16
  <2>1. med'.state = "connected_state" /\ mstatus' = "open" /\ mbuf' = Drop(m, 7 + 16)
    BY <1>1, <1>3, <1>11 DEF Takes, MedStatus
  <2> DEFINE l == Len(c)
  <2>2. l \in 0..Len(m) /\ l = 7 + 16
    BY <1>4, <1>6, <1>11, LenProperties
  <2> HIDE DEF c
  <2>3. mbuf' \o down' = Drop(m \o rest, l)
    <3>1. Drop(m, l) \o rest = Drop(m \o rest, l)
      BY ONLY <1>1, <1>4, <2>2, DropFront
    <3> QED BY <1>1, <2>1, <2>2, <3>1
  <2>4. Drop(c \o relayed, Len(c) + 0) = Drop(relayed, 0)
    <3>1. 0 \in 0..Len(relayed)
      BY <1>6, LenProperties
    <3> QED BY ONLY <1>6, <3>1, DropBehind
  <2>5. Len(c) + 0 = l /\ Drop(relayed, 0) = relayed
    BY <1>6, DropNone
  <2>6. mbuf' \o down' = relayed
    BY <1>4, <1>5, <2>3, <2>4, <2>5, Zenon
  <2> QED BY <1>2, <1>8, <2>1, <2>6 DEF AtStreams
<1> QED BY <1>9, <1>10, <1>11

\* In the streams a read moves bytes and no more.
LEMMA MedConnectedStep ==
    ASSUME ChannelInv, AtStreams, med.state = "connected_state", NEW n \in 0..Len(down), MediatorReads(n)
    PROVE  mstatus' = "open" /\ AtStreams'
<1>1. PICK b, rest, g :
        /\ b \in Seq(UInt8) /\ rest \in Seq(UInt8)
        /\ b \o rest = mbuf \o down /\ down' = rest
        /\ med' = g.t /\ mbuf' = g.buf /\ mstatus' = MedStatus(g) /\ wire' = wire \o g.out
        /\ MedOutcome(g, med, b)
  BY MediatorReadFacts
<1>2. /\ IInv
      /\ UNCHANGED <<tunnel, rbuf, status, script, relayed, answered, passed>>
  BY DEF ChannelInv, MediatorReads, server, streams
<1>3. g.out = <<>> /\ g.t = med /\ g.buf = b /\ g.res = "open"
  BY <1>1 DEF MedOutcome
<1>4. wire' = wire
  <2>1. wire \in Seq(UInt8) /\ wire \o <<>> = wire
    BY <1>2, ConcatEmptySeq DEF IInv, TypeOK
  <2> QED BY <1>1, <1>3, <2>1
<1>5. mbuf' \o down' = mbuf \o down /\ med' = med
  BY <1>1, <1>3
<1> QED BY <1>1, <1>2, <1>3, <1>4, <1>5 DEF AtStreams, MedStatus

LEMMA MediatorReadsKeeps ==
    ASSUME ChannelInv, NEW n \in 1..Len(down), MediatorReads(n)
    PROVE  ChannelInv'
<1>1. /\ IInv /\ ChannelTypeOK /\ InStep /\ client' = client /\ down \in Seq(UInt8) /\ mbuf \in Seq(UInt8)
  BY DEF ChannelInv, MediatorReads, streams, ChannelTypeOK
<1>2. n \in 0..Len(down) /\ down # <<>>
  BY <1>1, LenProperties, EmptySeq
<1>3. IInv' /\ ChannelTypeOK'
  BY <1>2, MediatorReadTypes
<1>4. mbuf \o down # <<>>
  BY <1>1, <1>2, NothingAtAll
<1>5. ASSUME client # "early"
      PROVE  mstatus' = "open" /\ (AtRequest' \/ AtStreams')
  <2>1. AtRequest \/ AtStreams
    BY <1>1, <1>4, <1>5 DEF InStep, AtGreeting
  <2>2. CASE AtRequest
    <3>1. med.state = "open_state"
      BY <1>4, <2>2 DEF AtRequest
    <3> QED BY <1>2, <2>2, <3>1, MedOpenStep
  <2>3. CASE AtStreams
    <3>1. med.state = "request_state" \/ med.state = "connected_state"
      BY <2>3 DEF AtStreams
    <3> QED BY <1>2, <2>3, <3>1, MedRequestStep, MedConnectedStep
  <2> QED BY <2>1, <2>2, <2>3
<1> QED BY <1>1, <1>3, <1>5 DEF ChannelInv, InStep

LEMMA AnswersKeeps ==
    ASSUME ChannelInv, NEW n \in 1..(Len(Answers) - Len(answered)), MediatorAnswers(n)
    PROVE  ChannelInv'
<1> DEFINE bytes == SubSeq(Answers, Len(answered) + 1, Len(answered) + n)
           got == passed \o rbuf
<1>1. /\ IInv /\ ChannelTypeOK /\ InStep /\ med.state = "connected_state"
      /\ wire' = wire \o bytes /\ answered' = answered \o bytes
      /\ UNCHANGED <<auth, patient, tunnel, rbuf, replies, status, script, sent, med, mbuf, mstatus,
                     down, client, relayed, passed>>
  BY DEF ChannelInv, MediatorAnswers, setup, server, mediator
<1>2. /\ answered \in Seq(UInt8) /\ wire \in Seq(UInt8) /\ rbuf \in Seq(UInt8) /\ passed \in Seq(UInt8)
      /\ got \in Seq(UInt8)
  <2>1. answered \in Seq(UInt8) /\ wire \in Seq(UInt8) /\ rbuf \in Seq(UInt8) /\ passed \in Seq(UInt8)
    BY <1>1, ChannelSequences DEF ChannelTypeOK
  <2> QED BY <2>1, InFront
<1>3. bytes \in Seq(UInt8)
  BY <1>2, NextBytes, StreamsAssumption
<1> HIDE DEF bytes
<1>4. wire' \in Seq(UInt8) /\ answered' \in Seq(UInt8)
  BY <1>1, <1>2, <1>3, InFront
<1>5. IInv'
  BY <1>1, <1>2, <1>4, KeptInv
<1>6. ChannelTypeOK'
  BY <1>1, <1>4 DEF ChannelTypeOK, Labels
<1>7. ASSUME client # "early"
      PROVE  mstatus = "open" /\ AtStreams'
  <2>1. AtStreams /\ mstatus = "open"
    BY <1>1, <1>7 DEF InStep, AtGreeting, AtRequest
  <2>2. got \o wire = answered
    BY <2>1 DEF AtStreams
  <2>3. passed' \o rbuf' = got
    BY <1>1
  <2> HIDE DEF got
  <2>4. got \o (wire \o bytes) = (got \o wire) \o bytes
    <3>1. got \in Seq(UInt8) /\ wire \in Seq(UInt8) /\ bytes \in Seq(UInt8)
      BY <1>2, <1>3
    <3> QED BY ONLY <3>1, Regroup, Zenon
  <2>5. passed' \o rbuf' \o wire' = answered'
    BY <1>1, <2>2, <2>3, <2>4, Zenon
  <2> QED BY <1>1, <2>1, <2>5 DEF AtStreams
<1> QED BY <1>1, <1>5, <1>6, <1>7 DEF ChannelInv, InStep

LEMMA ChannelStutterKeeps ==
    ASSUME ChannelInv, UNCHANGED chanVars
    PROVE  ChannelInv'
<1>1. UNCHANGED <<auth, patient, tunnel, rbuf, replies, status, script, sent, wire, med, mbuf, mstatus,
                  down, client, relayed, answered, passed>>
  BY DEF chanVars, vars, setup, mediator, streams
<1>2. IInv'
  BY <1>1 DEF ChannelInv, IInv, TypeOK, ResumesAtLabel, FieldsChecked, Labels
<1>3. ChannelTypeOK'
  BY <1>1 DEF ChannelInv, ChannelTypeOK, Labels
<1>4. Up' = Up /\ Down' = Down
  BY <1>1 DEF Up, Down, Parsed
<1>5. (AtGreeting <=> AtGreeting') /\ (AtRequest <=> AtRequest') /\ (AtStreams <=> AtStreams')
  <2>1. AtGreeting <=> AtGreeting'
    BY <1>1, <1>4 DEF AtGreeting, Quiet
  <2>2. AtRequest <=> AtRequest'
    BY <1>1, <1>4 DEF AtRequest, Quiet
  <2>3. AtStreams <=> AtStreams'
    BY <1>1, <1>4 DEF AtStreams
  <2> QED BY <2>1, <2>2, <2>3
<1>6. InStep'
  BY <1>1, <1>5 DEF ChannelInv, InStep
<1> QED BY <1>2, <1>3, <1>6 DEF ChannelInv

LEMMA ChannelNextKeeps ==
    ASSUME ChannelInv, [ChannelNext]_chanVars
    PROVE  ChannelInv'
<1>1. wire \in Seq(UInt8) /\ Len(wire) \in Nat
  BY LenProperties DEF ChannelInv, IInv, TypeOK
<1>2. CASE MediatorGreets
  BY <1>2, GreetsKeeps
<1>3. CASE ServerReadsSome
  <2>1. PICK n \in 1..Len(wire) : ServerReads(n)
    BY <1>3 DEF ServerReadsSome
  <2>2. n \in 0..Len(wire)
    BY <1>1
  <2> QED BY <2>1, <2>2, ServerReadsKeeps
<1>4. CASE ServerReads(0)
  <2>1. 0 \in 0..Len(wire)
    BY <1>1
  <2> QED BY <1>4, <2>1, ServerReadsKeeps
<1>5. CASE MediatorReadsSome
  BY <1>5, MediatorReadsKeeps DEF MediatorReadsSome
<1>6. CASE ClientBinds
  BY <1>6, BindsKeeps
<1>7. CASE \E n \in 1..(Len(Requests) - Len(relayed)) : ServerRelays(n)
  BY <1>7, RelaysKeeps
<1>8. CASE \E n \in 1..Len(wire) : ServerPasses(n)
  <2>1. PICK n \in 1..Len(wire) : ServerPasses(n)
    BY <1>8
  <2>2. n \in 0..Len(wire)
    BY <1>1
  <2> QED BY <2>1, <2>2, PassesKeeps
<1>9. CASE \E n \in 1..(Len(Answers) - Len(answered)) : MediatorAnswers(n)
  BY <1>9, AnswersKeeps
<1>10. CASE UNCHANGED chanVars
  BY <1>10, ChannelStutterKeeps
<1> QED BY <1>2, <1>3, <1>4, <1>5, <1>6, <1>7, <1>8, <1>9, <1>10 DEF ChannelNext

LEMMA ChannelInductive == ChannelSpec => []ChannelInv
<1>1. ChannelInit => ChannelInv
  BY ChannelInitInv
<1>2. ChannelInv /\ [ChannelNext]_chanVars => ChannelInv'
  BY ChannelNextKeeps
<1> QED BY <1>1, <1>2, PTL DEF ChannelSpec

----------------------------------------------------------------------------
\* What the server relays of the requests, behind its reply, is what the mediator takes for
\* requests: for any requests and answers and every way the bytes are split into reads.
THEOREM RequestsInPlace == ChannelSpec => []RequestsAligned
<1>1. ChannelInv => RequestsAligned
  BY DEF ChannelInv, InStep, RequestsAligned, AtGreeting, AtRequest, AtStreams
<1> QED BY <1>1, ChannelInductive, PTL

\* What the mediator sends of the service's answers is what the server passes to the client.
THEOREM AnswersInPlace == ChannelSpec => []AnswersAligned
<1>1. ChannelInv => AnswersAligned
  BY DEF ChannelInv, InStep, AnswersAligned, AtGreeting, AtRequest, AtStreams
<1> QED BY <1>1, ChannelInductive, PTL

\* The mediator is never connected to a server that is still in its handshake.
THEOREM MediatorNeverAhead == ChannelSpec => []MediatorFollows
<1>1. ChannelInv => MediatorFollows
  BY DEF ChannelInv, InStep, ChannelTypeOK, MediatorFollows, AtGreeting, AtRequest, AtStreams
<1> QED BY <1>1, ChannelInductive, PTL

\* The server's handlers are called at their labels here too: the mediator's bytes and a
\* client bound early never lead to an assert(0).
THEOREM ChannelNeverAborts == ChannelSpec => []ResumesAtLabel
<1>1. ChannelInv => ResumesAtLabel
  BY DEF ChannelInv, IInv
<1> QED BY <1>1, ChannelInductive, PTL
=============================================================================
