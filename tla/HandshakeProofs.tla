-------------------------- MODULE HandshakeProofs --------------------------
(***************************************************************************)
(* Proofs about Handshake for every set of scripts and every bound on the  *)
(* fields: no call of a handler finds read_count between two labels, and   *)
(* the handlers implement SocksMessages.                                   *)
(***************************************************************************)
EXTENDS Handshake, SequenceTheorems, TLAPS

ReplyKinds == {"password", "no_auth", "success", "connect"}
Records == [t: Tunnel, buf: Seq(UInt8), out: Seq(ReplyKinds), ok: BOOLEAN,
            res: {"open", "refused", "aborted"}]

\* A record a handler is called with or returns.
Sound(h) == /\ h \in Records /\ h.res # "aborted" /\ FieldsChecked(h.t)
            /\ h.t.read_count \in Labels(h.t)

LEMMA FieldTypes ==
    ASSUME NEW h \in Records
    PROVE  /\ h.t \in Tunnel /\ h.buf \in Seq(UInt8) /\ h.out \in Seq(ReplyKinds)
           /\ h.t.state \in HandshakeStates \cup {"connected_state"}
           /\ h.t.read_count \in Nat /\ h.t.nmethods \in 0..255 /\ h.t.ulen \in 0..255
           /\ h.t.plen \in 0..255 /\ h.t.domainlen \in 0..255 /\ h.t.atyp \in 0..255
           /\ h.t.nmethods \in Nat /\ h.t.ulen \in Nat /\ h.t.plen \in Nat /\ h.t.domainlen \in Nat
           /\ Len(h.buf) \in Nat
<1>1. h.t \in Tunnel /\ h.buf \in Seq(UInt8) /\ h.out \in Seq(ReplyKinds)
  BY DEF Records
<1>2. Len(h.buf) \in Nat
  BY <1>1, LenProperties
<1>3. /\ h.t.state \in HandshakeStates \cup {"connected_state"}
      /\ h.t.read_count \in Nat /\ h.t.nmethods \in 0..255 /\ h.t.ulen \in 0..255
      /\ h.t.plen \in 0..255 /\ h.t.domainlen \in 0..255 /\ h.t.atyp \in 0..255
  BY <1>1 DEF Tunnel, UInt8
<1>4. \A n \in 0..255 : n \in Nat
  OBVIOUS
<1> QED BY <1>1, <1>2, <1>3, <1>4, Zenon

LEMMA DropType ==
    ASSUME NEW q \in Seq(UInt8), NEW n \in 0..Len(q)
    PROVE  /\ Drop(q, n) \in Seq(UInt8) /\ SubSeq(q, 1, n) \in Seq(UInt8)
           /\ \A i \in 1..Len(q) : q[i] \in 0..255
<1>1. \A i \in 1..Len(q) : q[i] \in UInt8
  BY ElementOfSeq
<1>2. Drop(q, n) \in Seq(UInt8)
  BY <1>1, SubSeqProperties DEF Drop
<1>3. SubSeq(q, 1, n) \in Seq(UInt8)
  BY <1>1, SubSeqProperties
<1> QED BY <1>1, <1>2, <1>3 DEF UInt8

(* Sequences of bytes.                                                     *)

LEMMA Regroup == \A a, b, c \in Seq(UInt8) : (a \o b) \o c = a \o (b \o c)
  BY ConcatAssociative, SMTT(30)

LEMMA CutParts ==
    ASSUME NEW q \in Seq(UInt8), NEW n \in 0..Len(q)
    PROVE  /\ Drop(q, n) \in Seq(UInt8) /\ Len(Drop(q, n)) = Len(q) - n
           /\ \A i \in 1..(Len(q) - n) : Drop(q, n)[i] = q[n + i]
           /\ SubSeq(q, 1, n) \in Seq(UInt8) /\ Len(SubSeq(q, 1, n)) = n
           /\ \A i \in 1..n : SubSeq(q, 1, n)[i] = q[i]
           /\ SubSeq(q, 1, n) \o Drop(q, n) = q
<1>1. Len(q) \in Nat /\ n \in Nat /\ n <= Len(q) /\ \A i \in 1..Len(q) : q[i] \in UInt8
  BY LenProperties, ElementOfSeq
<1> DEFINE len == Len(q)
<1>2. len \in Nat /\ n \in Nat /\ n <= len /\ \A i \in 1..len : q[i] \in UInt8
  BY <1>1
<1> HIDE DEF len
<1>3. /\ SubSeq(q, n + 1, len) \in Seq(UInt8)
      /\ Len(SubSeq(q, n + 1, len)) = IF n + 1 <= len THEN len - (n + 1) + 1 ELSE 0
      /\ \A i \in 1..(len - (n + 1) + 1) : SubSeq(q, n + 1, len)[i] = q[(n + 1) + i - 1]
  <2>1. n + 1 \in Int /\ len \in Int /\ \A i \in (n + 1)..len : q[i] \in UInt8
    BY <1>2
  <2> QED BY <2>1, SubSeqProperties
<1>4. /\ SubSeq(q, 1, n) \in Seq(UInt8)
      /\ Len(SubSeq(q, 1, n)) = IF 1 <= n THEN n - 1 + 1 ELSE 0
      /\ \A i \in 1..(n - 1 + 1) : SubSeq(q, 1, n)[i] = q[1 + i - 1]
  <2>1. 1 \in Int /\ n \in Int /\ \A i \in 1..n : q[i] \in UInt8
    BY <1>2
  <2> QED BY <2>1, SubSeqProperties
<1>5. /\ Len(SubSeq(q, n + 1, len)) = len - n /\ Len(SubSeq(q, 1, n)) = n
  BY <1>2, <1>3, <1>4
<1>6. \A i \in 1..(len - n) : SubSeq(q, n + 1, len)[i] = q[n + i]
  <2>1. \A i \in 1..(len - n) : i \in 1..(len - (n + 1) + 1) /\ (n + 1) + i - 1 = n + i
    BY <1>2
  <2> QED BY <1>3, <2>1
<1>7. \A i \in 1..n : SubSeq(q, 1, n)[i] = q[i]
  <2>1. \A i \in 1..n : i \in 1..(n - 1 + 1) /\ 1 + i - 1 = i
    BY <1>2
  <2> QED BY <1>4, <2>1
<1>8. SubSeq(q, 1, n) \o SubSeq(q, n + 1, len) = q
  <2>1. 1 \in 1..(Len(q) + 1) /\ n \in (1 - 1)..Len(q) /\ Len(q) \in n..Len(q)
    BY <1>1
  <2>2. SubSeq(q, 1, n) \o SubSeq(q, n + 1, Len(q)) = SubSeq(q, 1, Len(q))
    BY <2>1, ConcatAdjacentSubSeq
  <2> QED BY <2>2, SubSeqFull DEF len
<1>9. Drop(q, n) = SubSeq(q, n + 1, len)
  BY DEF Drop, len
<1> QED BY <1>3, <1>4, <1>5, <1>6, <1>7, <1>8, <1>9 DEF len

\* Bytes dropped behind a prefix are dropped with it.
LEMMA DropBehind ==
    ASSUME NEW p \in Seq(UInt8), NEW q \in Seq(UInt8), NEW n \in 0..Len(q)
    PROVE  /\ Len(p) + n \in 0..Len(p \o q)
           /\ Drop(p \o q, Len(p) + n) = Drop(q, n)
<1>1. /\ p \o q \in Seq(UInt8) /\ Len(p \o q) = Len(p) + Len(q) /\ Len(p) \in Nat /\ Len(q) \in Nat
      /\ \A i \in 1..(Len(p) + Len(q)) : (p \o q)[i] = IF i <= Len(p) THEN p[i] ELSE q[i - Len(p)]
  BY ConcatProperties, LenProperties
<1> DEFINE a == Len(p)
           l == Len(p) + n
           s == p \o q
           b == Len(q)
<1>2. a \in Nat /\ b \in Nat /\ n \in Nat /\ n <= b /\ l = a + n /\ Len(s) = a + b /\ s \in Seq(UInt8)
      /\ \A i \in 1..(a + b) : s[i] = IF i <= a THEN p[i] ELSE q[i - a]
  BY <1>1
<1> HIDE DEF a, l, s, b
<1>3. l \in 0..Len(s)
  BY <1>2
<1>4. /\ Drop(s, l) \in Seq(UInt8) /\ Len(Drop(s, l)) = Len(s) - l
      /\ \A i \in 1..(Len(s) - l) : Drop(s, l)[i] = s[l + i]
  BY <1>2, <1>3, CutParts
<1>5. /\ Drop(q, n) \in Seq(UInt8) /\ Len(Drop(q, n)) = b - n
      /\ \A i \in 1..(b - n) : Drop(q, n)[i] = q[n + i]
  BY CutParts DEF b
<1>6. Len(s) - l = b - n
  BY <1>2
<1>7. \A i \in 1..(b - n) : s[l + i] = q[n + i]
  <2>1. \A i \in 1..(b - n) : l + i \in 1..(a + b) /\ ~(l + i <= a) /\ (l + i) - a = n + i
    BY <1>2
  <2> QED BY <1>2, <2>1
<1>8. Drop(s, l) = Drop(q, n)
  BY <1>4, <1>5, <1>6, <1>7, SeqEqual
<1> QED BY <1>3, <1>8 DEF s, l

\* The next n bytes move from the buffer to what is parsed.
LEMMA MovedOver ==
    ASSUME NEW p \in Seq(UInt8), NEW q \in Seq(UInt8), NEW n \in 0..Len(q)
    PROVE  (p \o SubSeq(q, 1, n)) \o Drop(q, n) = p \o q
<1> DEFINE a == SubSeq(q, 1, n)
           b == Drop(q, n)
<1>1. a \in Seq(UInt8) /\ b \in Seq(UInt8)
  BY CutParts
<1>2. a \o b = q
  BY CutParts
<1> HIDE DEF a, b
<1>3. (p \o a) \o b = p \o (a \o b)
  BY <1>1, ConcatAssociative
<1> QED BY <1>2, <1>3 DEF a, b

LEMMA OneByte ==
    ASSUME NEW q \in Seq(UInt8), Len(q) >= 1
    PROVE  q[1] \in UInt8 /\ 1 \in 0..Len(q) /\ SubSeq(q, 1, 1) = <<q[1]>> /\ <<q[1]>> \in Seq(UInt8)
<1>1. Len(q) \in Nat
  BY LenProperties
<1>2. q[1] \in UInt8 /\ 1 \in 0..Len(q)
  BY <1>1, ElementOfSeq
<1>3. SubSeq(q, 1, 1) \in Seq(UInt8) /\ Len(SubSeq(q, 1, 1)) = 1 /\ SubSeq(q, 1, 1)[1] = q[1]
  BY <1>2, CutParts
<1>4. <<q[1]>> \in Seq(UInt8) /\ Len(<<q[1]>>) = 1 /\ <<q[1]>>[1] = q[1]
  BY <1>2
<1>5. SubSeq(q, 1, 1) = <<q[1]>>
  <2>1. \A i \in 1..1 : SubSeq(q, 1, 1)[i] = <<q[1]>>[i]
    BY <1>3, <1>4
  <2> QED BY <1>3, <1>4, <2>1, SeqEqual
<1> QED BY <1>2, <1>4, <1>5

LEMMA TwoBytes ==
    ASSUME NEW q \in Seq(UInt8), Len(q) >= 2
    PROVE  /\ q[1] \in UInt8 /\ q[2] \in UInt8 /\ 2 \in 0..Len(q)
           /\ SubSeq(q, 1, 2) = <<q[1], q[2]>> /\ <<q[1], q[2]>> \in Seq(UInt8)
<1>1. Len(q) \in Nat
  BY LenProperties
<1>2. q[1] \in UInt8 /\ q[2] \in UInt8 /\ 2 \in 0..Len(q)
  BY <1>1, ElementOfSeq
<1> DEFINE s == SubSeq(q, 1, 2)
           t == <<q[1], q[2]>>
<1>3. s \in Seq(UInt8) /\ Len(s) = 2 /\ s[1] = q[1] /\ s[2] = q[2]
  BY <1>2, CutParts
<1>4. t \in Seq(UInt8) /\ Len(t) = 2 /\ t[1] = q[1] /\ t[2] = q[2]
  BY <1>2
<1> HIDE DEF s, t
<1>5. s = t
  <2>1. \A i \in 1..2 : s[i] = t[i]
    BY <1>3, <1>4
  <2> QED BY <1>3, <1>4, <2>1, SeqEqual
<1> QED BY <1>2, <1>4, <1>5 DEF s, t

LEMMA FourBytes ==
    ASSUME NEW q \in Seq(UInt8), Len(q) >= 4
    PROVE  /\ q[1] \in UInt8 /\ q[2] \in UInt8 /\ q[3] \in UInt8 /\ q[4] \in UInt8 /\ 4 \in 0..Len(q)
           /\ SubSeq(q, 1, 4) = <<q[1], q[2], q[3], q[4]>>
           /\ <<q[1], q[2], q[3], q[4]>> \in Seq(UInt8)
<1>1. Len(q) \in Nat
  BY LenProperties
<1>2. q[1] \in UInt8 /\ q[2] \in UInt8 /\ q[3] \in UInt8 /\ q[4] \in UInt8 /\ 4 \in 0..Len(q)
  BY <1>1, ElementOfSeq
<1> DEFINE s == SubSeq(q, 1, 4)
           t == <<q[1], q[2], q[3], q[4]>>
<1>3. s \in Seq(UInt8) /\ Len(s) = 4 /\ s[1] = q[1] /\ s[2] = q[2] /\ s[3] = q[3] /\ s[4] = q[4]
  BY <1>2, CutParts
<1>4. t \in Seq(UInt8) /\ Len(t) = 4 /\ t[1] = q[1] /\ t[2] = q[2] /\ t[3] = q[3] /\ t[4] = q[4]
  BY <1>2
<1> HIDE DEF s, t
<1>5. s = t
  <2>1. \A i \in 1..4 : s[i] = t[i]
    BY <1>3, <1>4
  <2> QED BY <1>3, <1>4, <2>1, SeqEqual
<1> QED BY <1>2, <1>4, <1>5 DEF s, t

LEMMA InFront ==
    ASSUME NEW p \in Seq(UInt8), NEW q \in Seq(UInt8)
    PROVE  /\ p \o q \in Seq(UInt8) /\ Len(p \o q) = Len(p) + Len(q)
           /\ Len(p) \in Nat /\ Len(q) \in Nat
           /\ \A i \in 1..Len(p) : (p \o q)[i] = p[i]
<1>1. Len(p) \in Nat /\ Len(q) \in Nat
  BY LenProperties
<1>2. /\ p \o q \in Seq(UInt8) /\ Len(p \o q) = Len(p) + Len(q)
      /\ \A i \in 1..(Len(p) + Len(q)) : (p \o q)[i] = IF i <= Len(p) THEN p[i] ELSE q[i - Len(p)]
  BY ConcatProperties
<1>3. \A i \in 1..Len(p) : i \in 1..(Len(p) + Len(q)) /\ i <= Len(p)
  BY <1>1
<1> QED BY <1>1, <1>2, <1>3

LEMMA ByteAt ==
    ASSUME NEW q \in Seq(UInt8), NEW i \in 1..Len(q)
    PROVE  q[i] \in Nat
<1>1. q[i] \in UInt8
  BY ElementOfSeq
<1>2. \A x \in UInt8 : x \in Nat
  BY DEF UInt8
<1> QED BY ONLY <1>1, <1>2, Zenon

LEMMA WithinField ==
    ASSUME NEW x \in UInt8, ~(x > MaxField)
    PROVE  x <= MaxField /\ x \in Nat
  BY FieldAssumption DEF UInt8

LEMMA RefusedParts ==
    ASSUME NEW h \in Records, NEW t \in Tunnel, NEW n \in 0..Len(h.buf)
    PROVE  /\ Refused(h, t, n) \in Records /\ Refused(h, t, n).res = "refused"
           /\ Refused(h, t, n).t = t /\ Refused(h, t, n).buf = Drop(h.buf, n)
           /\ Refused(h, t, n).out = h.out
<1> DEFINE b == Drop(h.buf, n)
<1>1. b \in Seq(UInt8)
  BY DropType, FieldTypes
<1>2. Refused(h, t, n) = [h EXCEPT !.t = t, !.buf = b, !.res = "refused"]
  BY DEF Refused
<1> HIDE DEF b
<1> QED BY <1>1, <1>2 DEF Records, b

LEMMA RefusedSound ==
    ASSUME NEW h \in Records, NEW t \in Tunnel, NEW n \in 0..Len(h.buf),
           FieldsChecked(t), t.read_count \in Labels(t)
    PROVE  Sound(Refused(h, t, n))
  BY RefusedParts DEF Sound

LEMMA AnsweredSound ==
    ASSUME NEW h \in Records, h.res = "open", NEW n \in 0..Len(h.buf),
           NEW state \in {"auth_state", "request_state", "connected_state"}, NEW reply \in ReplyKinds
    PROVE  Sound(Answered(h, n, state, reply))
<1>1. Drop(h.buf, n) \in Seq(UInt8) /\ Append(h.out, reply) \in Seq(ReplyKinds)
  BY DropType, FieldTypes, AppendProperties
<1>2. [h.t EXCEPT !.state = state, !.read_count = 0] \in Tunnel
  <2>1. h.t \in Tunnel
    BY FieldTypes
  <2> QED BY <2>1 DEF Tunnel, HandshakeStates
<1>3. Answered(h, n, state, reply) \in Records
  BY <1>1, <1>2 DEF Answered, Records
<1>4. Answered(h, n, state, reply).t = [h.t EXCEPT !.state = state, !.read_count = 0]
  BY DEF Answered, Records
<1>5. LET t == [h.t EXCEPT !.state = state, !.read_count = 0]
      IN  0 \in Labels(t) /\ FieldsChecked(t)
  BY FieldTypes DEF Labels, FieldsChecked, Tunnel
<1>6. Answered(h, n, state, reply).res = "open"
  BY DEF Answered, Records
<1> QED BY <1>2, <1>3, <1>4, <1>5, <1>6 DEF Sound, Tunnel

----------------------------------------------------------------------------
(* tunnel_open_handle *)

LEMMA OpenMethodsSound ==
    ASSUME NEW h \in Records, h.res = "open", FieldsChecked(h.t), h.t.state = "open_state", h.t.read_count = 2
    PROVE  Sound(OpenMethods(h))
<1>1. CASE Len(h.buf) < h.t.nmethods
  BY <1>1 DEF OpenMethods, Sound, Labels
<1>2. CASE ~(Len(h.buf) < h.t.nmethods)
  <2>1. h.t.nmethods \in 0..Len(h.buf)
    BY <1>2, FieldTypes
  <2>2. Sound(Answered(h, h.t.nmethods, "auth_state", "password"))
        /\ Sound(Answered(h, h.t.nmethods, "request_state", "no_auth"))
    BY <2>1, AnsweredSound DEF ReplyKinds
  <2> QED BY <1>2, <2>2 DEF OpenMethods
<1> QED BY <1>1, <1>2

\* The record OpenHeader goes on with.
TookOpenHeader(h) == [h EXCEPT !.t = [@ EXCEPT !.nmethods = h.buf[2], !.read_count = 2],
                               !.buf = Drop(@, 2)]

LEMMA TookOpenHeaderFields ==
    ASSUME NEW h \in Records, h.res = "open", h.t.state = "open_state", ~(Len(h.buf) < 2)
    PROVE  LET g == TookOpenHeader(h)
           IN  /\ g \in Records /\ g.res = "open" /\ FieldsChecked(g.t) /\ g.t.state = "open_state"
               /\ g.t.read_count = 2 /\ g.out = h.out
               /\ g.t.nmethods = h.buf[2] /\ g.buf = Drop(h.buf, 2)
<1> DEFINE t == [h.t EXCEPT !.nmethods = h.buf[2], !.read_count = 2]
           b == Drop(h.buf, 2)
           g == [h EXCEPT !.t = t, !.buf = b]
<1>1. h.buf[2] \in UInt8 /\ b \in Seq(UInt8)
  <2>1. h.buf \in Seq(UInt8) /\ Len(h.buf) >= 2
    BY FieldTypes
  <2> QED BY <2>1, TwoBytes, CutParts
<1>2. t \in Tunnel /\ t.state = "open_state" /\ t.read_count = 2 /\ t.nmethods = h.buf[2]
  <2>1. h.t \in Tunnel
    BY FieldTypes
  <2> QED BY <1>1, <2>1 DEF Tunnel, HandshakeStates
<1>3. g \in Records /\ g.res = "open" /\ g.t = t /\ g.buf = b /\ g.out = h.out
  <2> HIDE DEF t, b
  <2> QED BY <1>1, <1>2 DEF Records
<1>4. TookOpenHeader(h) = g
  BY DEF TookOpenHeader
<1> HIDE DEF g, t
<1> QED BY <1>2, <1>3, <1>4 DEF FieldsChecked

LEMMA OpenHeaderSound ==
    ASSUME NEW h \in Records, h.res = "open", FieldsChecked(h.t), h.t.state = "open_state", h.t.read_count = 0
    PROVE  Sound(OpenHeader(h))
<1>1. CASE Len(h.buf) < 2
  BY <1>1 DEF OpenHeader, Sound, Labels
<1>2. CASE ~(Len(h.buf) < 2) /\ h.buf[1] # 5
  <2>1. 1 \in 0..Len(h.buf) /\ h.t \in Tunnel
    BY <1>2, FieldTypes
  <2>2. Sound(Refused(h, h.t, 1))
    BY <2>1, RefusedSound DEF Labels
  <2> QED BY <1>2, <2>2 DEF OpenHeader
<1>3. CASE ~(Len(h.buf) < 2) /\ h.buf[1] = 5
  <2>1. Sound(OpenMethods(TookOpenHeader(h)))
    BY <1>3, TookOpenHeaderFields, OpenMethodsSound
  <2> QED BY <1>3, <2>1 DEF OpenHeader, TookOpenHeader
<1> QED BY <1>1, <1>2, <1>3

LEMMA OpenHandleSound ==
    ASSUME NEW h \in Records, h.res = "open", FieldsChecked(h.t), h.t.state = "open_state",
           h.t.read_count \in Labels(h.t)
    PROVE  Sound(OpenHandle(h))
<1>1. h.t.read_count = 0 \/ h.t.read_count = 2
  BY DEF Labels
<1> QED BY <1>1, OpenHeaderSound, OpenMethodsSound DEF OpenHandle

----------------------------------------------------------------------------
(* tunnel_auth_handle *)

LEMMA AuthPasswdSound ==
    ASSUME NEW h \in Records, h.res = "open", FieldsChecked(h.t), h.t.state = "auth_state",
           h.t.read_count = 2 + h.t.ulen + 1
    PROVE  Sound(AuthPasswd(h))
<1>1. CASE Len(h.buf) < h.t.plen
  BY <1>1 DEF AuthPasswd, Sound, Labels
<1>2. CASE ~(Len(h.buf) < h.t.plen)
  <2>1. h.t.plen \in 0..Len(h.buf)
    BY <1>2, FieldTypes
  <2>2. Sound(Answered(h, h.t.plen, "request_state", "success"))
    BY <2>1, AnsweredSound DEF ReplyKinds
  <2>3. Sound(Refused(h, h.t, h.t.plen))
    BY <2>1, RefusedSound, FieldTypes DEF Labels
  <2> QED BY <1>2, <2>2, <2>3 DEF AuthPasswd
<1> QED BY <1>1, <1>2

\* The record AuthPlen goes on with.
TookPlen(h) == [h EXCEPT !.t = [@ EXCEPT !.plen = h.buf[1], !.read_count = h.t.read_count + 1],
                         !.buf = Drop(@, 1)]

LEMMA TookPlenFields ==
    ASSUME NEW h \in Records, h.res = "open", FieldsChecked(h.t), h.t.state = "auth_state",
           h.t.read_count = 2 + h.t.ulen, Len(h.t.uname) = h.t.ulen,
           ~(Len(h.buf) < 1), ~(h.buf[1] > MaxField)
    PROVE  LET g == TookPlen(h)
           IN  /\ g \in Records /\ g.res = "open" /\ FieldsChecked(g.t) /\ g.t.state = "auth_state"
               /\ g.t.read_count = 2 + g.t.ulen + 1 /\ g.out = h.out /\ g.ok = h.ok
               /\ g.t.aver = h.t.aver /\ g.t.ulen = h.t.ulen /\ g.t.uname = h.t.uname
               /\ g.t.plen = h.buf[1] /\ g.buf = Drop(h.buf, 1)
<1> DEFINE n == h.t.read_count + 1
           t == [h.t EXCEPT !.plen = h.buf[1], !.read_count = n]
           b == Drop(h.buf, 1)
           g == [h EXCEPT !.t = t, !.buf = b]
<1>1. h.buf[1] \in UInt8 /\ b \in Seq(UInt8)
  <2>1. h.buf \in Seq(UInt8) /\ Len(h.buf) >= 1
    BY FieldTypes
  <2> QED BY <2>1, OneByte, CutParts
<1>2. /\ t \in Tunnel /\ t.state = "auth_state" /\ t.read_count = 2 + t.ulen + 1 /\ FieldsChecked(t)
      /\ t.aver = h.t.aver /\ t.ulen = h.t.ulen /\ t.uname = h.t.uname /\ t.plen = h.buf[1]
  <2>1. h.t \in Tunnel /\ n \in Nat /\ n = 2 + h.t.ulen + 1
    BY FieldTypes
  <2>2. h.t.ulen <= MaxField
    BY FieldTypes DEF FieldsChecked
  <2> HIDE DEF n
  <2>3. /\ t \in Tunnel /\ t.state = "auth_state" /\ t.read_count = n /\ t.aver = h.t.aver
        /\ t.ulen = h.t.ulen /\ t.uname = h.t.uname /\ t.plen = h.buf[1]
    BY <1>1, <2>1 DEF Tunnel, HandshakeStates
  <2>4. t.plen <= MaxField
    <3>1. h.buf[1] <= MaxField
      BY <1>1, WithinField
    <3> QED BY <2>3, <3>1, Zenon
  <2> HIDE DEF t
  <2> QED BY <2>1, <2>2, <2>3, <2>4 DEF FieldsChecked
<1>3. /\ g \in Records /\ g.res = "open" /\ g.t = t /\ g.buf = b /\ g.out = h.out /\ g.ok = h.ok
  <2> HIDE DEF t, b
  <2> QED BY <1>1, <1>2 DEF Records
<1>4. TookPlen(h) = g
  BY DEF TookPlen
<1> HIDE DEF g, t
<1> QED BY <1>2, <1>3, <1>4

\* The tunnel that AuthPlen leaves of one whose password is too long.
LongPasswd(h) == [h.t EXCEPT !.plen = h.buf[1]]

LEMMA LongPasswdFields ==
    ASSUME NEW h \in Records, h.res = "open", FieldsChecked(h.t), h.t.state = "auth_state",
           h.t.read_count = 2 + h.t.ulen, ~(Len(h.buf) < 1)
    PROVE  /\ 1 \in 0..Len(h.buf) /\ LongPasswd(h) \in Tunnel /\ FieldsChecked(LongPasswd(h))
           /\ LongPasswd(h).read_count \in Labels(LongPasswd(h)) /\ LongPasswd(h).state = "auth_state"
           /\ LongPasswd(h).read_count = h.t.read_count /\ LongPasswd(h).aver = h.t.aver
           /\ LongPasswd(h).ulen = h.t.ulen /\ LongPasswd(h).uname = h.t.uname
<1> DEFINE t == LongPasswd(h)
<1>1. Len(h.buf) >= 1 /\ h.buf \in Seq(UInt8) /\ h.t \in Tunnel /\ h.t.ulen \in Nat
  BY FieldTypes
<1>2. 1 \in 0..Len(h.buf) /\ h.buf[1] \in UInt8
  BY <1>1, OneByte
<1>3. /\ t \in Tunnel /\ t.state = "auth_state" /\ t.read_count = h.t.read_count /\ t.aver = h.t.aver
      /\ t.ulen = h.t.ulen /\ t.uname = h.t.uname
  BY <1>1, <1>2 DEF LongPasswd, Tunnel
<1> HIDE DEF t
<1>4. FieldsChecked(t)
  BY <1>1, <1>3 DEF FieldsChecked
<1>5. t.read_count \in Labels(t)
  BY <1>3 DEF Labels
<1> QED BY <1>2, <1>3, <1>4, <1>5 DEF t

LEMMA AuthPlenSound ==
    ASSUME NEW h \in Records, h.res = "open", FieldsChecked(h.t), h.t.state = "auth_state",
           h.t.read_count = 2 + h.t.ulen, Len(h.t.uname) = h.t.ulen
    PROVE  Sound(AuthPlen(h))
<1>1. CASE Len(h.buf) < 1
  BY <1>1 DEF AuthPlen, Sound, Labels
<1>2. CASE ~(Len(h.buf) < 1) /\ h.buf[1] > MaxField
  <2>1. Sound(Refused(h, LongPasswd(h), 1))
    BY <1>2, LongPasswdFields, RefusedSound
  <2> QED BY <1>2, <2>1 DEF AuthPlen, LongPasswd
<1>3. CASE ~(Len(h.buf) < 1) /\ ~(h.buf[1] > MaxField)
  <2>1. Sound(AuthPasswd(TookPlen(h)))
    BY <1>3, TookPlenFields, AuthPasswdSound
  <2> QED BY <1>3, <2>1 DEF AuthPlen, TookPlen
<1> QED BY <1>1, <1>2, <1>3

\* The record AuthUname goes on with.
TookUname(h) == [h EXCEPT !.t = [@ EXCEPT !.uname = SubSeq(h.buf, 1, h.t.ulen),
                                          !.read_count = h.t.read_count + h.t.ulen],
                          !.buf = Drop(@, h.t.ulen)]

LEMMA TookUnameFields ==
    ASSUME NEW h \in Records, h.res = "open", FieldsChecked(h.t), h.t.state = "auth_state",
           h.t.read_count = 2, ~(Len(h.buf) < h.t.ulen)
    PROVE  LET g == TookUname(h)
           IN  /\ g \in Records /\ g.res = "open" /\ FieldsChecked(g.t) /\ g.t.state = "auth_state"
               /\ g.t.read_count = 2 + g.t.ulen /\ Len(g.t.uname) = g.t.ulen
               /\ g.out = h.out /\ g.ok = h.ok /\ g.t.aver = h.t.aver /\ g.t.ulen = h.t.ulen
               /\ g.t.uname = SubSeq(h.buf, 1, h.t.ulen) /\ g.buf = Drop(h.buf, h.t.ulen)
<1> DEFINE n == h.t.read_count + h.t.ulen
           name == SubSeq(h.buf, 1, h.t.ulen)
           t == [h.t EXCEPT !.uname = name, !.read_count = n]
           b == Drop(h.buf, h.t.ulen)
           g == [h EXCEPT !.t = t, !.buf = b]
<1>1. name \in Seq(UInt8) /\ b \in Seq(UInt8) /\ Len(name) = h.t.ulen
  <2>1. h.t.ulen \in 0..Len(h.buf) /\ h.buf \in Seq(UInt8)
    BY FieldTypes
  <2> QED BY <2>1, CutParts
<1>2. /\ t \in Tunnel /\ t.state = "auth_state" /\ t.read_count = 2 + t.ulen
      /\ t.uname = name /\ t.aver = h.t.aver /\ t.ulen = h.t.ulen /\ FieldsChecked(t)
  <2>1. h.t \in Tunnel /\ n \in Nat /\ n = 2 + h.t.ulen /\ h.t.ulen \in Nat
    BY FieldTypes
  <2>2. h.t.ulen <= MaxField
    BY FieldTypes DEF FieldsChecked
  <2> HIDE DEF n, name
  <2>3. /\ t \in Tunnel /\ t.state = "auth_state" /\ t.read_count = n
        /\ t.ulen = h.t.ulen /\ t.uname = name /\ t.aver = h.t.aver
    BY <1>1, <2>1 DEF Tunnel, HandshakeStates
  <2> HIDE DEF t
  <2> QED BY <1>1, <2>1, <2>2, <2>3 DEF FieldsChecked
<1>3. g \in Records /\ g.res = "open" /\ g.t = t /\ g.buf = b /\ g.out = h.out /\ g.ok = h.ok
  <2> HIDE DEF t, b
  <2> QED BY <1>1, <1>2 DEF Records
<1>4. TookUname(h) = g
  BY DEF TookUname
<1> HIDE DEF g, t
<1> QED BY <1>1, <1>2, <1>3, <1>4

LEMMA AuthUnameSound ==
    ASSUME NEW h \in Records, h.res = "open", FieldsChecked(h.t), h.t.state = "auth_state", h.t.read_count = 2
    PROVE  Sound(AuthUname(h))
<1>1. CASE Len(h.buf) < h.t.ulen
  BY <1>1 DEF AuthUname, Sound, Labels
<1>2. CASE ~(Len(h.buf) < h.t.ulen)
  <2>1. Sound(AuthPlen(TookUname(h)))
    BY <1>2, TookUnameFields, AuthPlenSound
  <2> QED BY <1>2, <2>1 DEF AuthUname, TookUname
<1> QED BY <1>1, <1>2

\* The record AuthHeader goes on with.
TookAuthHeader(h) == [h EXCEPT !.t = [@ EXCEPT !.aver = h.buf[1], !.ulen = h.buf[2], !.read_count = 2],
                               !.buf = Drop(@, 2)]

LEMMA TookAuthHeaderFields ==
    ASSUME NEW h \in Records, h.res = "open", FieldsChecked(h.t), h.t.state = "auth_state",
           h.t.read_count = 0, ~(Len(h.buf) < 2), ~(h.buf[2] > MaxField)
    PROVE  LET g == TookAuthHeader(h)
           IN  /\ g \in Records /\ g.res = "open" /\ FieldsChecked(g.t) /\ g.t.state = "auth_state"
               /\ g.t.read_count = 2 /\ g.out = h.out /\ g.ok = h.ok
               /\ g.t.aver = h.buf[1] /\ g.t.ulen = h.buf[2] /\ g.buf = Drop(h.buf, 2)
<1> DEFINE t == [h.t EXCEPT !.aver = h.buf[1], !.ulen = h.buf[2], !.read_count = 2]
           b == Drop(h.buf, 2)
           g == [h EXCEPT !.t = t, !.buf = b]
<1>1. h.buf[1] \in UInt8 /\ h.buf[2] \in UInt8 /\ b \in Seq(UInt8)
  <2>1. h.buf \in Seq(UInt8) /\ Len(h.buf) >= 2
    BY FieldTypes
  <2> QED BY <2>1, TwoBytes, CutParts
<1>2. /\ t \in Tunnel /\ t.state = "auth_state" /\ t.read_count = 2 /\ FieldsChecked(t)
      /\ t.aver = h.buf[1] /\ t.ulen = h.buf[2]
  <2>1. h.t \in Tunnel
    BY FieldTypes
  <2>2. /\ t \in Tunnel /\ t.state = "auth_state" /\ t.read_count = 2
        /\ t.aver = h.buf[1] /\ t.ulen = h.buf[2]
    BY <1>1, <2>1 DEF Tunnel, HandshakeStates
  <2>3. t.ulen <= MaxField /\ t.ulen \in Nat
    <3>1. h.buf[2] <= MaxField /\ h.buf[2] \in Nat
      BY <1>1, WithinField
    <3> QED BY <2>2, <3>1, Zenon
  <2> HIDE DEF t
  <2> QED BY <2>2, <2>3 DEF FieldsChecked
<1>3. g \in Records /\ g.res = "open" /\ g.t = t /\ g.buf = b /\ g.out = h.out /\ g.ok = h.ok
  <2> HIDE DEF t, b
  <2> QED BY <1>1, <1>2 DEF Records
<1>4. TookAuthHeader(h) = g
  BY DEF TookAuthHeader
<1> HIDE DEF g, t
<1> QED BY <1>2, <1>3, <1>4

\* The tunnel that AuthHeader leaves of one whose user name is too long.
LongUname(h) == [h.t EXCEPT !.aver = h.buf[1], !.ulen = h.buf[2]]

LEMMA LongUnameFields ==
    ASSUME NEW h \in Records, h.res = "open", h.t.state = "auth_state", h.t.read_count = 0, ~(Len(h.buf) < 2)
    PROVE  /\ 2 \in 0..Len(h.buf) /\ LongUname(h) \in Tunnel /\ FieldsChecked(LongUname(h))
           /\ LongUname(h).read_count \in Labels(LongUname(h)) /\ LongUname(h).state = "auth_state"
           /\ LongUname(h).read_count = 0
<1> DEFINE t == LongUname(h)
<1>1. Len(h.buf) >= 2 /\ h.buf \in Seq(UInt8) /\ h.t \in Tunnel
  BY FieldTypes
<1>2. 2 \in 0..Len(h.buf) /\ h.buf[1] \in UInt8 /\ h.buf[2] \in UInt8
  BY <1>1, TwoBytes
<1>3. t \in Tunnel /\ t.state = "auth_state" /\ t.read_count = 0
  BY <1>1, <1>2 DEF LongUname, Tunnel
<1> HIDE DEF t
<1>4. FieldsChecked(t) /\ t.read_count \in Labels(t)
  BY <1>3 DEF FieldsChecked, Labels
<1> QED BY <1>2, <1>3, <1>4 DEF t

LEMMA AuthHeaderSound ==
    ASSUME NEW h \in Records, h.res = "open", FieldsChecked(h.t), h.t.state = "auth_state", h.t.read_count = 0
    PROVE  Sound(AuthHeader(h))
<1>1. CASE Len(h.buf) < 2
  BY <1>1 DEF AuthHeader, Sound, Labels
<1>2. CASE ~(Len(h.buf) < 2) /\ h.buf[2] > MaxField
  <2>1. Sound(Refused(h, LongUname(h), 2))
    BY <1>2, LongUnameFields, RefusedSound
  <2> QED BY <1>2, <2>1 DEF AuthHeader, LongUname
<1>3. CASE ~(Len(h.buf) < 2) /\ ~(h.buf[2] > MaxField)
  <2>1. Sound(AuthUname(TookAuthHeader(h)))
    BY <1>3, TookAuthHeaderFields, AuthUnameSound
  <2> QED BY <1>3, <2>1 DEF AuthHeader, TookAuthHeader
<1> QED BY <1>1, <1>2, <1>3

\* With an empty user name two labels have the same read_count; the first one is taken.
LEMMA AuthHandleSound ==
    ASSUME NEW h \in Records, h.res = "open", FieldsChecked(h.t), h.t.state = "auth_state",
           h.t.read_count \in Labels(h.t)
    PROVE  Sound(AuthHandle(h))
<1>1. h.t.read_count \in {0, 2, 2 + h.t.ulen, 2 + h.t.ulen + 1} /\ h.t.ulen \in Nat
  BY FieldTypes DEF Labels
<1>2. CASE h.t.read_count = 0
  BY <1>2, AuthHeaderSound DEF AuthHandle
<1>3. CASE h.t.read_count = 2
  BY <1>3, AuthUnameSound DEF AuthHandle
<1>4. CASE h.t.read_count \notin {0, 2} /\ h.t.read_count = 2 + h.t.ulen
  <2>1. Len(h.t.uname) = h.t.ulen
    BY <1>1, <1>4 DEF FieldsChecked
  <2> QED BY <1>4, <2>1, AuthPlenSound DEF AuthHandle
<1>5. CASE h.t.read_count \notin {0, 2, 2 + h.t.ulen} /\ h.t.read_count = 2 + h.t.ulen + 1
  BY <1>5, AuthPasswdSound DEF AuthHandle
<1> QED BY <1>1, <1>2, <1>3, <1>4, <1>5

----------------------------------------------------------------------------
(* tunnel_request_handle *)

LEMMA ConnectedSound ==
    ASSUME NEW h \in Records, h.res = "open", NEW n \in 0..Len(h.buf)
    PROVE  Sound(Connected(h, n))
  BY AnsweredSound DEF Connected, ReplyKinds

LEMMA RequestFixedSound ==
    ASSUME NEW h \in Records, h.res = "open", FieldsChecked(h.t), h.t.state = "request_state", h.t.read_count = 4,
           NEW n \in {4, 16}
    PROVE  Sound(RequestFixed(h, n))
<1>1. CASE Len(h.buf) < n + 2
  BY <1>1 DEF RequestFixed, Sound, Labels
<1>2. CASE ~(Len(h.buf) < n + 2)
  <2>1. n + 2 \in 0..Len(h.buf)
    BY <1>2, FieldTypes
  <2> QED BY <1>2, <2>1, ConnectedSound DEF RequestFixed
<1> QED BY <1>1, <1>2

LEMMA RequestDomainSound ==
    ASSUME NEW h \in Records, h.res = "open", FieldsChecked(h.t), h.t.state = "request_state", h.t.read_count = 5,
           h.t.atyp = 3
    PROVE  Sound(RequestDomain(h))
<1>1. CASE Len(h.buf) < h.t.domainlen + 2
  BY <1>1 DEF RequestDomain, Sound, Labels
<1>2. CASE ~(Len(h.buf) < h.t.domainlen + 2)
  <2>1. h.t.domainlen + 2 \in 0..Len(h.buf)
    BY <1>2, FieldTypes
  <2> QED BY <1>2, <2>1, ConnectedSound DEF RequestDomain
<1> QED BY <1>1, <1>2

\* The record RequestDomainLen goes on with.
TookDomainLen(h) == [h EXCEPT !.t = [@ EXCEPT !.domainlen = h.buf[1], !.read_count = h.t.read_count + 1],
                              !.buf = Drop(@, 1)]

LEMMA TookDomainLenFields ==
    ASSUME NEW h \in Records, h.res = "open", h.t.state = "request_state",
           h.t.read_count = 4, h.t.atyp = 3, ~(Len(h.buf) < 1)
    PROVE  LET g == TookDomainLen(h)
           IN  /\ g \in Records /\ g.res = "open" /\ FieldsChecked(g.t) /\ g.t.state = "request_state"
               /\ g.t.read_count = 5 /\ g.t.atyp = 3 /\ g.out = h.out /\ g.t.rsv = h.t.rsv
               /\ g.t.domainlen = h.buf[1] /\ g.buf = Drop(h.buf, 1)
<1> DEFINE n == h.t.read_count + 1
           t == [h.t EXCEPT !.domainlen = h.buf[1], !.read_count = n]
           b == Drop(h.buf, 1)
           g == [h EXCEPT !.t = t, !.buf = b]
<1>1. h.buf[1] \in UInt8 /\ b \in Seq(UInt8)
  <2>1. h.buf \in Seq(UInt8) /\ Len(h.buf) >= 1
    BY FieldTypes
  <2> QED BY <2>1, OneByte, CutParts
<1>2. /\ t \in Tunnel /\ t.state = "request_state" /\ t.read_count = 5 /\ t.atyp = 3
      /\ t.rsv = h.t.rsv /\ t.domainlen = h.buf[1]
  <2>1. h.t \in Tunnel /\ n \in Nat /\ n = 5
    BY FieldTypes
  <2> HIDE DEF n
  <2> QED BY <1>1, <2>1 DEF Tunnel, HandshakeStates
<1>3. g \in Records /\ g.res = "open" /\ g.t = t /\ g.buf = b /\ g.out = h.out
  <2> HIDE DEF t, b
  <2> QED BY <1>1, <1>2 DEF Records
<1>4. TookDomainLen(h) = g
  BY DEF TookDomainLen
<1> HIDE DEF g, t
<1> QED BY <1>2, <1>3, <1>4 DEF FieldsChecked

LEMMA RequestDomainLenSound ==
    ASSUME NEW h \in Records, h.res = "open", FieldsChecked(h.t), h.t.state = "request_state", h.t.read_count = 4,
           h.t.atyp = 3
    PROVE  Sound(RequestDomainLen(h))
<1>1. CASE Len(h.buf) < 1
  BY <1>1 DEF RequestDomainLen, Sound, Labels
<1>2. CASE ~(Len(h.buf) < 1)
  <2>1. Sound(RequestDomain(TookDomainLen(h)))
    BY <1>2, TookDomainLenFields, RequestDomainSound
  <2> QED BY <1>2, <2>1 DEF RequestDomainLen, TookDomainLen
<1> QED BY <1>1, <1>2

LEMMA RequestAddrSound ==
    ASSUME NEW h \in Records, h.res = "open", FieldsChecked(h.t), h.t.state = "request_state", h.t.read_count = 4
    PROVE  Sound(RequestAddr(h))
<1>1. Sound(RequestFixed(h, 4)) /\ Sound(RequestFixed(h, 16))
  BY RequestFixedSound
<1>3. Sound(Refused(h, h.t, 0))
  <2>1. 0 \in 0..Len(h.buf) /\ h.t \in Tunnel
    BY FieldTypes
  <2> QED BY <2>1, RefusedSound DEF Labels
<1>2. h.t.atyp = 3 => Sound(RequestDomainLen(h))
  BY RequestDomainLenSound
<1> QED BY <1>1, <1>2, <1>3 DEF RequestAddr

\* The record RequestHeader goes on with.
TookRequestHeader(h) == [h EXCEPT !.t = [@ EXCEPT !.rsv = h.buf[3], !.atyp = h.buf[4], !.read_count = 4],
                                  !.buf = Drop(@, 4)]

LEMMA TookRequestHeaderFields ==
    ASSUME NEW h \in Records, h.res = "open", h.t.state = "request_state", ~(Len(h.buf) < 4)
    PROVE  LET g == TookRequestHeader(h)
           IN  /\ g \in Records /\ g.res = "open" /\ FieldsChecked(g.t) /\ g.t.state = "request_state"
               /\ g.t.read_count = 4 /\ g.out = h.out
               /\ g.t.rsv = h.buf[3] /\ g.t.atyp = h.buf[4] /\ g.buf = Drop(h.buf, 4)
<1> DEFINE t == [h.t EXCEPT !.rsv = h.buf[3], !.atyp = h.buf[4], !.read_count = 4]
           b == Drop(h.buf, 4)
           g == [h EXCEPT !.t = t, !.buf = b]
<1>1. h.buf[3] \in UInt8 /\ h.buf[4] \in UInt8 /\ b \in Seq(UInt8)
  <2>1. h.buf \in Seq(UInt8) /\ Len(h.buf) >= 4
    BY FieldTypes
  <2> QED BY <2>1, FourBytes, CutParts
<1>2. /\ t \in Tunnel /\ t.state = "request_state" /\ t.read_count = 4
      /\ t.rsv = h.buf[3] /\ t.atyp = h.buf[4]
  <2>1. h.t \in Tunnel
    BY FieldTypes
  <2> QED BY <1>1, <2>1 DEF Tunnel, HandshakeStates
<1>3. g \in Records /\ g.res = "open" /\ g.t = t /\ g.buf = b /\ g.out = h.out
  <2> HIDE DEF t, b
  <2> QED BY <1>1, <1>2 DEF Records
<1>4. TookRequestHeader(h) = g
  BY DEF TookRequestHeader
<1> HIDE DEF g, t
<1> QED BY <1>2, <1>3, <1>4 DEF FieldsChecked

LEMMA RequestHeaderSound ==
    ASSUME NEW h \in Records, h.res = "open", FieldsChecked(h.t), h.t.state = "request_state", h.t.read_count = 0
    PROVE  Sound(RequestHeader(h))
<1>1. CASE Len(h.buf) < 4
  BY <1>1 DEF RequestHeader, Sound, Labels
<1>2. CASE ~(Len(h.buf) < 4) /\ (h.buf[1] # 5 \/ h.buf[2] # 1)
  <2>1. 1 \in 0..Len(h.buf) /\ 2 \in 0..Len(h.buf) /\ h.t \in Tunnel
    BY <1>2, FieldTypes
  <2>2. Sound(Refused(h, h.t, 1)) /\ Sound(Refused(h, h.t, 2))
    BY <2>1, RefusedSound DEF Labels
  <2> QED BY <1>2, <2>2 DEF RequestHeader
<1>3. CASE ~(Len(h.buf) < 4) /\ ~(h.buf[1] # 5 \/ h.buf[2] # 1)
  <2>1. Sound(RequestAddr(TookRequestHeader(h)))
    BY <1>3, TookRequestHeaderFields, RequestAddrSound
  <2> QED BY <1>3, <2>1 DEF RequestHeader, TookRequestHeader
<1> QED BY <1>1, <1>2, <1>3

LEMMA RequestHandleSound ==
    ASSUME NEW h \in Records, h.res = "open", FieldsChecked(h.t), h.t.state = "request_state",
           h.t.read_count \in Labels(h.t)
    PROVE  Sound(RequestHandle(h))
<1>1. h.t.read_count \in {0, 4} \/ (h.t.read_count = 5 /\ h.t.atyp = 3)
  BY DEF Labels
<1> QED BY <1>1, RequestHeaderSound, RequestAddrSound, RequestDomainSound DEF RequestHandle

----------------------------------------------------------------------------
(* What the stages make of the bytes of a message.                         *)

(* g is what a call makes of the unanswered bytes m, with the answers o so far: it keeps    *)
(* them, or takes the first l of them for a message and answers it, or refuses and leaves   *)
(* some of them.                                                                           *)
Waits(o, state, g, m) ==
    g.res = "open" /\ g.out = o /\ g.t.state = state /\ Parsed(g.t) \o g.buf = m
Takes(o, state, reply, g, m, l) ==
    /\ g.res = "open" /\ g.out = Append(o, reply) /\ g.t.state = state /\ g.t.read_count = 0
    /\ g.buf = Drop(m, l)
Refuses(o, state, g, left) ==
    g.res = "refused" /\ g.out = o /\ g.t.state = state /\ Parsed(g.t) \o g.buf = left

GreetingParsed(o, g, m) ==
    \/ /\ Waits(o, "open_state", g, m)
       /\ Len(m) < 2 \/ (m[1] = 5 /\ Len(m) < 2 + m[2])
    \/ /\ Takes(o, IF auth THEN "auth_state" ELSE "request_state",
                IF auth THEN "password" ELSE "no_auth", g, m, 2 + m[2])
       /\ Len(m) >= 2 /\ m[1] = 5 /\ Len(m) >= 2 + m[2]
    \/ Refuses(o, "open_state", g, Drop(m, 1)) /\ Len(m) >= 2 /\ m[1] # 5

CredentialsParsed(o, ok, g, m) ==
    \/ /\ Waits(o, "auth_state", g, m)
       /\ \/ Len(m) < 2
          \/ m[2] <= MaxField /\ Len(m) < 3 + m[2]
          \/ m[2] <= MaxField /\ m[3 + m[2]] <= MaxField /\ Len(m) < 3 + m[2] + m[3 + m[2]]
    \/ /\ ok /\ Takes(o, "request_state", "success", g, m, 3 + m[2] + m[3 + m[2]])
       /\ m[2] <= MaxField /\ m[3 + m[2]] <= MaxField
       /\ Len(m) >= 2 /\ Len(m) >= 3 + m[2] /\ Len(m) >= 3 + m[2] + m[3 + m[2]]
    \/ Refuses(o, "auth_state", g, Drop(m, 2)) /\ Len(m) >= 2 /\ m[2] > MaxField
    \/ /\ Refuses(o, "auth_state", g, Messages!Without(m, 2 + m[2], 1)) /\ Len(m) >= 2
       /\ m[2] <= MaxField /\ Len(m) >= 3 + m[2] /\ m[3 + m[2]] > MaxField
    \/ /\ ~ok /\ Refuses(o, "auth_state", g, Messages!Without(m, 3 + m[2], m[3 + m[2]])) /\ Len(m) >= 2
       /\ m[2] <= MaxField /\ Len(m) >= 3 + m[2] /\ m[3 + m[2]] <= MaxField
       /\ Len(m) >= 3 + m[2] + m[3 + m[2]]

RequestParsed(o, g, m) ==
    \/ /\ Waits(o, "request_state", g, m)
       /\ \/ Len(m) < 4
          \/ /\ m[1] = 5 /\ m[2] = 1
             /\ \/ m[4] = 1 /\ Len(m) < 10
                \/ m[4] = 4 /\ Len(m) < 22
                \/ m[4] = 3 /\ (Len(m) < 5 \/ Len(m) < 7 + m[5])
    \/ \E l \in Nat :
         /\ Takes(o, "connected_state", "connect", g, m, l) /\ Len(m) >= l /\ Len(m) >= 4
         /\ m[1] = 5 /\ m[2] = 1
         /\ \/ m[4] = 1 /\ l = 10
            \/ m[4] = 4 /\ l = 22
            \/ m[4] = 3 /\ Len(m) >= 5 /\ l = 7 + m[5]
    \/ /\ Len(m) >= 4
       /\ \/ m[1] # 5 /\ Refuses(o, "request_state", g, Drop(m, 1))
          \/ m[1] = 5 /\ m[2] # 1 /\ Refuses(o, "request_state", g, Drop(m, 2))
          \/ m[1] = 5 /\ m[2] = 1 /\ m[4] \notin {1, 3, 4} /\ Refuses(o, "request_state", g, m)

LEMMA TakesMessage ==
    ASSUME NEW h \in Records, h.res = "open", NEW p \in Seq(UInt8), NEW n \in 0..Len(h.buf),
           NEW state, NEW reply
    PROVE  Takes(h.out, state, reply, Answered(h, n, state, reply), p \o h.buf, Len(p) + n)
<1>1. h.buf \in Seq(UInt8) /\ h.t \in Tunnel
  BY FieldTypes
<1>2. Drop(p \o h.buf, Len(p) + n) = Drop(h.buf, n)
  BY <1>1, DropBehind
<1> DEFINE t == [h.t EXCEPT !.state = state, !.read_count = 0]
           b == Drop(h.buf, n)
           a == Append(h.out, reply)
<1>3. t.state = state /\ t.read_count = 0
  BY <1>1 DEF Tunnel
<1> HIDE DEF t, b, a
<1>4. Answered(h, n, state, reply) = [h EXCEPT !.t = t, !.buf = b, !.out = a]
  BY DEF Answered, t, b, a
<1> DEFINE g == [h EXCEPT !.t = t, !.buf = b, !.out = a]
<1>5. g.t = t /\ g.buf = b /\ g.out = a /\ g.res = "open"
  BY DEF Records
<1> HIDE DEF g
<1>6. Answered(h, n, state, reply) = g
  BY <1>4 DEF g
<1> QED BY <1>2, <1>3, <1>5, <1>6 DEF Takes, a, b

LEMMA RefusedRefuses ==
    ASSUME NEW h \in Records, NEW t \in Tunnel, NEW n \in 0..Len(h.buf)
    PROVE  Refuses(h.out, t.state, Refused(h, t, n), Parsed(t) \o Drop(h.buf, n))
  BY RefusedParts DEF Refuses

\* At the beginning of a message nothing is parsed yet.
LEMMA RefusedAtStart ==
    ASSUME NEW h \in Records, NEW t \in Tunnel, t.read_count = 0, NEW n \in 0..Len(h.buf)
    PROVE  Refuses(h.out, t.state, Refused(h, t, n), Drop(h.buf, n))
<1>1. Drop(h.buf, n) \in Seq(UInt8)
  BY DropType, FieldTypes
<1>2. Parsed(t) = <<>>
  BY DEF Parsed
<1>3. <<>> \o Drop(h.buf, n) = Drop(h.buf, n)
  BY <1>1, ConcatEmptySeq
<1>4. Parsed(t) \o Drop(h.buf, n) = Drop(h.buf, n)
  BY <1>2, <1>3
<1>5. Refuses(h.out, t.state, Refused(h, t, n), Parsed(t) \o Drop(h.buf, n))
  BY RefusedRefuses
<1> QED BY <1>4, <1>5

\* Bytes left out behind a prefix leave the prefix.
LEMMA WithoutBehind ==
    ASSUME NEW p \in Seq(UInt8), NEW q \in Seq(UInt8), NEW n \in 0..Len(q)
    PROVE  Messages!Without(p \o q, Len(p), n) = p \o Drop(q, n)
<1> DEFINE s == p \o q
           f == SubSeq(s, 1, Len(p))
<1>1. /\ s \in Seq(UInt8) /\ Len(p) \in 0..Len(s) /\ \A i \in 1..Len(p) : s[i] = p[i]
  BY InFront
<1>2. Drop(s, Len(p) + n) = Drop(q, n)
  BY DropBehind
<1> HIDE DEF s
<1>3. f \in Seq(UInt8) /\ Len(f) = Len(p) /\ \A i \in 1..Len(p) : f[i] = s[i]
  BY <1>1, CutParts
<1> HIDE DEF f
<1>4. f = p
  BY <1>1, <1>3, SeqEqual
<1> QED BY <1>2, <1>4 DEF Messages!Without, Messages!Cut, Drop, s, f

LEMMA DropNone ==
    ASSUME NEW q \in Seq(UInt8)
    PROVE  Drop(q, 0) = q
  BY SubSeqFull DEF Drop

(* tunnel_open_handle *)

LEMMA OpenMethodsParse ==
    ASSUME NEW h \in Records, h.res = "open", h.t.state = "open_state", h.t.read_count = 2
    PROVE  GreetingParsed(h.out, OpenMethods(h), <<5, h.t.nmethods>> \o h.buf)
<1> DEFINE p == <<5, h.t.nmethods>>
           m == p \o h.buf
<1>1. h.t.nmethods \in UInt8 /\ h.t.nmethods \in Nat /\ h.buf \in Seq(UInt8) /\ Len(h.buf) \in Nat
  BY FieldTypes DEF UInt8
<1>2. p \in Seq(UInt8) /\ Len(p) = 2 /\ p[1] = 5 /\ p[2] = h.t.nmethods
  BY <1>1 DEF UInt8
<1>3. Parsed(h.t) = p
  BY DEF Parsed
<1> HIDE DEF p
<1>4. Len(m) = 2 + Len(h.buf) /\ m[1] = 5 /\ m[2] = h.t.nmethods
  <2>1. 1 \in 1..Len(p) /\ 2 \in 1..Len(p)
    BY <1>2
  <2> QED BY <1>1, <1>2, <2>1, InFront
<1>5. Len(m) \in Nat /\ m[2] \in Nat /\ Len(m) >= 2
      /\ (Len(h.buf) < h.t.nmethods <=> Len(m) < 2 + m[2])
  BY <1>1, <1>4
<1>6. Waits(h.out, "open_state", h, m)
  BY <1>3 DEF Waits
<1>7. ASSUME ~(Len(h.buf) < h.t.nmethods)
      PROVE  /\ Len(m) >= 2 + m[2]
             /\ Takes(h.out, "auth_state", "password",
                      Answered(h, h.t.nmethods, "auth_state", "password"), m, 2 + m[2])
             /\ Takes(h.out, "request_state", "no_auth",
                      Answered(h, h.t.nmethods, "request_state", "no_auth"), m, 2 + m[2])
  <2>1. h.t.nmethods \in 0..Len(h.buf) /\ Len(m) >= 2 + m[2]
    BY <1>1, <1>5, <1>7
  <2> QED BY <1>2, <1>4, <2>1, TakesMessage
<1> HIDE DEF m
<1>8. GreetingParsed(h.out, OpenMethods(h), m)
  BY <1>4, <1>5, <1>6, <1>7 DEF OpenMethods, GreetingParsed
<1> QED BY <1>8 DEF m, p

LEMMA OpenHeaderParse ==
    ASSUME NEW h \in Records, h.res = "open", h.t.state = "open_state", h.t.read_count = 0
    PROVE  GreetingParsed(h.out, OpenHeader(h), h.buf)
<1>1. h.buf \in Seq(UInt8)
  BY FieldTypes
<1>2. CASE Len(h.buf) < 2
  <2>1. Parsed(h.t) = <<>> /\ <<>> \o h.buf = h.buf
    BY <1>1, ConcatEmptySeq DEF Parsed
  <2> QED BY <1>2, <2>1 DEF OpenHeader, GreetingParsed, Waits
<1>3. CASE ~(Len(h.buf) < 2) /\ h.buf[1] # 5
  <2>1. Len(h.buf) >= 2 /\ 1 \in 0..Len(h.buf) /\ h.t \in Tunnel
    BY <1>1, <1>3, LenProperties, FieldTypes
  <2>2. Refuses(h.out, "open_state", Refused(h, h.t, 1), Drop(h.buf, 1))
    BY <2>1, RefusedAtStart
  <2> QED BY <1>3, <2>1, <2>2 DEF OpenHeader, GreetingParsed
<1>4. CASE ~(Len(h.buf) < 2) /\ h.buf[1] = 5
  <2> DEFINE g == TookOpenHeader(h)
  <2>1. /\ g \in Records /\ g.res = "open" /\ g.t.state = "open_state" /\ g.t.read_count = 2
        /\ g.out = h.out /\ g.t.nmethods = h.buf[2] /\ g.buf = Drop(h.buf, 2)
    BY <1>4, TookOpenHeaderFields
  <2>2. OpenHeader(h) = OpenMethods(g)
    BY <1>4 DEF OpenHeader, TookOpenHeader
  <2> HIDE DEF g
  <2>3. GreetingParsed(h.out, OpenMethods(g), <<5, g.t.nmethods>> \o g.buf)
    BY <2>1, OpenMethodsParse
  <2>4. <<5, h.buf[2]>> \o Drop(h.buf, 2) = h.buf
    <3>1. Len(h.buf) >= 2
      BY <1>1, <1>4, LenProperties
    <3>2. 2 \in 0..Len(h.buf) /\ SubSeq(h.buf, 1, 2) = <<h.buf[1], h.buf[2]>>
      BY <1>1, <3>1, TwoBytes
    <3>3. SubSeq(h.buf, 1, 2) \o Drop(h.buf, 2) = h.buf
      BY <1>1, <3>2, CutParts
    <3> QED BY <1>4, <3>2, <3>3
  <2> QED BY <2>1, <2>2, <2>3, <2>4
<1> QED BY <1>2, <1>3, <1>4

LEMMA OpenHandleParse ==
    ASSUME NEW h \in Records, h.res = "open", h.t.state = "open_state", h.t.read_count \in Labels(h.t)
    PROVE  GreetingParsed(h.out, OpenHandle(h), Parsed(h.t) \o h.buf)
<1>1. h.t.read_count = 0 \/ h.t.read_count = 2
  BY DEF Labels
<1>2. CASE h.t.read_count = 0
  <2>1. Parsed(h.t) = <<>> /\ <<>> \o h.buf = h.buf
    BY <1>2, FieldTypes, ConcatEmptySeq DEF Parsed
  <2> QED BY <1>2, <2>1, OpenHeaderParse DEF OpenHandle
<1>3. CASE h.t.read_count = 2
  <2>1. Parsed(h.t) = <<5, h.t.nmethods>>
    BY <1>3 DEF Parsed
  <2> QED BY <1>3, <2>1, OpenMethodsParse DEF OpenHandle
<1> QED BY <1>1, <1>2, <1>3

(* tunnel_auth_handle *)

LEMMA CredentialsPrefix ==
    ASSUME NEW a \in UInt8, NEW u \in UInt8, NEW name \in Seq(UInt8), Len(name) = u, NEW l \in UInt8
    PROVE  LET q == <<a, u>> \o name
               p == q \o <<l>>
           IN  /\ q \in Seq(UInt8) /\ Len(q) = 2 + u /\ q[2] = u
               /\ p \in Seq(UInt8) /\ Len(p) = 3 + u /\ p[2] = u /\ p[3 + u] = l
<1> DEFINE two == <<a, u>>
           one == <<l>>
           q == two \o name
           p == q \o one
<1>1. two \in Seq(UInt8) /\ Len(two) = 2 /\ two[2] = u /\ one \in Seq(UInt8) /\ Len(one) = 1 /\ one[1] = l
  OBVIOUS
<1>2. u \in Nat
  BY DEF UInt8
<1> HIDE DEF two, one
<1>3. q \in Seq(UInt8) /\ Len(q) = 2 + u /\ q[2] = u
  <2>1. q \in Seq(UInt8) /\ Len(q) = Len(two) + Len(name) /\ \A i \in 1..Len(two) : q[i] = two[i]
    BY <1>1, InFront
  <2>2. 2 \in 1..Len(two)
    BY <1>1
  <2> HIDE DEF q
  <2> QED BY <1>1, <2>1, <2>2
<1> HIDE DEF q
<1>4. /\ p \in Seq(UInt8) /\ Len(p) = Len(q) + Len(one)
      /\ \A i \in 1..(Len(q) + Len(one)) : p[i] = IF i <= Len(q) THEN q[i] ELSE one[i - Len(q)]
  BY <1>1, <1>3, ConcatProperties
<1> HIDE DEF p
<1>5. /\ 2 \in 1..(Len(q) + Len(one)) /\ 2 <= Len(q)
      /\ 3 + u \in 1..(Len(q) + Len(one)) /\ ~(3 + u <= Len(q)) /\ 3 + u - Len(q) = 1
  BY <1>1, <1>2, <1>3
<1>6. Len(p) = 3 + u /\ p[2] = u /\ p[3 + u] = l
  BY <1>1, <1>2, <1>3, <1>4, <1>5
<1> QED BY <1>3, <1>4, <1>6 DEF p, q, two, one

\* What follows the user name is the length of the password.
LEMMA PlenFollows ==
    ASSUME NEW q \in Seq(UInt8), NEW b \in Seq(UInt8), NEW u \in Nat, Len(q) = 2 + u, Len(b) >= 1
    PROVE  Len(q \o b) >= 2 /\ Len(q \o b) >= 3 + u /\ (q \o b)[3 + u] = b[1]
<1>1. Len(q) \in Nat /\ Len(b) \in Nat
  BY LenProperties
<1>2. 3 + u \in 1..(Len(q) + Len(b)) /\ ~(3 + u <= Len(q)) /\ 3 + u - Len(q) = 1
  BY <1>1
<1>3. /\ Len(q \o b) = Len(q) + Len(b)
      /\ \A i \in 1..(Len(q) + Len(b)) : (q \o b)[i] = IF i <= Len(q) THEN q[i] ELSE b[i - Len(q)]
  BY ConcatProperties
<1> QED BY <1>1, <1>2, <1>3

LEMMA PrefixOf ==
    ASSUME NEW t \in Tunnel, Len(t.uname) = t.ulen
    PROVE  LET q == <<t.aver, t.ulen>> \o t.uname
               p == q \o <<t.plen>>
           IN  /\ q \in Seq(UInt8) /\ Len(q) = 2 + t.ulen /\ q[2] = t.ulen
               /\ p \in Seq(UInt8) /\ Len(p) = 3 + t.ulen /\ p[2] = t.ulen /\ p[3 + t.ulen] = t.plen
<1> DEFINE a == t.aver
           u == t.ulen
           name == t.uname
           l == t.plen
<1>1. a \in UInt8 /\ u \in UInt8 /\ name \in Seq(UInt8) /\ Len(name) = u /\ l \in UInt8
  BY DEF Tunnel
<1> HIDE DEF a, u, name, l
<1>2. LET q == <<a, u>> \o name
          p == q \o <<l>>
      IN  /\ q \in Seq(UInt8) /\ Len(q) = 2 + u /\ q[2] = u
          /\ p \in Seq(UInt8) /\ Len(p) = 3 + u /\ p[2] = u /\ p[3 + u] = l
  BY <1>1, CredentialsPrefix
<1> QED BY <1>2 DEF a, u, name, l

LEMMA AuthPasswdParse ==
    ASSUME NEW h \in Records, h.res = "open", FieldsChecked(h.t), h.t.state = "auth_state",
           h.t.read_count = 2 + h.t.ulen + 1
    PROVE  CredentialsParsed(h.out, h.ok, AuthPasswd(h), Parsed(h.t) \o h.buf)
<1> DEFINE q == <<h.t.aver, h.t.ulen>> \o h.t.uname
           p == q \o <<h.t.plen>>
           m == p \o h.buf
           u == h.t.ulen
<1>1. /\ h.buf \in Seq(UInt8) /\ Len(h.buf) \in Nat /\ u \in Nat /\ h.t.plen \in Nat
      /\ h.t.aver \in UInt8 /\ u \in UInt8 /\ h.t.uname \in Seq(UInt8) /\ h.t.plen \in UInt8
  <2>1. h.t \in Tunnel
    BY FieldTypes
  <2> QED BY <2>1, FieldTypes DEF Tunnel
<1>2. u <= MaxField /\ h.t.plen <= MaxField /\ Len(h.t.uname) = u /\ h.t.read_count > 2
      /\ h.t.read_count > 2 + u
  BY <1>1 DEF FieldsChecked
<1>3. Parsed(h.t) = p
  <2>1. h.t.read_count # 0 /\ h.t.state # "open_state"
    BY <1>1
  <2> QED BY <1>2, <2>1 DEF Parsed
<1>4. p \in Seq(UInt8) /\ Len(p) = 3 + u /\ p[2] = u /\ p[3 + u] = h.t.plen
  <2>1. h.t \in Tunnel
    BY FieldTypes
  <2> QED BY <1>2, <2>1, PrefixOf
<1> HIDE DEF p
<1>5. Len(m) = 3 + u + Len(h.buf) /\ m[2] = u /\ m[3 + u] = h.t.plen
  <2>1. 2 \in 1..Len(p) /\ 3 + u \in 1..Len(p)
    BY <1>1, <1>4
  <2> QED BY <1>1, <1>4, <2>1, InFront
<1>6. /\ Len(m) >= 2 /\ Len(m) >= 3 + m[2] /\ m[2] <= MaxField /\ m[3 + m[2]] <= MaxField
      /\ (Len(h.buf) < h.t.plen <=> Len(m) < 3 + m[2] + m[3 + m[2]])
      /\ (~(Len(h.buf) < h.t.plen) <=> Len(m) >= 3 + m[2] + m[3 + m[2]])
  <2> HIDE DEF m, u
  <2>1. m[2] = u /\ m[3 + m[2]] = h.t.plen
    BY <1>5
  <2> DEFINE a == Len(h.buf)
             b == h.t.plen
             c == Len(m)
  <2>2. u \in Nat /\ a \in Nat /\ b \in Nat /\ c = 3 + u + a /\ u <= MaxField /\ b <= MaxField
    BY <1>1, <1>2, <1>5
  <2> HIDE DEF a, b, c
  <2>3. c >= 2 /\ c >= 3 + u /\ (a < b <=> c < 3 + u + b) /\ (~(a < b) <=> c >= 3 + u + b)
    BY ONLY <2>2
  <2> QED BY ONLY <2>1, <2>2, <2>3 DEF a, b, c
<1>7. Waits(h.out, "auth_state", h, m)
  BY <1>3 DEF Waits
<1>8. ASSUME ~(Len(h.buf) < h.t.plen)
      PROVE  Takes(h.out, "request_state", "success",
                   Answered(h, h.t.plen, "request_state", "success"), m, 3 + m[2] + m[3 + m[2]])
  <2>1. h.t.plen \in 0..Len(h.buf) /\ 3 + m[2] + m[3 + m[2]] = Len(p) + h.t.plen
    BY <1>1, <1>4, <1>5, <1>8
  <2> QED BY <1>4, <2>1, TakesMessage
<1>9. ASSUME ~(Len(h.buf) < h.t.plen)
      PROVE  Refuses(h.out, "auth_state", Refused(h, h.t, h.t.plen), Messages!Without(m, 3 + m[2], m[3 + m[2]]))
  <2>1. h.t.plen \in 0..Len(h.buf) /\ h.t \in Tunnel
    BY <1>9, FieldTypes
  <2>2. Messages!Without(m, Len(p), h.t.plen) = p \o Drop(h.buf, h.t.plen)
    BY <1>1, <1>4, <2>1, WithoutBehind
  <2>3. Refuses(h.out, "auth_state", Refused(h, h.t, h.t.plen), p \o Drop(h.buf, h.t.plen))
    BY <1>3, <2>1, RefusedRefuses
  <2> QED BY <1>4, <1>5, <2>2, <2>3
<1> HIDE DEF m
<1>10. CredentialsParsed(h.out, h.ok, AuthPasswd(h), m)
  <2>1. CASE Len(h.buf) < h.t.plen
    BY <1>6, <1>7, <2>1 DEF AuthPasswd, CredentialsParsed
  <2>2. CASE ~(Len(h.buf) < h.t.plen) /\ h.ok
    BY <1>6, <1>8, <2>2 DEF AuthPasswd, CredentialsParsed
  <2>3. CASE ~(Len(h.buf) < h.t.plen) /\ ~h.ok
    BY <1>6, <1>9, <2>3 DEF AuthPasswd, CredentialsParsed
  <2> QED BY <2>1, <2>2, <2>3
<1> QED BY <1>3, <1>10 DEF m

\* The length of a password is not parsed until it is counted.
LEMMA SamePrefix ==
    ASSUME NEW t \in Tunnel, NEW s \in Tunnel, t.state = "auth_state", s.state = "auth_state",
           t.read_count = 2 + t.ulen, s.read_count = t.read_count,
           s.aver = t.aver, s.ulen = t.ulen, s.uname = t.uname
    PROVE  Parsed(s) = Parsed(t)
<1>1. t.ulen \in 0..255
  BY DEF Tunnel, UInt8
<1>2. /\ t.read_count # 0 /\ ~(t.read_count > 2 + t.ulen)
      /\ s.read_count # 0 /\ ~(s.read_count > 2 + s.ulen)
  BY <1>1
<1>3. t.state # "open_state" /\ s.state # "open_state"
  OBVIOUS
<1> QED BY <1>2, <1>3 DEF Parsed

LEMMA AuthPlenParse ==
    ASSUME NEW h \in Records, h.res = "open", FieldsChecked(h.t), h.t.state = "auth_state",
           h.t.read_count = 2 + h.t.ulen, Len(h.t.uname) = h.t.ulen
    PROVE  CredentialsParsed(h.out, h.ok, AuthPlen(h), (<<h.t.aver, h.t.ulen>> \o h.t.uname) \o h.buf)
<1> DEFINE q == <<h.t.aver, h.t.ulen>> \o h.t.uname
           m == q \o h.buf
           u == h.t.ulen
<1>1. /\ h.buf \in Seq(UInt8) /\ Len(h.buf) \in Nat /\ u \in Nat
      /\ h.t.aver \in UInt8 /\ u \in UInt8 /\ h.t.uname \in Seq(UInt8) /\ h.t.plen \in UInt8
  <2>1. h.t \in Tunnel
    BY FieldTypes
  <2> QED BY <2>1, FieldTypes DEF Tunnel
<1>2. u <= MaxField
  BY <1>1 DEF FieldsChecked
<1>3. q \in Seq(UInt8) /\ Len(q) = 2 + u /\ q[2] = u
  <2>1. h.t \in Tunnel
    BY FieldTypes
  <2> QED BY <2>1, PrefixOf
<1>4. Parsed(h.t) = q
  <2>1. h.t.read_count # 0 /\ h.t.state # "open_state" /\ ~(h.t.read_count > 2 + u)
    BY <1>1
  <2>2. Parsed(h.t) = (<<h.t.aver, h.t.ulen>> \o (IF h.t.read_count > 2 THEN h.t.uname ELSE <<>>)) \o <<>>
    BY <2>1 DEF Parsed
  <2>3. (IF h.t.read_count > 2 THEN h.t.uname ELSE <<>>) = h.t.uname
    BY <1>1, EmptySeq
  <2>4. q \o <<>> = q
    <3> HIDE DEF q
    <3> QED BY <1>3, ConcatEmptySeq
  <2> QED BY <2>2, <2>3, <2>4
<1>5. Len(m) = 2 + u + Len(h.buf) /\ m[2] = u
  <2> HIDE DEF q, u
  <2>1. 2 \in 1..Len(q)
    BY <1>1, <1>3
  <2> QED BY <1>1, <1>3, <2>1, InFront
<1>6. CASE Len(h.buf) < 1
  <2>1. Waits(h.out, "auth_state", h, m)
    BY <1>4 DEF Waits
  <2>2. m[2] <= MaxField /\ Len(m) < 3 + m[2]
    <3> HIDE DEF m
    <3> QED BY <1>1, <1>2, <1>5, <1>6
  <2> HIDE DEF m
  <2>3. CredentialsParsed(h.out, h.ok, h, m)
    BY <2>1, <2>2 DEF CredentialsParsed
  <2> QED BY <1>6, <2>3 DEF AuthPlen, m
<1>7. ASSUME ~(Len(h.buf) < 1)
      PROVE  Len(m) >= 2 /\ Len(m) >= 3 + m[2] /\ m[3 + m[2]] = h.buf[1] /\ Len(h.buf) >= 1
  <2>1. Len(h.buf) >= 1
    BY <1>1, <1>7
  <2>2. Len(m) >= 2 /\ Len(m) >= 3 + u /\ m[3 + u] = h.buf[1]
    <3> HIDE DEF q, u
    <3> QED BY <1>1, <1>3, <2>1, PlenFollows
  <2> HIDE DEF m, u
  <2> QED BY <1>5, <2>1, <2>2
<1>8. CASE ~(Len(h.buf) < 1) /\ h.buf[1] > MaxField
  <2> DEFINE t == LongPasswd(h)
  <2>1. /\ 1 \in 0..Len(h.buf) /\ t \in Tunnel /\ t.state = "auth_state"
        /\ t.read_count = h.t.read_count /\ t.aver = h.t.aver /\ t.ulen = h.t.ulen /\ t.uname = h.t.uname
    BY <1>8, LongPasswdFields
  <2> HIDE DEF t
  <2>2. Parsed(t) = Parsed(h.t)
    <3>1. h.t \in Tunnel /\ h.t.state = "auth_state" /\ h.t.read_count = 2 + h.t.ulen
      BY FieldTypes
    <3> QED BY <2>1, <3>1, SamePrefix
  <2>3. Refuses(h.out, "auth_state", Refused(h, t, 1), q \o Drop(h.buf, 1))
    BY <1>4, <2>1, <2>2, RefusedRefuses
  <2>4. Messages!Without(m, 2 + m[2], 1) = q \o Drop(h.buf, 1)
    <3>1. Messages!Without(q \o h.buf, Len(q), 1) = q \o Drop(h.buf, 1)
      <4> HIDE DEF q
      <4> QED BY <1>1, <1>3, <2>1, WithoutBehind
    <3> QED BY <1>3, <1>5, <3>1
  <2> HIDE DEF m, q
  <2>5. m[2] <= MaxField
    BY <1>2, <1>5
  <2>6. CredentialsParsed(h.out, h.ok, Refused(h, t, 1), m)
    BY <1>7, <1>8, <2>3, <2>4, <2>5 DEF CredentialsParsed
  <2>7. AuthPlen(h) = Refused(h, t, 1)
    BY <1>8 DEF AuthPlen, LongPasswd, t
  <2> QED BY <2>6, <2>7 DEF m, q
<1>9. CASE ~(Len(h.buf) < 1) /\ ~(h.buf[1] > MaxField)
  <2> DEFINE g == TookPlen(h)
  <2>1. /\ g \in Records /\ g.res = "open" /\ FieldsChecked(g.t) /\ g.t.state = "auth_state"
        /\ g.t.read_count = 2 + g.t.ulen + 1 /\ g.out = h.out /\ g.ok = h.ok
        /\ g.t.aver = h.t.aver /\ g.t.ulen = h.t.ulen /\ g.t.uname = h.t.uname
        /\ g.t.plen = h.buf[1] /\ g.buf = Drop(h.buf, 1)
    BY <1>9, TookPlenFields
  <2>2. AuthPlen(h) = AuthPasswd(g)
    BY <1>9 DEF AuthPlen, TookPlen
  <2> HIDE DEF g
  <2>3. CredentialsParsed(h.out, h.ok, AuthPasswd(g), Parsed(g.t) \o g.buf)
    BY <2>1, AuthPasswdParse
  <2>4. Parsed(g.t) = q \o <<h.buf[1]>>
    <3>1. g.t.read_count # 0 /\ g.t.state # "open_state" /\ g.t.read_count > 2 /\ g.t.read_count > 2 + g.t.ulen
      BY <1>1, <2>1
    <3> QED BY <2>1, <3>1 DEF Parsed
  <2>5. (q \o <<h.buf[1]>>) \o Drop(h.buf, 1) = m
    <3> HIDE DEF q
    <3>1. 1 \in 0..Len(h.buf) /\ SubSeq(h.buf, 1, 1) = <<h.buf[1]>>
      BY <1>1, <1>7, <1>9, OneByte
    <3> QED BY <1>1, <1>3, <3>1, MovedOver
  <2> QED BY <2>1, <2>2, <2>3, <2>4, <2>5
<1> QED BY <1>6, <1>8, <1>9 DEF m

LEMMA AuthUnameParse ==
    ASSUME NEW h \in Records, h.res = "open", FieldsChecked(h.t), h.t.state = "auth_state", h.t.read_count = 2
    PROVE  CredentialsParsed(h.out, h.ok, AuthUname(h), <<h.t.aver, h.t.ulen>> \o h.buf)
<1> DEFINE p == <<h.t.aver, h.t.ulen>>
           m == p \o h.buf
<1>1. /\ h.buf \in Seq(UInt8) /\ Len(h.buf) \in Nat /\ h.t.ulen \in Nat
      /\ h.t.aver \in UInt8 /\ h.t.ulen \in UInt8
  <2>1. h.t \in Tunnel
    BY FieldTypes
  <2> QED BY <2>1, FieldTypes DEF Tunnel
<1>2. p \in Seq(UInt8) /\ Len(p) = 2 /\ p[2] = h.t.ulen
  BY <1>1
<1>3. h.t.ulen <= MaxField
  BY DEF FieldsChecked
<1>4. CASE Len(h.buf) < h.t.ulen
  <2>1. Parsed(h.t) = p
    <3>0. h.t.read_count # 0 /\ h.t.state # "open_state" /\ ~(h.t.read_count > 2)
          /\ ~(h.t.read_count > 2 + h.t.ulen)
      BY <1>1
    <3>1. Parsed(h.t) = (p \o <<>>) \o <<>>
      BY <3>0 DEF Parsed
    <3> HIDE DEF p
    <3> QED BY <1>2, <3>1, ConcatEmptySeq
  <2>2. Waits(h.out, "auth_state", h, m)
    BY <2>1 DEF Waits
  <2> HIDE DEF p
  <2>3. Len(m) = 2 + Len(h.buf) /\ m[2] = h.t.ulen
    <3>1. 2 \in 1..Len(p)
      BY <1>2
    <3> QED BY <1>1, <1>2, <3>1, InFront
  <2> HIDE DEF m
  <2>4. m[2] <= MaxField /\ Len(m) < 3 + m[2]
    BY <1>1, <1>3, <1>4, <2>3
  <2>5. CredentialsParsed(h.out, h.ok, h, m)
    BY <2>2, <2>4 DEF CredentialsParsed
  <2> QED BY <1>4, <2>5 DEF AuthUname, m, p
<1>5. CASE ~(Len(h.buf) < h.t.ulen)
  <2> DEFINE g == TookUname(h)
  <2>1. /\ g \in Records /\ g.res = "open" /\ FieldsChecked(g.t) /\ g.t.state = "auth_state"
        /\ g.t.read_count = 2 + g.t.ulen /\ Len(g.t.uname) = g.t.ulen /\ g.out = h.out /\ g.ok = h.ok
        /\ g.t.aver = h.t.aver /\ g.t.ulen = h.t.ulen /\ g.t.uname = SubSeq(h.buf, 1, h.t.ulen)
        /\ g.buf = Drop(h.buf, h.t.ulen)
    BY <1>5, TookUnameFields
  <2>2. AuthUname(h) = AuthPlen(g)
    BY <1>5 DEF AuthUname, TookUname
  <2> HIDE DEF g
  <2>3. CredentialsParsed(h.out, h.ok, AuthPlen(g), (<<g.t.aver, g.t.ulen>> \o g.t.uname) \o g.buf)
    BY <2>1, AuthPlenParse
  <2>4. (<<g.t.aver, g.t.ulen>> \o g.t.uname) \o g.buf = m
    <3>1. h.t.ulen \in 0..Len(h.buf)
      BY <1>1, <1>5
    <3>2. (p \o SubSeq(h.buf, 1, h.t.ulen)) \o Drop(h.buf, h.t.ulen) = p \o h.buf
      <4> HIDE DEF p
      <4> QED BY <1>1, <1>2, <3>1, MovedOver
    <3> QED BY <2>1, <3>2
  <2> QED BY <2>2, <2>3, <2>4
<1> QED BY <1>4, <1>5

LEMMA AuthHeaderParse ==
    ASSUME NEW h \in Records, h.res = "open", FieldsChecked(h.t), h.t.state = "auth_state", h.t.read_count = 0
    PROVE  CredentialsParsed(h.out, h.ok, AuthHeader(h), h.buf)
<1>1. h.buf \in Seq(UInt8) /\ Len(h.buf) \in Nat
  BY FieldTypes
<1>2. CASE Len(h.buf) < 2
  <2>1. Parsed(h.t) = <<>> /\ <<>> \o h.buf = h.buf
    BY <1>1, ConcatEmptySeq DEF Parsed
  <2> QED BY <1>2, <2>1 DEF AuthHeader, CredentialsParsed, Waits
<1>3. CASE ~(Len(h.buf) < 2) /\ h.buf[2] > MaxField
  <2> DEFINE t == LongUname(h)
  <2>1. Len(h.buf) >= 2
    BY <1>1, <1>3
  <2>2. 2 \in 0..Len(h.buf) /\ t \in Tunnel /\ t.state = "auth_state" /\ t.read_count = 0
    BY <1>3, LongUnameFields
  <2>3. AuthHeader(h) = Refused(h, t, 2)
    BY <1>3 DEF AuthHeader, LongUname
  <2> HIDE DEF t
  <2>4. Refuses(h.out, "auth_state", Refused(h, t, 2), Drop(h.buf, 2))
    BY <2>2, RefusedAtStart
  <2> QED BY <1>3, <2>1, <2>3, <2>4 DEF CredentialsParsed
<1>4. CASE ~(Len(h.buf) < 2) /\ ~(h.buf[2] > MaxField)
  <2> DEFINE g == TookAuthHeader(h)
  <2>1. /\ g \in Records /\ g.res = "open" /\ FieldsChecked(g.t) /\ g.t.state = "auth_state"
        /\ g.t.read_count = 2 /\ g.out = h.out /\ g.ok = h.ok
        /\ g.t.aver = h.buf[1] /\ g.t.ulen = h.buf[2] /\ g.buf = Drop(h.buf, 2)
    BY <1>4, TookAuthHeaderFields
  <2>2. AuthHeader(h) = AuthUname(g)
    BY <1>4 DEF AuthHeader, TookAuthHeader
  <2> HIDE DEF g
  <2>3. CredentialsParsed(h.out, h.ok, AuthUname(g), <<g.t.aver, g.t.ulen>> \o g.buf)
    BY <2>1, AuthUnameParse
  <2>4. <<h.buf[1], h.buf[2]>> \o Drop(h.buf, 2) = h.buf
    <3>1. Len(h.buf) >= 2
      BY <1>1, <1>4
    <3>2. 2 \in 0..Len(h.buf) /\ SubSeq(h.buf, 1, 2) = <<h.buf[1], h.buf[2]>>
      BY <1>1, <3>1, TwoBytes
    <3>3. SubSeq(h.buf, 1, 2) \o Drop(h.buf, 2) = h.buf
      BY <1>1, <3>2, CutParts
    <3> QED BY <3>2, <3>3
  <2> QED BY <2>1, <2>2, <2>3, <2>4
<1> QED BY <1>2, <1>3, <1>4

LEMMA AuthHandleParse ==
    ASSUME NEW h \in Records, h.res = "open", FieldsChecked(h.t), h.t.state = "auth_state",
           h.t.read_count \in Labels(h.t)
    PROVE  CredentialsParsed(h.out, h.ok, AuthHandle(h), Parsed(h.t) \o h.buf)
<1>1. h.t.read_count \in {0, 2, 2 + h.t.ulen, 2 + h.t.ulen + 1} /\ h.t.ulen \in Nat
  BY FieldTypes DEF Labels
<1>2. CASE h.t.read_count = 0
  <2>1. Parsed(h.t) = <<>> /\ <<>> \o h.buf = h.buf
    BY <1>2, FieldTypes, ConcatEmptySeq DEF Parsed
  <2> QED BY <1>2, <2>1, AuthHeaderParse DEF AuthHandle
<1> DEFINE p == <<h.t.aver, h.t.ulen>>
<1>3. p \in Seq(UInt8)
  <2>1. h.t \in Tunnel
    BY FieldTypes
  <2> QED BY <2>1 DEF Tunnel
<1>4. CASE h.t.read_count = 2
  <2>1. Parsed(h.t) = p
    <3>0. h.t.read_count # 0 /\ h.t.state # "open_state" /\ ~(h.t.read_count > 2)
          /\ ~(h.t.read_count > 2 + h.t.ulen)
      BY <1>1, <1>4
    <3>1. Parsed(h.t) = (p \o <<>>) \o <<>>
      BY <3>0 DEF Parsed
    <3> HIDE DEF p
    <3> QED BY <1>3, <3>1, ConcatEmptySeq
  <2> QED BY <1>4, <2>1, AuthUnameParse DEF AuthHandle
<1>5. CASE h.t.read_count \notin {0, 2} /\ h.t.read_count = 2 + h.t.ulen
  <2>1. Len(h.t.uname) = h.t.ulen /\ h.t.read_count > 2 /\ ~(h.t.read_count > 2 + h.t.ulen)
    BY <1>1, <1>5 DEF FieldsChecked
  <2>2. h.t.uname \in Seq(UInt8)
    BY FieldTypes DEF Tunnel
  <2>3. Parsed(h.t) = (p \o h.t.uname) \o <<>>
    BY <1>5, <2>1 DEF Parsed
  <2>4. (p \o h.t.uname) \o <<>> = p \o h.t.uname
    <3> HIDE DEF p
    <3> QED BY <1>3, <2>2, InFront, ConcatEmptySeq
  <2> QED BY <1>5, <2>1, <2>3, <2>4, AuthPlenParse DEF AuthHandle
<1>6. CASE h.t.read_count \notin {0, 2, 2 + h.t.ulen} /\ h.t.read_count = 2 + h.t.ulen + 1
  BY <1>6, AuthPasswdParse DEF AuthHandle
<1> QED BY <1>1, <1>2, <1>4, <1>5, <1>6

(* tunnel_request_handle *)

LEMMA RequestPrefix ==
    ASSUME NEW t \in Tunnel, t.state = "request_state"
    PROVE  LET q == <<5, 1, t.rsv, t.atyp>>
               p == q \o <<t.domainlen>>
           IN  /\ q \in Seq(UInt8) /\ Len(q) = 4 /\ q[1] = 5 /\ q[2] = 1 /\ q[4] = t.atyp
               /\ p \in Seq(UInt8) /\ Len(p) = 5 /\ p[1] = 5 /\ p[2] = 1 /\ p[4] = t.atyp /\ p[5] = t.domainlen
               /\ t.read_count = 4 => Parsed(t) = q
               /\ t.read_count = 5 => Parsed(t) = p
<1> DEFINE a == t.rsv
           b == t.atyp
           d == t.domainlen
           q == <<5, 1, a, b>>
           one == <<d>>
           p == q \o one
<1>1. a \in UInt8 /\ b \in UInt8 /\ d \in UInt8 /\ 5 \in UInt8 /\ 1 \in UInt8
  BY DEF Tunnel, UInt8
<1>2. t.read_count = 4 => Parsed(t) = q \o <<>>
  BY DEF Parsed
<1>3. t.read_count = 5 => Parsed(t) = p
  BY DEF Parsed
<1> HIDE DEF a, b, d
<1>4. q \in Seq(UInt8) /\ Len(q) = 4 /\ q[1] = 5 /\ q[2] = 1 /\ q[4] = b
  BY <1>1
<1>5. one \in Seq(UInt8) /\ Len(one) = 1 /\ one[1] = d
  BY <1>1
<1> HIDE DEF q, one
<1>6. /\ p \in Seq(UInt8) /\ Len(p) = Len(q) + Len(one)
      /\ \A i \in 1..(Len(q) + Len(one)) : p[i] = IF i <= Len(q) THEN q[i] ELSE one[i - Len(q)]
  BY <1>4, <1>5, ConcatProperties
<1> HIDE DEF p
<1>7. Len(p) = 5 /\ p[1] = 5 /\ p[2] = 1 /\ p[4] = b /\ p[5] = d
  BY <1>4, <1>5, <1>6
<1>8. q \o <<>> = q
  BY <1>4, ConcatEmptySeq
<1> QED BY <1>2, <1>3, <1>4, <1>6, <1>7, <1>8 DEF p, q, one, a, b, d

\* The rest of the message has a length known from its header.
LEMMA RestParse ==
    ASSUME NEW h \in Records, h.res = "open", h.t.state = "request_state",
           NEW p \in Seq(UInt8), Parsed(h.t) = p, NEW n \in Nat
    PROVE  LET m == p \o h.buf
               g == IF Len(h.buf) < n THEN h ELSE Connected(h, n)
           IN  \/ Waits(h.out, "request_state", g, m) /\ Len(m) < Len(p) + n
               \/ Takes(h.out, "connected_state", "connect", g, m, Len(p) + n) /\ Len(m) >= Len(p) + n
<1> DEFINE b == h.buf
           m == p \o b
<1>1. b \in Seq(UInt8)
  BY FieldTypes
<1>2. Len(m) = Len(p) + Len(b) /\ Len(p) \in Nat /\ Len(b) \in Nat
  BY <1>1, InFront
<1>3. CASE Len(b) < n
  <2>1. Waits(h.out, "request_state", h, m)
    BY DEF Waits
  <2>2. Len(m) < Len(p) + n
    <3> HIDE DEF b, m
    <3> QED BY <1>2, <1>3
  <2> QED BY <1>3, <2>1, <2>2
<1>4. CASE ~(Len(b) < n)
  <2>1. Len(m) >= Len(p) + n /\ n \in 0..Len(b)
    <3> HIDE DEF b, m
    <3> QED BY <1>2, <1>4
  <2>2. Takes(h.out, "connected_state", "connect", Connected(h, n), m, Len(p) + n)
    BY <2>1, TakesMessage DEF Connected
  <2> QED BY <1>4, <2>1, <2>2
<1> QED BY <1>3, <1>4

LEMMA RequestDomainParse ==
    ASSUME NEW h \in Records, h.res = "open", h.t.state = "request_state", h.t.read_count = 5, h.t.atyp = 3
    PROVE  RequestParsed(h.out, RequestDomain(h), Parsed(h.t) \o h.buf)
<1> DEFINE p == Parsed(h.t)
           d == h.t.domainlen
           b == h.buf
           m == p \o b
           g == RequestDomain(h)
           o == h.out
<1>1. d \in Nat /\ d + 2 \in Nat /\ h.t \in Tunnel /\ b \in Seq(UInt8)
  BY FieldTypes
<1>2. /\ p \in Seq(UInt8) /\ Len(p) = 5 /\ p[1] = 5 /\ p[2] = 1 /\ p[4] = 3 /\ p[5] = d
  BY <1>1, RequestPrefix
<1>3. g = IF Len(b) < d + 2 THEN h ELSE Connected(h, d + 2)
  BY DEF RequestDomain
<1>4. \/ Waits(o, "request_state", g, m) /\ Len(m) < Len(p) + (d + 2)
      \/ Takes(o, "connected_state", "connect", g, m, Len(p) + (d + 2)) /\ Len(m) >= Len(p) + (d + 2)
  <2> HIDE DEF p, d
  <2> QED BY <1>1, <1>2, <1>3, RestParse DEF p
<1> HIDE DEF p, d, b, g, o
<1>5. m[1] = 5 /\ m[2] = 1 /\ m[4] = 3 /\ m[5] = d /\ Len(m) >= 5
  <2>1. Len(m) = Len(p) + Len(b) /\ Len(b) \in Nat /\ \A i \in 1..Len(p) : m[i] = p[i]
    BY <1>1, <1>2, InFront
  <2> HIDE DEF m
  <2> QED BY <1>2, <2>1
<1> HIDE DEF m
<1>6. Len(p) + (d + 2) = 7 + m[5] /\ 7 + m[5] \in Nat /\ Len(m) >= 4
  BY <1>1, <1>2, <1>5
<1>7. RequestParsed(o, g, m)
  <2>1. CASE Waits(o, "request_state", g, m) /\ Len(m) < Len(p) + (d + 2)
    BY <1>5, <1>6, <2>1 DEF RequestParsed
  <2>2. CASE Takes(o, "connected_state", "connect", g, m, Len(p) + (d + 2)) /\ Len(m) >= Len(p) + (d + 2)
    BY <1>5, <1>6, <2>2 DEF RequestParsed
  <2> QED BY <1>4, <2>1, <2>2
<1> QED BY <1>7 DEF p, b, g, o, m

LEMMA RequestFixedParse ==
    ASSUME NEW h \in Records, h.res = "open", h.t.state = "request_state", h.t.read_count = 4,
           NEW n \in Nat, (h.t.atyp = 1 /\ n = 4) \/ (h.t.atyp = 4 /\ n = 16)
    PROVE  RequestParsed(h.out, RequestFixed(h, n), Parsed(h.t) \o h.buf)
<1> DEFINE p == Parsed(h.t)
           a == h.t.atyp
           b == h.buf
           m == p \o b
           g == RequestFixed(h, n)
           o == h.out
<1>1. n + 2 \in Nat /\ h.t \in Tunnel /\ b \in Seq(UInt8)
  BY FieldTypes
<1>2. /\ p \in Seq(UInt8) /\ Len(p) = 4 /\ p[1] = 5 /\ p[2] = 1 /\ p[4] = a
  BY <1>1, RequestPrefix
<1>3. g = IF Len(b) < n + 2 THEN h ELSE Connected(h, n + 2)
  BY DEF RequestFixed
<1>4. \/ Waits(o, "request_state", g, m) /\ Len(m) < Len(p) + (n + 2)
      \/ Takes(o, "connected_state", "connect", g, m, Len(p) + (n + 2)) /\ Len(m) >= Len(p) + (n + 2)
  <2> HIDE DEF p
  <2> QED BY <1>1, <1>2, <1>3, RestParse DEF p
<1>5. (a = 1 /\ n = 4) \/ (a = 4 /\ n = 16)
  OBVIOUS
<1> HIDE DEF p, a, b, g, o
<1>6. m[1] = 5 /\ m[2] = 1 /\ m[4] = a /\ Len(m) >= 4
  <2>1. Len(m) = Len(p) + Len(b) /\ Len(b) \in Nat /\ \A i \in 1..Len(p) : m[i] = p[i]
    BY <1>1, <1>2, InFront
  <2> HIDE DEF m
  <2> QED BY <1>2, <2>1
<1> HIDE DEF m
<1>7. RequestParsed(o, g, m)
  <2>1. CASE Waits(o, "request_state", g, m) /\ Len(m) < Len(p) + (n + 2)
    BY <1>2, <1>5, <1>6, <2>1 DEF RequestParsed
  <2>2. CASE Takes(o, "connected_state", "connect", g, m, Len(p) + (n + 2)) /\ Len(m) >= Len(p) + (n + 2)
    <3>1. Len(p) + (n + 2) \in Nat /\ (n = 4 => Len(p) + (n + 2) = 10) /\ (n = 16 => Len(p) + (n + 2) = 22)
      BY <1>2
    <3> QED BY <1>5, <1>6, <2>2, <3>1 DEF RequestParsed
  <2> QED BY <1>4, <2>1, <2>2
<1> QED BY <1>7 DEF p, b, g, o, m

LEMMA RequestDomainLenParse ==
    ASSUME NEW h \in Records, h.res = "open", h.t.state = "request_state", h.t.read_count = 4, h.t.atyp = 3
    PROVE  RequestParsed(h.out, RequestDomainLen(h), Parsed(h.t) \o h.buf)
<1> DEFINE p == Parsed(h.t)
           b == h.buf
           m == p \o b
<1>1. h.t \in Tunnel /\ b \in Seq(UInt8) /\ Len(b) \in Nat
  BY FieldTypes
<1>2. /\ p \in Seq(UInt8) /\ Len(p) = 4 /\ p[1] = 5 /\ p[2] = 1 /\ p[4] = 3
      /\ p = <<5, 1, h.t.rsv, h.t.atyp>>
  BY <1>1, RequestPrefix
<1>3. CASE Len(b) < 1
  <2>1. Waits(h.out, "request_state", h, m)
    BY DEF Waits
  <2>2. RequestDomainLen(h) = h
    BY <1>3 DEF RequestDomainLen
  <2> HIDE DEF p, b
  <2>3. m[1] = 5 /\ m[2] = 1 /\ m[4] = 3 /\ Len(m) < 5
    <3>1. Len(m) = Len(p) + Len(b) /\ \A i \in 1..Len(p) : m[i] = p[i]
      BY <1>1, <1>2, InFront
    <3> HIDE DEF m
    <3> QED BY <1>1, <1>2, <1>3, <3>1
  <2> HIDE DEF m
  <2>4. RequestParsed(h.out, h, m)
    BY <2>1, <2>3 DEF RequestParsed
  <2> QED BY <2>2, <2>4 DEF m, p, b
<1>4. CASE ~(Len(b) < 1)
  <2> DEFINE g == TookDomainLen(h)
  <2>1. /\ g \in Records /\ g.res = "open" /\ g.t.state = "request_state" /\ g.t.read_count = 5
        /\ g.t.atyp = 3 /\ g.out = h.out /\ g.t.rsv = h.t.rsv /\ g.t.domainlen = h.buf[1]
        /\ g.buf = Drop(h.buf, 1)
    BY <1>4, TookDomainLenFields
  <2>2. RequestDomainLen(h) = RequestDomain(g)
    BY <1>4 DEF RequestDomainLen, TookDomainLen
  <2> HIDE DEF g
  <2>3. RequestParsed(g.out, RequestDomain(g), Parsed(g.t) \o g.buf)
    BY <2>1, RequestDomainParse
  <2>4. Parsed(g.t) = p \o <<h.buf[1]>>
    <3>1. g.t \in Tunnel
      BY <2>1, FieldTypes
    <3>2. Parsed(g.t) = <<5, 1, g.t.rsv, g.t.atyp>> \o <<g.t.domainlen>>
      BY <2>1, <3>1, RequestPrefix
    <3> QED BY <1>2, <2>1, <3>2
  <2>5. (p \o <<h.buf[1]>>) \o Drop(h.buf, 1) = m
    <3>1. Len(b) >= 1
      BY <1>1, <1>4
    <3>2. 1 \in 0..Len(b) /\ SubSeq(b, 1, 1) = <<b[1]>>
      BY <1>1, <3>1, OneByte
    <3> HIDE DEF p
    <3>3. (p \o SubSeq(b, 1, 1)) \o Drop(b, 1) = p \o b
      BY <1>1, <1>2, <3>2, MovedOver
    <3> QED BY <3>2, <3>3
  <2> QED BY <2>1, <2>2, <2>3, <2>4, <2>5
<1> QED BY <1>3, <1>4

LEMMA RequestAddrParse ==
    ASSUME NEW h \in Records, h.res = "open", h.t.state = "request_state", h.t.read_count = 4
    PROVE  RequestParsed(h.out, RequestAddr(h), Parsed(h.t) \o h.buf)
<1> DEFINE p == Parsed(h.t)
           b == h.buf
           m == p \o b
<1>1. CASE h.t.atyp = 1
  BY <1>1, RequestFixedParse DEF RequestAddr
<1>2. CASE h.t.atyp = 4
  <2>1. h.t.atyp # 1
    BY <1>2
  <2> QED BY <1>2, <2>1, RequestFixedParse DEF RequestAddr
<1>3. CASE h.t.atyp = 3
  <2>1. h.t.atyp # 1 /\ h.t.atyp # 4
    BY <1>3
  <2> QED BY <1>3, <2>1, RequestDomainLenParse DEF RequestAddr
<1>4. CASE h.t.atyp \notin {1, 3, 4}
  <2>1. h.t \in Tunnel /\ b \in Seq(UInt8)
    BY FieldTypes
  <2>2. /\ p \in Seq(UInt8) /\ Len(p) = 4 /\ p[1] = 5 /\ p[2] = 1 /\ p[4] = h.t.atyp
    BY <2>1, RequestPrefix
  <2>3. RequestAddr(h) = Refused(h, h.t, 0)
    BY <1>4 DEF RequestAddr
  <2>4. Refuses(h.out, "request_state", Refused(h, h.t, 0), m)
    <3>1. 0 \in 0..Len(b)
      BY FieldTypes
    <3>2. Drop(b, 0) = b
      BY <2>1, DropNone
    <3> QED BY <2>1, <3>1, <3>2, RefusedRefuses
  <2> HIDE DEF p, b
  <2>5. m[1] = 5 /\ m[2] = 1 /\ m[4] = h.t.atyp /\ Len(m) >= 4
    <3>1. Len(m) = Len(p) + Len(b) /\ Len(b) \in Nat /\ \A i \in 1..Len(p) : m[i] = p[i]
      BY <2>1, <2>2, InFront
    <3> HIDE DEF m
    <3> QED BY <2>2, <3>1
  <2> HIDE DEF m
  <2>6. RequestParsed(h.out, Refused(h, h.t, 0), m)
    BY <1>4, <2>4, <2>5 DEF RequestParsed
  <2> QED BY <2>3, <2>6 DEF m, p, b
<1> QED BY <1>1, <1>2, <1>3, <1>4

LEMMA RequestHeaderParse ==
    ASSUME NEW h \in Records, h.res = "open", h.t.state = "request_state", h.t.read_count = 0
    PROVE  RequestParsed(h.out, RequestHeader(h), h.buf)
<1>1. h.buf \in Seq(UInt8) /\ Len(h.buf) \in Nat
  BY FieldTypes
<1>2. CASE Len(h.buf) < 4
  <2>1. Parsed(h.t) = <<>> /\ <<>> \o h.buf = h.buf
    BY <1>1, ConcatEmptySeq DEF Parsed
  <2> QED BY <1>2, <2>1 DEF RequestHeader, RequestParsed, Waits
<1>3. CASE ~(Len(h.buf) < 4) /\ (h.buf[1] # 5 \/ h.buf[2] # 1)
  <2>1. Len(h.buf) >= 4 /\ 1 \in 0..Len(h.buf) /\ 2 \in 0..Len(h.buf) /\ h.t \in Tunnel
    BY <1>1, <1>3, FieldTypes
  <2>2. /\ Refuses(h.out, "request_state", Refused(h, h.t, 1), Drop(h.buf, 1))
        /\ Refuses(h.out, "request_state", Refused(h, h.t, 2), Drop(h.buf, 2))
    BY <2>1, RefusedAtStart
  <2>3. CASE h.buf[1] # 5
    BY <1>3, <2>1, <2>2, <2>3 DEF RequestHeader, RequestParsed
  <2>4. CASE h.buf[1] = 5 /\ h.buf[2] # 1
    BY <1>3, <2>1, <2>2, <2>4 DEF RequestHeader, RequestParsed
  <2> QED BY <1>3, <2>3, <2>4
<1>4. CASE ~(Len(h.buf) < 4) /\ h.buf[1] = 5 /\ h.buf[2] = 1
  <2> DEFINE g == TookRequestHeader(h)
  <2>1. /\ g \in Records /\ g.res = "open" /\ g.t.state = "request_state" /\ g.t.read_count = 4
        /\ g.out = h.out /\ g.t.rsv = h.buf[3] /\ g.t.atyp = h.buf[4] /\ g.buf = Drop(h.buf, 4)
    BY <1>4, TookRequestHeaderFields
  <2>2. RequestHeader(h) = RequestAddr(g)
    BY <1>4 DEF RequestHeader, TookRequestHeader
  <2> HIDE DEF g
  <2>3. RequestParsed(g.out, RequestAddr(g), Parsed(g.t) \o g.buf)
    BY <2>1, RequestAddrParse
  <2>4. Parsed(g.t) = <<h.buf[1], h.buf[2], h.buf[3], h.buf[4]>>
    <3>1. g.t \in Tunnel
      BY <2>1, FieldTypes
    <3> QED BY <1>4, <2>1, <3>1, RequestPrefix
  <2>5. Parsed(g.t) \o g.buf = h.buf
    <3>1. Len(h.buf) >= 4
      BY <1>1, <1>4
    <3>2. 4 \in 0..Len(h.buf) /\ SubSeq(h.buf, 1, 4) = <<h.buf[1], h.buf[2], h.buf[3], h.buf[4]>>
      BY <1>1, <3>1, FourBytes
    <3>3. SubSeq(h.buf, 1, 4) \o Drop(h.buf, 4) = h.buf
      BY <1>1, <3>2, CutParts
    <3> QED BY <2>1, <2>4, <3>2, <3>3
  <2> QED BY <2>1, <2>2, <2>3, <2>5
<1> QED BY <1>2, <1>3, <1>4

LEMMA RequestHandleParse ==
    ASSUME NEW h \in Records, h.res = "open", h.t.state = "request_state", h.t.read_count \in Labels(h.t)
    PROVE  RequestParsed(h.out, RequestHandle(h), Parsed(h.t) \o h.buf)
<1>1. h.t.read_count \in {0, 4} \/ (h.t.read_count = 5 /\ h.t.atyp = 3)
  BY DEF Labels
<1>2. CASE h.t.read_count = 0
  <2>1. Parsed(h.t) = <<>> /\ <<>> \o h.buf = h.buf
    BY <1>2, FieldTypes, ConcatEmptySeq DEF Parsed
  <2> QED BY <1>2, <2>1, RequestHeaderParse DEF RequestHandle
<1>3. CASE h.t.read_count = 4
  BY <1>3, RequestAddrParse DEF RequestHandle
<1>4. CASE h.t.read_count = 5 /\ h.t.atyp = 3
  BY <1>4, RequestDomainParse DEF RequestHandle
<1> QED BY <1>1, <1>2, <1>3, <1>4

----------------------------------------------------------------------------
(* What the stages make of a message is what SocksMessages says of it.     *)

\* The outcomes SocksMessages allows for the bytes m in the tunnel's state.
Allowed(g, m) ==
    LET complete == {l \in Messages!MessageLen(m) : l <= Len(m)}
    IN  \/ Waits(replies, tunnel.state, g, m) /\ ~Messages!Malformed(m) /\ complete = {}
        \/ /\ ~Messages!Malformed(m)
           /\ \E l \in complete : Takes(replies, Messages!After, Messages!Answer, g, m, l)
        \/ /\ Refuses(replies, tunnel.state, g, Messages!WithoutField(m))
           /\ Messages!Malformed(m) \/ (complete # {} /\ tunnel.state = "auth_state")

LEMMA GreetingAllowed ==
    ASSUME tunnel.state = "open_state", NEW m \in Seq(UInt8), NEW g, GreetingParsed(replies, g, m)
    PROVE  Allowed(g, m)
<1>1. Messages!MessageLen(m) = IF Len(m) < 2 THEN {} ELSE {2 + m[2]}
  BY DEF Messages!MessageLen, Messages!GreetingLen
<1>2. Messages!Malformed(m) <=> Len(m) >= 2 /\ m[1] # 5
  BY DEF Messages!Malformed
<1>3. /\ Messages!After = IF auth THEN "auth_state" ELSE "request_state"
      /\ Messages!Answer = IF auth THEN "password" ELSE "no_auth"
  BY DEF Messages!After, Messages!Answer
<1>4. Len(m) \in Nat /\ (Len(m) >= 2 => m[2] \in Nat)
  <2>1. Len(m) \in Nat
    BY LenProperties
  <2>2. Len(m) >= 2 => 2 \in 1..Len(m)
    BY <2>1
  <2> QED BY <2>1, <2>2, ByteAt
<1>5. CASE /\ Waits(replies, "open_state", g, m)
           /\ Len(m) < 2 \/ (m[1] = 5 /\ Len(m) < 2 + m[2])
  <2>1. {l \in Messages!MessageLen(m) : l <= Len(m)} = {}
    BY <1>1, <1>4, <1>5
  <2>2. ~Messages!Malformed(m)
    BY <1>2, <1>4, <1>5
  <2> QED BY <1>5, <2>1, <2>2 DEF Allowed
<1>6. CASE /\ Takes(replies, IF auth THEN "auth_state" ELSE "request_state",
                    IF auth THEN "password" ELSE "no_auth", g, m, 2 + m[2])
           /\ Len(m) >= 2 /\ m[1] = 5 /\ Len(m) >= 2 + m[2]
  <2>1. 2 + m[2] \in {l \in Messages!MessageLen(m) : l <= Len(m)}
    BY <1>1, <1>4, <1>6
  <2> QED BY <1>2, <1>3, <1>6, <2>1 DEF Allowed
<1>7. CASE Refuses(replies, "open_state", g, Drop(m, 1)) /\ Len(m) >= 2 /\ m[1] # 5
  <2>1. Messages!WithoutField(m) = Drop(m, 1)
    BY DEF Messages!WithoutField, Messages!Cut, Drop
  <2> QED BY <1>2, <1>7, <2>1 DEF Allowed
<1> QED BY <1>5, <1>6, <1>7 DEF GreetingParsed

LEMMA CredentialsAllowed ==
    ASSUME tunnel.state = "auth_state", NEW m \in Seq(UInt8), NEW ok, NEW g,
           CredentialsParsed(replies, ok, g, m)
    PROVE  Allowed(g, m)
<1> DEFINE u == m[2]
           l == m[3 + u]
<1>1. Messages!MessageLen(m) = IF Len(m) < 2 \/ Len(m) < 3 + u THEN {} ELSE {3 + u + l}
  BY DEF Messages!MessageLen, Messages!CredentialsLen
<1>2. Messages!Malformed(m) <=>
        Len(m) >= 2 /\ (u > MaxField \/ (Len(m) >= 3 + u /\ l > MaxField))
  BY DEF Messages!Malformed
<1>3. Messages!After = "request_state" /\ Messages!Answer = "success"
  BY DEF Messages!After, Messages!Answer
<1>4. Len(m) \in Nat /\ (Len(m) >= 2 => u \in Nat) /\ MaxField \in Nat
  <2>1. Len(m) \in Nat
    BY LenProperties
  <2>2. Len(m) >= 2 => 2 \in 1..Len(m)
    BY <2>1
  <2> QED BY <2>1, <2>2, ByteAt, FieldAssumption
<1>5. Len(m) >= 2 /\ Len(m) >= 3 + u => l \in Nat
  <2>1. Len(m) >= 2 /\ Len(m) >= 3 + u => 3 + u \in 1..Len(m)
    BY <1>4
  <2> QED BY <2>1, ByteAt
<1> HIDE DEF l
<1>6. CASE /\ Waits(replies, "auth_state", g, m)
           /\ \/ Len(m) < 2
              \/ u <= MaxField /\ Len(m) < 3 + u
              \/ u <= MaxField /\ l <= MaxField /\ Len(m) < 3 + u + l
  <2> HIDE DEF u
  <2>1. {x \in Messages!MessageLen(m) : x <= Len(m)} = {}
    BY <1>1, <1>4, <1>5, <1>6
  <2>2. ~Messages!Malformed(m)
    BY <1>2, <1>4, <1>5, <1>6
  <2> QED BY <1>6, <2>1, <2>2 DEF Allowed
<1>7. CASE /\ Takes(replies, "request_state", "success", g, m, 3 + u + l)
           /\ u <= MaxField /\ l <= MaxField
           /\ Len(m) >= 2 /\ Len(m) >= 3 + u /\ Len(m) >= 3 + u + l
  <2>1. Len(m) >= 2
    BY <1>7
  <2> HIDE DEF u
  <2>2. 3 + u + l \in {x \in Messages!MessageLen(m) : x <= Len(m)}
    BY <1>1, <1>4, <1>5, <1>7, <2>1
  <2>3. ~Messages!Malformed(m)
    BY <1>2, <1>4, <1>5, <1>7, <2>1
  <2> QED BY <1>3, <1>7, <2>2, <2>3 DEF Allowed
<1> DEFINE left == Messages!WithoutField(m)
<1>8. left = IF u > MaxField THEN Drop(m, 2)
             ELSE IF l > MaxField THEN Messages!Without(m, 2 + u, 1) ELSE Messages!Without(m, 3 + u, l)
  BY DEF Messages!WithoutField, Messages!Cut, Drop, l
<1> HIDE DEF left
<1>9. CASE Refuses(replies, "auth_state", g, Drop(m, 2)) /\ Len(m) >= 2 /\ u > MaxField
  <2>1. Messages!Malformed(m)
    BY <1>2, <1>9
  <2>2. left = Drop(m, 2)
    BY <1>8, <1>9
  <2> QED BY <1>9, <2>1, <2>2 DEF Allowed, left
<1>10. CASE /\ Refuses(replies, "auth_state", g, Messages!Without(m, 2 + u, 1)) /\ Len(m) >= 2
            /\ u <= MaxField /\ Len(m) >= 3 + u /\ l > MaxField
  <2>1. Messages!Malformed(m)
    BY <1>2, <1>10
  <2>2. ~(u > MaxField)
    BY <1>4, <1>10
  <2>3. left = Messages!Without(m, 2 + u, 1)
    BY <1>8, <1>10, <2>2
  <2> QED BY <1>10, <2>1, <2>3 DEF Allowed, left
<1>11. CASE /\ Refuses(replies, "auth_state", g, Messages!Without(m, 3 + u, l)) /\ Len(m) >= 2
            /\ u <= MaxField /\ Len(m) >= 3 + u /\ l <= MaxField /\ Len(m) >= 3 + u + l
  <2>1. ~(u > MaxField) /\ ~(l > MaxField)
    BY <1>4, <1>5, <1>11
  <2>2. left = Messages!Without(m, 3 + u, l)
    BY <1>8, <2>1
  <2>3. {x \in Messages!MessageLen(m) : x <= Len(m)} # {}
    <3> HIDE DEF u
    <3>1. 3 + u + l \in {x \in Messages!MessageLen(m) : x <= Len(m)}
      BY <1>1, <1>4, <1>5, <1>11
    <3> QED BY <3>1
  <2> QED BY <1>11, <2>2, <2>3 DEF Allowed, left
<1> QED BY <1>6, <1>7, <1>9, <1>10, <1>11 DEF CredentialsParsed, u, l

LEMMA RequestAllowed ==
    ASSUME tunnel.state = "request_state", NEW m \in Seq(UInt8), NEW g, RequestParsed(replies, g, m)
    PROVE  Allowed(g, m)
<1>1. /\ Messages!MessageLen(m) = Messages!RequestLen(m)
      /\ Len(m) < 4 => Messages!RequestLen(m) = {}
      /\ Len(m) >= 4 /\ m[4] = 1 => Messages!RequestLen(m) = {10}
      /\ Len(m) >= 4 /\ m[4] = 4 => Messages!RequestLen(m) = {22}
      /\ Len(m) >= 4 /\ m[4] = 3 /\ Len(m) < 5 => Messages!RequestLen(m) = {}
      /\ Len(m) >= 5 /\ m[4] = 3 => Messages!RequestLen(m) = {5 + m[5] + 2}
  <2>1. Len(m) \in Nat
    BY LenProperties
  <2> QED BY <2>1 DEF Messages!MessageLen, Messages!RequestLen
<1>2. Messages!Malformed(m) <=> Len(m) >= 4 /\ (m[1] # 5 \/ m[2] # 1 \/ m[4] \notin {1, 3, 4})
  BY DEF Messages!Malformed
<1>3. Messages!After = "connected_state" /\ Messages!Answer = "connect"
  BY DEF Messages!After, Messages!Answer
<1>4. Len(m) \in Nat /\ (Len(m) >= 5 => m[5] \in Nat)
  <2>1. Len(m) \in Nat
    BY LenProperties
  <2>2. Len(m) >= 5 => 5 \in 1..Len(m)
    BY <2>1
  <2> QED BY <2>1, <2>2, ByteAt
<1>5. CASE /\ Waits(replies, "request_state", g, m)
           /\ \/ Len(m) < 4
              \/ /\ m[1] = 5 /\ m[2] = 1
                 /\ \/ m[4] = 1 /\ Len(m) < 10
                    \/ m[4] = 4 /\ Len(m) < 22
                    \/ m[4] = 3 /\ (Len(m) < 5 \/ Len(m) < 7 + m[5])
  <2>1. {x \in Messages!MessageLen(m) : x <= Len(m)} = {}
    <3>1. ~(Len(m) < 4) => Len(m) >= 4
      BY <1>4
    <3>2. ~(Len(m) < 5) => Len(m) >= 5
      BY <1>4
    <3> QED BY <1>1, <1>4, <1>5, <3>1, <3>2
  <2>2. ~Messages!Malformed(m)
    BY <1>2, <1>4, <1>5
  <2> QED BY <1>5, <2>1, <2>2 DEF Allowed
<1>6. CASE \E l \in Nat :
             /\ Takes(replies, "connected_state", "connect", g, m, l) /\ Len(m) >= l /\ Len(m) >= 4
             /\ m[1] = 5 /\ m[2] = 1
             /\ \/ m[4] = 1 /\ l = 10
                \/ m[4] = 4 /\ l = 22
                \/ m[4] = 3 /\ Len(m) >= 5 /\ l = 7 + m[5]
  <2>1. PICK l \in Nat :
             /\ Takes(replies, "connected_state", "connect", g, m, l) /\ Len(m) >= l /\ Len(m) >= 4
             /\ m[1] = 5 /\ m[2] = 1
             /\ \/ m[4] = 1 /\ l = 10
                \/ m[4] = 4 /\ l = 22
                \/ m[4] = 3 /\ Len(m) >= 5 /\ l = 7 + m[5]
    BY <1>6
  <2>2. l \in Messages!MessageLen(m)
    BY <1>1, <1>4, <2>1
  <2>3. l \in {x \in Messages!MessageLen(m) : x <= Len(m)}
    BY <1>4, <2>1, <2>2
  <2>4. ~Messages!Malformed(m)
    BY <1>2, <2>1
  <2> QED BY <1>3, <2>1, <2>3, <2>4 DEF Allowed
<1>7. CASE /\ Len(m) >= 4
           /\ \/ m[1] # 5 /\ Refuses(replies, "request_state", g, Drop(m, 1))
              \/ m[1] = 5 /\ m[2] # 1 /\ Refuses(replies, "request_state", g, Drop(m, 2))
              \/ m[1] = 5 /\ m[2] = 1 /\ m[4] \notin {1, 3, 4} /\ Refuses(replies, "request_state", g, m)
  <2>1. Messages!Malformed(m)
    BY <1>2, <1>7
  <2>2. Messages!WithoutField(m) = IF m[1] # 5 THEN Drop(m, 1) ELSE IF m[2] # 1 THEN Drop(m, 2) ELSE m
    BY DEF Messages!WithoutField, Messages!Cut, Drop
  <2> QED BY <1>7, <2>1, <2>2 DEF Allowed
<1> QED BY <1>5, <1>6, <1>7 DEF RequestParsed

----------------------------------------------------------------------------
LEMMA StateHandleSound ==
    ASSUME NEW h \in Records, h.res = "open", FieldsChecked(h.t), h.t.state \in HandshakeStates,
           h.t.read_count \in Labels(h.t)
    PROVE  Sound(StateHandle(h))
  BY OpenHandleSound, AuthHandleSound, RequestHandleSound DEF StateHandle, HandshakeStates

IInv == TypeOK /\ ResumesAtLabel

LEMMA InitInv ==
    ASSUME Init
    PROVE  IInv
<1>1. /\ rbuf \in Seq(UInt8) /\ wire \in Seq(UInt8) /\ tunnel.uname \in Seq(UInt8)
      /\ replies \in Seq({"password", "no_auth", "success", "connect"})
  BY DEF Init
<1>2. script \in Seq(Seq(UInt8))
  BY ScriptsAssumption DEF Init, UInt8
<1>3. tunnel \in Tunnel /\ tunnel.state = "open_state" /\ tunnel.read_count = 0
  BY DEF Init, Tunnel, HandshakeStates, UInt8
<1>4. FieldsChecked(tunnel)
  BY <1>3 DEF FieldsChecked
<1> QED BY <1>1, <1>2, <1>3, <1>4 DEF IInv, TypeOK, ResumesAtLabel, Labels, Init

LEMMA SendInv ==
    ASSUME IInv, Send
    PROVE  IInv'
<1>1. Head(script) \in Seq(UInt8) /\ Tail(script) \in Seq(Seq(UInt8))
  BY HeadTailProperties DEF IInv, TypeOK, Send
<1>2. wire \o Head(script) \in Seq(UInt8)
  BY <1>1, ConcatProperties DEF IInv, TypeOK
<1>3. TypeOK'
  BY <1>1, <1>2 DEF IInv, TypeOK, Send, setup
<1>4. ResumesAtLabel'
  BY DEF IInv, ResumesAtLabel, Send
<1> QED BY <1>3, <1>4 DEF IInv

LEMMA ReadInv ==
    ASSUME IInv, NEW n \in 0..Len(wire), NEW ok \in BOOLEAN, ReadHandle(n, ok)
    PROVE  IInv'
<1> DEFINE h == [t |-> tunnel, buf |-> rbuf \o SubSeq(wire, 1, n), out |-> replies,
                 ok |-> ok, res |-> "open"]
           g == StateHandle(h)
<1>1. rbuf \o SubSeq(wire, 1, n) \in Seq(UInt8) /\ Drop(wire, n) \in Seq(UInt8)
  <2>1. SubSeq(wire, 1, n) \in Seq(UInt8) /\ Drop(wire, n) \in Seq(UInt8)
    BY DropType DEF IInv, TypeOK
  <2> QED BY <2>1, ConcatProperties DEF IInv, TypeOK
<1>2. h \in Records /\ h.res = "open" /\ h.t = tunnel /\ FieldsChecked(h.t)
  BY <1>1 DEF Records, IInv, TypeOK, ReplyKinds
<1>3. Sound(g)
  <2> HIDE DEF h
  <2> QED BY <1>2, StateHandleSound DEF ReadHandle, IInv, ResumesAtLabel
<1>4. tunnel' = g.t /\ rbuf' = g.buf /\ replies' = g.out
      /\ status' \in IF g.res = "refused" THEN {"open", "closed"} ELSE {g.res}
  BY DEF ReadHandle, RefusalLeaves
<1> HIDE DEF g
<1>5. /\ tunnel' \in Tunnel /\ FieldsChecked(tunnel)' /\ rbuf' \in Seq(UInt8) /\ replies' \in Seq(ReplyKinds)
      /\ status' \in {"open", "closed", "aborted"}
      /\ status' # "aborted" /\ (status' = "open" => tunnel'.read_count \in Labels(tunnel'))
  <2>1. FieldsChecked(tunnel') <=> FieldsChecked(tunnel)'
    BY DEF FieldsChecked
  <2> QED BY <1>3, <1>4, <2>1 DEF Sound, Records
<1>6. wire' = Drop(wire, n) /\ UNCHANGED <<script, sent, auth, patient>>
  BY DEF ReadHandle, setup
<1> QED BY <1>1, <1>5, <1>6 DEF IInv, TypeOK, ResumesAtLabel, ReplyKinds

LEMMA NextInv ==
    ASSUME IInv, [Next]_vars
    PROVE  IInv'
<1>1. CASE Send
  BY <1>1, SendInv
<1>2. CASE ReadSome
  <2>1. PICK n \in 1..Len(wire), ok \in BOOLEAN : ReadHandle(n, ok)
    BY <1>2 DEF ReadSome
  <2>2. Len(wire) \in Nat
    BY LenProperties DEF IInv, TypeOK
  <2>3. n \in 0..Len(wire)
    BY <2>2
  <2> QED BY <2>1, <2>3, ReadInv
<1>3. CASE \E ok \in BOOLEAN : ReadHandle(0, ok)
  <2>1. 0 \in 0..Len(wire)
    BY LenProperties DEF IInv, TypeOK
  <2> QED BY <1>3, <2>1, ReadInv
<1>4. CASE UNCHANGED vars
  BY <1>4 DEF vars, setup, IInv, TypeOK, ResumesAtLabel
<1> QED BY <1>1, <1>2, <1>3, <1>4 DEF Next

LEMMA Inductive == Spec => []IInv
<1>1. Init => IInv
  BY InitInv
<1>2. IInv /\ [Next]_vars => IInv'
  BY NextInv
<1> QED BY <1>1, <1>2, PTL DEF Spec

\* The fields of the tunnel, the buffer and the answers keep their types, for every set of
\* scripts the peers may follow.
THEOREM TypeCorrect == Spec => []TypeOK
<1>1. IInv => TypeOK
  BY DEF IInv
<1> QED BY <1>1, Inductive, PTL

\* The assert(0) of the three handlers is never reached: for every bytes a peer may send and
\* every way they are split, read_count is one of the counts the state's handler resumes at,
\* also after a refusal that has closed a paired client and not the connection.
THEOREM NeverAborts == Spec => []ResumesAtLabel
<1>1. IInv => ResumesAtLabel
  BY DEF IInv
<1> QED BY <1>1, Inductive, PTL
----------------------------------------------------------------------------
(* The handlers implement SocksMessages.                                   *)

LEMMA ParsedType ==
    ASSUME NEW t \in Tunnel
    PROVE  Parsed(t) \in Seq(UInt8)
<1> DEFINE a == t.aver
           u == t.ulen
           name == t.uname
           l == t.plen
           one == <<l>>
           two == <<a, u>>
           n == IF t.read_count > 2 THEN name ELSE <<>>
           p == IF t.read_count > 2 + t.ulen THEN one ELSE <<>>
           four == <<5, 1, t.rsv, t.atyp>>
           d == IF t.read_count > 4 THEN <<t.domainlen>> ELSE <<>>
<1>1. /\ one \in Seq(UInt8) /\ two \in Seq(UInt8) /\ name \in Seq(UInt8) /\ four \in Seq(UInt8)
      /\ <<t.domainlen>> \in Seq(UInt8) /\ <<>> \in Seq(UInt8) /\ <<5, t.nmethods>> \in Seq(UInt8)
  BY DEF Tunnel, UInt8
<1>2. n \in Seq(UInt8) /\ p \in Seq(UInt8) /\ d \in Seq(UInt8)
  <2> HIDE DEF one, name
  <2> QED BY <1>1
<1>3. \/ Parsed(t) = <<>> \/ Parsed(t) = <<5, t.nmethods>>
      \/ Parsed(t) = (two \o n) \o p \/ Parsed(t) = four \o d
  BY DEF Parsed
<1> HIDE DEF two, n, p, four, d
<1>4. (two \o n) \o p \in Seq(UInt8) /\ four \o d \in Seq(UInt8)
  BY <1>1, <1>2, ConcatProperties
<1> QED BY <1>1, <1>3, <1>4

LEMMA StateHandleAllowed ==
    ASSUME NEW h \in Records, h.res = "open", FieldsChecked(h.t), h.t.state \in HandshakeStates,
           h.t.read_count \in Labels(h.t), h.t = tunnel, h.out = replies,
           NEW m \in Seq(UInt8), m = Parsed(h.t) \o h.buf
    PROVE  Allowed(StateHandle(h), m)
<1>1. CASE h.t.state = "open_state"
  <2>1. GreetingParsed(replies, OpenHandle(h), m)
    BY <1>1, OpenHandleParse
  <2> QED BY <1>1, <2>1, GreetingAllowed DEF StateHandle
<1>2. CASE h.t.state = "auth_state"
  <2>1. CredentialsParsed(replies, h.ok, AuthHandle(h), m)
    BY <1>2, AuthHandleParse
  <2> QED BY <1>2, <2>1, CredentialsAllowed DEF StateHandle
<1>3. CASE h.t.state = "request_state"
  <2>1. RequestParsed(replies, RequestHandle(h), m)
    BY <1>3, RequestHandleParse
  <2> QED BY <1>3, <2>1, RequestAllowed DEF StateHandle
<1> QED BY <1>1, <1>2, <1>3 DEF HandshakeStates

Inbox == IF status = "open" THEN Parsed(tunnel) \o rbuf ELSE <<>>

LEMMA NextInbox == Inbox' = IF status' = "open" THEN Parsed(tunnel') \o rbuf' ELSE <<>>
<1>1. Parsed(tunnel)' = Parsed(tunnel')
  BY DEF Parsed
<1> QED BY <1>1 DEF Inbox

\* A call of a handler is a step of SocksMessages that receives the same bytes.
LEMMA ReadReceives ==
    ASSUME IInv, NEW n \in 0..Len(wire), NEW ok \in BOOLEAN, ReadHandle(n, ok)
    PROVE  Messages!Receive(n)
<1> DEFINE some == SubSeq(wire, 1, n)
           b == rbuf \o some
           h == [t |-> tunnel, buf |-> b, out |-> replies, ok |-> ok, res |-> "open"]
           g == StateHandle(h)
           p == Parsed(tunnel)
           m == p \o b
           complete == {l \in Messages!MessageLen(m) : l <= Len(m)}
<1>1. p \in Seq(UInt8) /\ rbuf \in Seq(UInt8) /\ some \in Seq(UInt8) /\ b \in Seq(UInt8)
  <2>1. wire \in Seq(UInt8) /\ rbuf \in Seq(UInt8) /\ tunnel \in Tunnel
    BY DEF IInv, TypeOK
  <2>2. some \in Seq(UInt8) /\ p \in Seq(UInt8)
    BY <2>1, DropType, ParsedType
  <2> QED BY <2>1, <2>2, ConcatProperties
<1>2. m \in Seq(UInt8)
  BY <1>1, ConcatProperties
<1>3. m = (p \o rbuf) \o some
  <2> HIDE DEF p, some
  <2>1. p \in Seq(UInt8) /\ rbuf \in Seq(UInt8) /\ some \in Seq(UInt8)
    BY <1>1
  <2>2. (p \o rbuf) \o some = p \o (rbuf \o some)
    BY ONLY <2>1, ConcatAssociative
  <2> QED BY <2>2
<1>4. h \in Records /\ h.res = "open" /\ h.t = tunnel /\ h.out = replies /\ h.buf = b
  BY <1>1 DEF Records, IInv, TypeOK, ReplyKinds
<1>5. status = "open" /\ tunnel.state \in HandshakeStates /\ wire' = Drop(wire, n) /\ auth' = auth
      /\ tunnel' = g.t /\ rbuf' = g.buf /\ replies' = g.out
      /\ status' \in IF g.res = "refused" THEN RefusalLeaves(n) ELSE {g.res}
  BY DEF ReadHandle, setup
<1>6. Allowed(g, m)
  <2>1. FieldsChecked(tunnel) /\ tunnel.read_count \in Labels(tunnel)
    BY <1>5 DEF IInv, TypeOK, ResumesAtLabel
  <2> HIDE DEF h, b, m
  <2> QED BY <1>2, <1>4, <1>5, <2>1, StateHandleAllowed DEF m
<1> HIDE DEF g, h, b, p, some
<1>7. Inbox = p \o rbuf
  BY <1>5 DEF Inbox, p
<1>8. m = Inbox \o some
  BY <1>3, <1>7
<1> HIDE DEF m
<1>9. Messages!Handling /\ wire' = Messages!Cut(wire, n)
  BY <1>5 DEF Messages!Handling, Messages!Cut, Drop, HandshakeStates
<1>10. CASE Waits(replies, tunnel.state, g, m) /\ ~Messages!Malformed(m) /\ complete = {}
  <2>1. Inbox' = m /\ tunnel'.state = tunnel.state /\ replies' = replies /\ status' = status
    BY <1>5, <1>10, NextInbox DEF Waits
  <2> QED BY <1>5, <1>8, <1>9, <1>10, <2>1 DEF Messages!Receive, Inbox, some
<1>11. CASE /\ ~Messages!Malformed(m)
            /\ \E l \in complete : Takes(replies, Messages!After, Messages!Answer, g, m, l)
  <2>1. PICK l \in complete : Takes(replies, Messages!After, Messages!Answer, g, m, l)
    BY <1>11
  <2>2. /\ status' = "open" /\ rbuf' = Drop(m, l) /\ tunnel'.read_count = 0
        /\ tunnel'.state = Messages!After /\ replies' = Append(replies, Messages!Answer)
    BY <1>5, <2>1 DEF Takes
  <2>3. Inbox' = Messages!Cut(m, l)
    <3>1. rbuf' \in Seq(UInt8)
      BY ReadInv DEF IInv, TypeOK
    <3>2. Parsed(tunnel') = <<>> /\ <<>> \o rbuf' = rbuf'
      BY <2>2, <3>1, ConcatEmptySeq DEF Parsed
    <3> QED BY <2>2, <3>2, NextInbox DEF Messages!Cut, Drop
  <2>4. status' = status
    BY <1>5, <2>2
  <2> QED BY <1>5, <1>8, <1>9, <1>11, <2>2, <2>3, <2>4 DEF Messages!Receive, Inbox, some
<1>12. CASE /\ Refuses(replies, tunnel.state, g, Messages!WithoutField(m))
            /\ Messages!Malformed(m) \/ (complete # {} /\ tunnel.state = "auth_state")
  <2>1. /\ tunnel'.state = tunnel.state /\ replies' = replies /\ status' \in RefusalLeaves(n)
        /\ Parsed(tunnel') \o rbuf' = Messages!WithoutField(m)
    BY <1>5, <1>12 DEF Refuses
  <2>2. CASE status' = "closed"
    <3>1. Inbox' = <<>>
      BY <2>2, NextInbox
    <3> QED BY <1>5, <1>8, <1>9, <1>12, <2>1, <2>2, <3>1 DEF Messages!Receive, Inbox, some
  <2>3. CASE status' = "open" /\ n = 0
    <3>1. Inbox' = Messages!WithoutField(m) /\ status' = status
      BY <1>5, <2>1, <2>3, NextInbox
    <3> QED BY <1>5, <1>8, <1>9, <1>12, <2>1, <2>3, <3>1 DEF Messages!Receive, Inbox, some
  <2> QED BY <2>1, <2>2, <2>3 DEF RefusalLeaves
<1> QED BY <1>6, <1>10, <1>11, <1>12 DEF Allowed

MessageVars == <<auth, tunnel.state, wire, Inbox, replies, status>>

LEMMA SendSends ==
    ASSUME IInv, Send
    PROVE  Messages!Send \/ UNCHANGED MessageVars
<1> DEFINE x == Head(script)
<1>1. x \in Seq(UInt8) /\ wire \in Seq(UInt8)
  BY HeadTailProperties DEF IInv, TypeOK, Send
<1>2. wire' = wire \o x /\ auth' = auth /\ tunnel' = tunnel /\ replies' = replies /\ status' = status
      /\ rbuf' = rbuf
  BY DEF Send, setup
<1>3. Inbox' = Inbox
  BY <1>2, NextInbox DEF Inbox
<1> HIDE DEF x
<1>4. wire' \in Seq(UInt8) /\ Len(wire') = Len(wire) + Len(x) /\ Len(wire) \in Nat /\ Len(x) \in Nat
      /\ \A i \in 1..Len(wire) : wire'[i] = wire[i]
  BY <1>1, <1>2, InFront
<1>5. CASE Len(x) = 0
  <2>1. x = <<>>
    BY <1>1, <1>5, EmptySeq
  <2>2. wire' = wire
    BY <1>1, <1>2, <2>1, ConcatEmptySeq
  <2> QED BY <1>2, <1>3, <2>2 DEF MessageVars
<1>6. CASE Len(x) # 0
  <2>1. Len(wire') > Len(wire) /\ Len(wire) \in 0..Len(wire')
    BY <1>4, <1>6
  <2>2. SubSeq(wire', 1, Len(wire)) = wire
    <3> DEFINE s == SubSeq(wire', 1, Len(wire))
    <3>1. s \in Seq(UInt8) /\ Len(s) = Len(wire) /\ \A i \in 1..Len(wire) : s[i] = wire'[i]
      BY <1>4, <2>1, CutParts
    <3> HIDE DEF s
    <3>2. s = wire
      BY <1>1, <1>4, <3>1, SeqEqual
    <3> QED BY <3>2 DEF s
  <2> QED BY <1>2, <1>3, <2>1, <2>2 DEF Messages!Send, Inbox
<1> QED BY <1>4, <1>5, <1>6

LEMMA NextMaps ==
    ASSUME IInv, [Next]_vars
    PROVE  Messages!Next \/ UNCHANGED MessageVars
<1>1. CASE Send
  BY <1>1, SendSends DEF Messages!Next
<1>2. CASE ReadSome
  <2>1. PICK n \in 1..Len(wire), ok \in BOOLEAN : ReadHandle(n, ok)
    BY <1>2 DEF ReadSome
  <2>2. Len(wire) \in Nat
    BY LenProperties DEF IInv, TypeOK
  <2>3. n \in 0..Len(wire)
    BY <2>2
  <2> QED BY <2>1, <2>3, ReadReceives DEF Messages!Next
<1>3. CASE \E ok \in BOOLEAN : ReadHandle(0, ok)
  <2>1. 0 \in 0..Len(wire)
    BY LenProperties DEF IInv, TypeOK
  <2> QED BY <1>3, <2>1, ReadReceives DEF Messages!Next
<1>4. CASE UNCHANGED vars
  <2>1. Inbox' = Inbox
    BY <1>4, NextInbox DEF vars, Inbox
  <2> QED BY <1>4, <2>1 DEF vars, setup, MessageVars
<1> QED BY <1>1, <1>2, <1>3, <1>4 DEF Next

LEMMA InitMaps ==
    ASSUME Init
    PROVE  Messages!Init
<1>1. Parsed(tunnel) = <<>> /\ rbuf = <<>> /\ tunnel.state = "open_state"
  BY DEF Init, Parsed
<1>2. <<>> \o <<>> = <<>>
  BY EmptySeq, ConcatEmptySeq
<1> QED BY <1>1, <1>2 DEF Init, Messages!Init

\* What the three handlers make of a connection is what SocksMessages promises, for every
\* sequence of bytes and every way they are split into reads: a message is answered, or
\* refused, by the call that first sees all of it, and by no other.  A refusal closes the
\* connection unless the call was made for a paired client's event; then the wrong field is
\* left out and the handshake goes on with the bytes that remain.
THEOREM Parses == Spec => ParsesMessages
<1>1. Init => Messages!Init
  BY InitMaps
<1>2. IInv /\ [Next]_vars => [Messages!Next]_<<auth, tunnel.state, wire,
          IF status = "open" THEN Parsed(tunnel) \o rbuf ELSE <<>>, replies, status>>
  BY NextMaps DEF MessageVars, Inbox
<1> QED BY <1>1, <1>2, Inductive, PTL DEF Spec, ParsesMessages, Messages!Spec
=============================================================================
