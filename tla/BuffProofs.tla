----------------------------- MODULE BuffProofs -----------------------------
(***************************************************************************)
(* Proofs about Buff for every initial capacity and every size of int: the *)
(* indices stay inside the block, and the two buffers are queues.          *)
(***************************************************************************)
EXTENDS Buff, SequenceTheorems, TLAPS

USE CapAssumption

LEMMA GoodFields ==
    ASSUME NEW b, Good(b)
    PROVE  /\ b.cap \in 1..IntMax
           /\ b.read_index \in 0..b.write_index /\ b.write_index \in 0..b.cap
           /\ b.data \in [0..(b.cap - 1) -> Cell]
           /\ b \in Blocks(b.cap)
<1>1. PICK n \in 1..IntMax : b \in Blocks(n)
  BY DEF Good
<1> QED BY <1>1 DEF Good, Blocks

LEMMA GoodIntro ==
    ASSUME NEW c \in 1..IntMax, NEW b \in Blocks(c), b.read_index <= b.write_index
    PROVE  Good(b)
  BY DEF Good, Blocks

\* The readable bytes form a sequence.
LEMMA ContentSeq ==
    ASSUME NEW b, Good(b)
    PROVE  /\ Content(b) \in Seq(Cell) /\ Len(Content(b)) = Readable(b)
           /\ Readable(b) \in 0..b.cap
           /\ \A i \in 1..Readable(b) : Content(b)[i] = b.data[b.read_index + i - 1]
<1>1. Readable(b) \in 0..b.cap /\ b.cap \in Nat
  BY GoodFields DEF Readable
<1>2. \A i \in 1..Readable(b) : b.data[b.read_index + i - 1] \in Cell
  BY GoodFields, SMTT(30) DEF Readable
<1>3. Content(b) \in [1..Readable(b) -> Cell]
  BY <1>2 DEF Content
<1>4. Content(b) \in Seq(Cell)
  BY <1>1, <1>3, SeqDef
<1>5. Len(Content(b)) = Readable(b)
  BY <1>1, <1>3
<1> QED BY <1>1, <1>4, <1>5 DEF Content

\* Whatever doubling reaches, it starts from or has doubled: the other capacities are a
\* set that holds the first one and is closed.
LEMMA DoublingsStep ==
    ASSUME NEW c \in 1..IntMax, NEW d \in Doublings(c)
    PROVE  d \in c..IntMax /\ (d = c \/ \E x \in Doublings(c) : d = 2 * x)
<1>1. Doublings(c) = {x \in c..IntMax : \A S \in SUBSET (c..IntMax) : ClosedFrom(c, S) => x \in S}
  BY DEF Doublings, Reachable
<1>2. d \in c..IntMax /\ \A S \in SUBSET (c..IntMax) : ClosedFrom(c, S) => d \in S
  BY <1>1
<1>3. ASSUME d # c, \A x \in Doublings(c) : d # 2 * x
      PROVE  FALSE
  <2> DEFINE S == Doublings(c) \ {d}
  <2>1. S \in SUBSET (c..IntMax)
    BY <1>1
  <2>2. c \in Doublings(c)
    BY <1>1 DEF ClosedFrom
  <2>3. \A x \in Doublings(c) : 2 * x <= IntMax => 2 * x \in Doublings(c)
    <3>1. SUFFICES ASSUME NEW x \in Doublings(c), 2 * x <= IntMax,
                          NEW T \in SUBSET (c..IntMax), ClosedFrom(c, T)
                   PROVE  2 * x \in c..IntMax /\ 2 * x \in T
      <4>1. \A x \in Doublings(c) : x \in c..IntMax
        BY <1>1
      <4>2. \A x \in Doublings(c) : 2 * x <= IntMax => 2 * x \in c..IntMax
        BY <4>1
      <4> QED BY <1>1, <4>2
    <3>2. x \in c..IntMax /\ x \in T
      BY <1>1, <3>1
    <3> QED BY <3>1, <3>2 DEF ClosedFrom
  <2>4. ClosedFrom(c, S)
    BY <1>3, <2>2, <2>3 DEF ClosedFrom
  <2>5. d \notin S
    OBVIOUS
  <2> QED BY <1>2, <2>1, <2>4, <2>5
<1> QED BY <1>2, <1>3

\* Growing changes the capacity and nothing that is read.
LEMMA ExpandedKeeps ==
    ASSUME NEW b, Good(b), NEW c \in b.cap..IntMax
    PROVE  /\ Good(Expanded(b, c)) /\ Content(Expanded(b, c)) = Content(b)
           /\ Expanded(b, c).cap = c
           /\ Expanded(b, c).read_index = b.read_index /\ Expanded(b, c).write_index = b.write_index
<1> DEFINE d == [i \in 0..(c - 1) |-> IF i < b.cap THEN b.data[i] ELSE Junk]
           e == Expanded(b, c)
<1>1. c \in 1..IntMax /\ d \in [0..(c - 1) -> Cell]
  BY GoodFields DEF Cell
<1>2. /\ e.cap = c /\ e.data = d
      /\ e.read_index = b.read_index /\ e.write_index = b.write_index
      /\ e \in Blocks(c)
  <2> HIDE DEF d
  <2>1. e = [b EXCEPT !.cap = c, !.data = d]
    BY DEF Expanded, d
  <2>2. b.cap \in Nat /\ c \in Nat /\ b.cap <= c /\ b \in Blocks(b.cap)
    BY GoodFields
  <2>3. /\ e.cap = c /\ e.data = d
        /\ e.read_index = b.read_index /\ e.write_index = b.write_index
    BY <2>1, <2>2 DEF Blocks
  <2>4. b.read_index \in 0..c /\ b.write_index \in 0..c
    BY <2>2, GoodFields
  <2>5. e \in Blocks(c)
    <3> HIDE DEF e
    <3> QED BY <1>1, <2>1, <2>2, <2>4 DEF Blocks
  <2> QED BY <2>3, <2>5
<1>3. \A i \in 0..(b.cap - 1) : d[i] = b.data[i]
  BY GoodFields, <1>1
<1> HIDE DEF d, e
<1>4. Good(e)
  BY <1>1, <1>2, GoodFields, GoodIntro
<1>5. Readable(e) = Readable(b)
  BY <1>2 DEF Readable
<1>6. \A i \in 1..Readable(b) : e.data[e.read_index + i - 1] = b.data[b.read_index + i - 1]
  BY <1>2, <1>3, GoodFields, SMTT(30) DEF Readable
<1>7. Content(e) = Content(b)
  BY <1>4, <1>5, <1>6, ContentSeq, SeqEqual
<1> QED BY <1>2, <1>4, <1>7 DEF e

\* So does moving the readable bytes to the front.
LEMMA CompactedKeeps ==
    ASSUME NEW b, Good(b)
    PROVE  /\ Good(Compacted(b)) /\ Content(Compacted(b)) = Content(b)
           /\ Compacted(b).cap = b.cap
           /\ Compacted(b).read_index = 0 /\ Compacted(b).write_index = Readable(b)
<1> DEFINE d == [i \in 0..(b.cap - 1) |->
                   IF i < Readable(b) THEN b.data[b.read_index + i] ELSE b.data[i]]
           e == Compacted(b)
<1>1. Readable(b) \in 0..b.cap
  BY ContentSeq
<1>2. d \in [0..(b.cap - 1) -> Cell]
  BY GoodFields, SMTT(30) DEF Readable
<1>3. /\ e.cap = b.cap /\ e.data = d
      /\ e.read_index = 0 /\ e.write_index = Readable(b)
      /\ e \in Blocks(b.cap)
  <2> HIDE DEF d
  <2>1. e = [b EXCEPT !.read_index = 0, !.write_index = Readable(b), !.data = d]
    BY DEF Compacted, d
  <2>2. b \in Blocks(b.cap) /\ b.cap \in Nat
    BY GoodFields
  <2> HIDE DEF e
  <2>3. /\ e.cap = b.cap /\ e.data = d
        /\ e.read_index = 0 /\ e.write_index = Readable(b)
    BY <2>1, <2>2 DEF Blocks
  <2>4. e \in Blocks(b.cap)
    <3> DEFINE rd == Readable(b)
    <3>1. 0 \in 0..b.cap /\ rd \in 0..b.cap /\ e = [b EXCEPT !.read_index = 0, !.write_index = rd, !.data = d]
      BY <1>1, <2>1, <2>2
    <3> HIDE DEF rd
    <3> QED BY <1>2, <2>2, <3>1 DEF Blocks
  <2> QED BY <2>3, <2>4
<1>4. \A i \in 1..Readable(b) : d[i - 1] = b.data[b.read_index + i - 1]
  BY <1>1, GoodFields DEF Readable
<1> HIDE DEF d, e
<1>5. Good(e)
  BY <1>1, <1>2, <1>3, GoodFields, GoodIntro
<1>6. Readable(e) = Readable(b)
  BY <1>1, <1>3, GoodFields DEF Readable
<1>7. \A i \in 1..Readable(b) : e.data[e.read_index + i - 1] = b.data[b.read_index + i - 1]
  BY <1>3, <1>4
<1>8. Content(e) = Content(b)
  BY <1>5, <1>6, <1>7, ContentSeq, SeqEqual
<1> QED BY <1>3, <1>5, <1>8 DEF e

\* What is copied behind the write index is read after everything that was there.
LEMMA AppendedAppends ==
    ASSUME NEW b, Good(b), NEW s \in Seq(Cell), Writable(b) >= Len(s)
    PROVE  Good(Appended(b, s)) /\ Content(Appended(b, s)) = Content(b) \o s
<1> DEFINE n == Len(s)
           w == b.write_index
           d == [i \in 0..(b.cap - 1) |-> IF i \in w..(w + n - 1) THEN s[i - w + 1] ELSE b.data[i]]
           e == Appended(b, s)
<1>1. n \in Nat /\ w + n <= b.cap /\ w \in Nat /\ b.cap \in Nat
  BY GoodFields, LenProperties DEF Writable
<1>2. \A i \in 1..n : s[i] \in Cell
  BY ElementOfSeq
<1>3. d \in [0..(b.cap - 1) -> Cell]
  <2>1. \A i \in 0..(b.cap - 1) : i \in w..(w + n - 1) => i - w + 1 \in 1..n
    BY <1>1
  <2> HIDE DEF n, w
  <2> QED BY <1>2, <2>1, GoodFields
<1>4. /\ e.cap = b.cap /\ e.data = d
      /\ e.read_index = b.read_index /\ e.write_index = w + n
      /\ e \in Blocks(b.cap)
  <2> HIDE DEF d
  <2>1. e = [b EXCEPT !.write_index = w + n, !.data = d]
    BY DEF Appended, d
  <2>2. w + n \in 0..b.cap
    BY <1>1
  <2> HIDE DEF e, w, n
  <2> QED BY <1>3, <2>1, <2>2, GoodFields DEF Blocks
<1>5. /\ \A i \in 0..(w - 1) : d[i] = b.data[i]
      /\ \A i \in 1..n : d[w + i - 1] = s[i]
  <2> HIDE DEF n, w
  <2>1. \A i \in 0..(w - 1) : i \in 0..(b.cap - 1) /\ i \notin w..(w + n - 1)
    BY <1>1
  <2>2. \A i \in 1..n : /\ w + i - 1 \in 0..(b.cap - 1) /\ w + i - 1 \in w..(w + n - 1)
                         /\ (w + i - 1) - w + 1 = i
    BY <1>1
  <2> QED BY <2>1, <2>2
<1> HIDE DEF d, e, n, w
<1>6. Good(e)
  <2>1. w + n \in 0..b.cap /\ b.read_index \in 0..(w + n)
    BY <1>1, GoodFields DEF w
  <2> QED BY <1>3, <1>4, <2>1, GoodFields, GoodIntro
<1>7. Readable(e) = Readable(b) + n
  BY <1>1, <1>4, GoodFields DEF Readable, w
<1>8. /\ Content(b) \o s \in Seq(Cell) /\ Len(Content(b) \o s) = Readable(b) + n
      /\ \A i \in 1..(Readable(b) + n) :
           (Content(b) \o s)[i] = IF i <= Readable(b) THEN Content(b)[i] ELSE s[i - Readable(b)]
  <2> DEFINE q == Content(b)
  <2>1. q \in Seq(Cell) /\ Len(q) = Readable(b)
    BY ContentSeq
  <2> HIDE DEF q
  <2>2. /\ q \o s \in Seq(Cell) /\ Len(q \o s) = Len(q) + Len(s)
        /\ \A i \in 1..(Len(q) + Len(s)) : (q \o s)[i] = IF i <= Len(q) THEN q[i] ELSE s[i - Len(q)]
    BY <2>1, ConcatProperties
  <2> QED BY <2>1, <2>2 DEF n, q
<1>9. ASSUME NEW i \in 1..(Readable(b) + n)
      PROVE  Content(e)[i] = (Content(b) \o s)[i]
  <2>1. Content(e)[i] = d[b.read_index + i - 1]
    <3>1. \A j \in 1..Readable(e) : Content(e)[j] = e.data[e.read_index + j - 1]
      BY <1>6, ContentSeq
    <3> QED BY <1>4, <1>7, <3>1
  <2> DEFINE rd == Readable(b)
             r == b.read_index
  <2>2. rd \in Nat /\ r \in Nat /\ rd = w - r /\ w \in Nat /\ n \in Nat
    BY <1>1, GoodFields DEF Readable, w
  <2>3. i \in 1..(rd + n)
    OBVIOUS
  <2>4. CASE i <= rd
    <3>1. i \in 1..rd /\ r + i - 1 \in 0..(w - 1)
      <4> HIDE DEF rd, r
      <4> QED BY <2>2, <2>3, <2>4
    <3>2. Content(b)[i] = b.data[r + i - 1]
      BY <3>1, ContentSeq
    <3> QED BY <1>5, <1>8, <2>1, <2>4, <3>1, <3>2
  <2>5. CASE ~(i <= rd)
    <3>1. i - rd \in 1..n /\ r + i - 1 = w + (i - rd) - 1
      <4> HIDE DEF rd, r
      <4> QED BY <2>2, <2>3, <2>5
    <3>2. d[w + (i - rd) - 1] = s[i - rd]
      BY <1>5, <3>1
    <3>3. (Content(b) \o s)[i] = s[i - rd]
      BY <1>8, <2>5
    <3> QED BY <2>1, <3>1, <3>2, <3>3
  <2> QED BY <2>4, <2>5
<1>10. Content(e) = Content(b) \o s
  BY <1>6, <1>7, <1>8, <1>9, ContentSeq, SeqEqual
<1> QED BY <1>6, <1>10 DEF e

\* buff_write moves the readable bytes only when that makes room.
LEMMA StoredAppends ==
    ASSUME NEW b, Good(b), NEW s \in Seq(Cell), Fits(b, b.cap, Len(s))
    PROVE  Good(Stored(b, s)) /\ Content(Stored(b, s)) = Content(b) \o s
<1>1. CASE Writable(b) >= Len(s)
  BY <1>1, AppendedAppends DEF Stored
<1>2. CASE ~(Writable(b) >= Len(s))
  <2> DEFINE m == Compacted(b)
  <2>1. Good(m) /\ Content(m) = Content(b) /\ m.cap = b.cap /\ m.write_index = Readable(b)
    BY CompactedKeeps
  <2>2. Writable(m) >= Len(s)
    <3>1. /\ Len(s) \in Nat /\ b.cap \in Nat /\ b.read_index \in Nat /\ b.write_index \in Nat
          /\ b.read_index + (b.cap - b.write_index) >= Len(s)
      BY GoodFields, LenProperties DEF Fits, Prependable
    <3> QED BY <2>1, <3>1 DEF Writable, Readable
  <2> HIDE DEF m
  <2>3. Good(Appended(m, s)) /\ Content(Appended(m, s)) = Content(b) \o s
    BY <2>1, <2>2, AppendedAppends
  <2> QED BY <1>2, <2>3 DEF Stored, m
<1> QED BY <1>1, <1>2

\* A successful buff_write appends; a failed one changes nothing that is read.
LEMMA WriteAppends ==
    ASSUME NEW b, Good(b), NEW s \in Seq(Cell), NEW e \in WriteSucceeds(b, s)
    PROVE  Good(e) /\ Content(e) = Content(b) \o s
<1>1. PICK c \in Doublings(b.cap) : Fits(b, c, Len(s)) /\ e = Stored(Expanded(b, c), s)
  BY DEF WriteSucceeds
<1>2. c \in b.cap..IntMax
  BY <1>1, GoodFields, DoublingsStep
<1> DEFINE x == Expanded(b, c)
<1>3. /\ Good(x) /\ Content(x) = Content(b) /\ x.cap = c
      /\ x.read_index = b.read_index /\ x.write_index = b.write_index
  BY <1>2, ExpandedKeeps
<1>4. Fits(x, x.cap, Len(s))
  BY <1>1, <1>3 DEF Fits, Prependable
<1> HIDE DEF x
<1>5. Good(Stored(x, s)) /\ Content(Stored(x, s)) = Content(b) \o s
  BY <1>3, <1>4, StoredAppends
<1> QED BY <1>1, <1>5 DEF x

LEMMA FailureKeeps ==
    ASSUME NEW b, Good(b), NEW n, NEW e \in WriteFails(b, n)
    PROVE  Good(e) /\ Content(e) = Content(b)
<1>1. PICK c \in Doublings(b.cap) : e = Expanded(b, c)
  BY DEF WriteFails
<1>2. c \in b.cap..IntMax
  BY <1>1, GoodFields, DoublingsStep
<1> QED BY <1>1, <1>2, ExpandedKeeps

\* buff_read and buff_writefd drop bytes from the front.
LEMMA SkippedDrops ==
    ASSUME NEW b, Good(b), NEW n \in 0..Readable(b)
    PROVE  Good(Skipped(b, n)) /\ Content(Skipped(b, n)) = Queue!From(Content(b), n)
<1> DEFINE e == Skipped(b, n)
           r == b.read_index
           q == Content(b)
<1>1. /\ b \in Blocks(b.cap) /\ b.cap \in 1..IntMax /\ n \in Nat /\ r \in Nat
      /\ b.write_index \in 0..b.cap /\ r + n <= b.write_index
  BY GoodFields DEF Readable
<1>2. /\ e.cap = b.cap /\ e.data = b.data /\ e.read_index = r + n
      /\ e.write_index = b.write_index /\ e \in Blocks(b.cap)
  <2>1. e = [b EXCEPT !.read_index = r + n]
    BY DEF Skipped
  <2>2. r + n \in 0..b.cap
    BY <1>1
  <2> HIDE DEF e, r
  <2> QED BY <1>1, <2>1, <2>2 DEF Blocks
<1>3. Good(e)
  <2> HIDE DEF e
  <2> QED BY <1>1, <1>2, GoodIntro
<1>4. Readable(e) = Readable(b) - n /\ Readable(b) \in Nat
  <2> HIDE DEF e
  <2> QED BY <1>1, <1>2 DEF Readable
<1>5. /\ q \in Seq(Cell) /\ Len(q) = Readable(b)
      /\ \A i \in 1..Readable(b) : q[i] = b.data[r + i - 1]
  BY ContentSeq
<1>6. /\ Queue!From(q, n) \in Seq(Cell) /\ Len(Queue!From(q, n)) = Readable(b) - n
      /\ \A i \in 1..(Readable(b) - n) : Queue!From(q, n)[i] = q[n + i]
  <2> HIDE DEF q
  <2> DEFINE rd == Readable(b)
  <2>1. rd \in Nat /\ n \in Nat /\ n <= rd /\ Len(q) = rd
    BY <1>4, <1>5
  <2> HIDE DEF rd
  <2>2. n + 1 \in Int /\ rd \in Int /\ \A i \in (n + 1)..rd : q[i] \in Cell
    BY <1>5, <2>1, ElementOfSeq
  <2>3. /\ SubSeq(q, n + 1, rd) \in Seq(Cell)
        /\ Len(SubSeq(q, n + 1, rd)) = IF n + 1 <= rd THEN rd - (n + 1) + 1 ELSE 0
        /\ \A i \in 1..(rd - (n + 1) + 1) : SubSeq(q, n + 1, rd)[i] = q[(n + 1) + i - 1]
    BY <2>2, SubSeqProperties
  <2>4. \A i \in 1..(rd - n) : (n + 1) + i - 1 = n + i /\ i \in 1..(rd - (n + 1) + 1)
    BY <2>1
  <2>5. (IF n + 1 <= rd THEN rd - (n + 1) + 1 ELSE 0) = rd - n
    BY <2>1
  <2>6. Queue!From(q, n) = SubSeq(q, n + 1, rd)
    BY <2>1 DEF Queue!From
  <2> QED BY <2>3, <2>4, <2>5, <2>6 DEF rd
<1>7. /\ Content(e) \in Seq(Cell) /\ Len(Content(e)) = Readable(b) - n
      /\ \A i \in 1..(Readable(b) - n) : Content(e)[i] = b.data[(r + n) + i - 1]
  <2> HIDE DEF e
  <2> QED BY <1>2, <1>3, <1>4, ContentSeq
<1>8. \A i \in 1..(Readable(b) - n) : q[n + i] = b.data[(r + n) + i - 1]
  <2> HIDE DEF q, r
  <2>1. \A i \in 1..(Readable(b) - n) : n + i \in 1..Readable(b) /\ r + (n + i) - 1 = (r + n) + i - 1
    BY <1>1, <1>4
  <2> QED BY <1>5, <2>1
<1> HIDE DEF e, q, r
<1>9. Content(e) = Queue!From(q, n)
  BY <1>6, <1>7, <1>8, SeqEqual
<1> QED BY <1>3, <1>9 DEF e, q

----------------------------------------------------------------------------
(* The steps.                                                              *)

LEMMA BytesSeq ==
    ASSUME NEW n \in Nat, NEW S, NEW s \in [1..n -> S]
    PROVE  s \in Seq(S) /\ Len(s) = n
<1>1. s \in Seq(S)
  BY SeqDef
<1> QED BY <1>1, LenProperties

\* Bytes added at the end are what the abstract queue calls an extension.
LEMMA ConcatExtends ==
    ASSUME NEW q \in Seq(Cell), NEW S, S \subseteq Cell, NEW s \in Seq(S)
    PROVE  Queue!Extends(q \o s, q, S)
<1>1. s \in Seq(Cell) /\ Len(s) \in Nat /\ Len(q) \in Nat
  BY SeqMonotonic, LenProperties
<1>2. /\ q \o s \in Seq(Cell) /\ Len(q \o s) = Len(q) + Len(s)
      /\ \A i \in 1..(Len(q) + Len(s)) : (q \o s)[i] = IF i <= Len(q) THEN q[i] ELSE s[i - Len(q)]
  BY <1>1, ConcatProperties
<1>3. \A i \in 1..(Len(q) + Len(s)) : ~(i <= Len(q)) => s[i - Len(q)] \in S
  <2>1. \A i \in 1..(Len(q) + Len(s)) : ~(i <= Len(q)) => i - Len(q) \in 1..Len(s)
    BY <1>1
  <2> QED BY <2>1, ElementOfSeq
<1> DEFINE T == S \cup {q[i] : i \in 1..Len(q)}
<1>4. q \o s \in Seq(T)
  <2>1. q \in Seq(T) /\ s \in Seq(T)
    <3>1. q \in [1..Len(q) -> T]
      <4>1. q \in [1..Len(q) -> Cell]
        BY LenProperties
      <4> QED BY <4>1
    <3>2. q \in Seq(T)
      <4> HIDE DEF T
      <4> QED BY <1>1, <3>1, SeqDef
    <3>3. s \in Seq(T)
      BY SeqMonotonic
    <3> QED BY <3>2, <3>3
  <2> HIDE DEF T
  <2> QED BY <2>1, ConcatProperties
<1>5. \A i \in 1..Len(q \o s) : IF i <= Len(q) THEN (q \o s)[i] = q[i] ELSE (q \o s)[i] \in S
  BY <1>2, <1>3
<1>6. Len(q) <= Len(q \o s)
  BY <1>1, <1>2
<1> QED BY <1>4, <1>5, <1>6 DEF Queue!Extends

LEMMA ReadfdStep ==
    ASSUME TypeOK, BuffReadfd
    PROVE  TypeOK' /\ Queue!Receive
<1>1. Good(rbuf)
  BY DEF TypeOK
<1>c. PICK c \in Doublings(rbuf.cap) :
        \E n \in 0..(c - rbuf.write_index) : \E s \in [1..n -> Byte] :
          rbuf' = Appended(Expanded(rbuf, c), s)
  BY DEF BuffReadfd
<1>n. PICK n \in 0..(c - rbuf.write_index) :
        \E s \in [1..n -> Byte] : rbuf' = Appended(Expanded(rbuf, c), s)
  BY <1>c
<1>2. PICK s \in [1..n -> Byte] : rbuf' = Appended(Expanded(rbuf, c), s)
  BY <1>n
<1>3. c \in rbuf.cap..IntMax
  BY <1>1, GoodFields, DoublingsStep
<1>4. n \in Nat /\ n <= c - rbuf.write_index
  BY <1>1, <1>3, GoodFields
<1>5. s \in Seq(Byte) /\ s \in Seq(Cell) /\ Len(s) = n
  <2>1. s \in Seq(Byte) /\ Len(s) = n
    BY <1>4, BytesSeq
  <2> QED BY <2>1, SeqMonotonic DEF Cell
<1> DEFINE x == Expanded(rbuf, c)
<1>6. Good(x) /\ Content(x) = Content(rbuf) /\ Writable(x) >= Len(s)
  BY <1>1, <1>3, <1>4, <1>5, ExpandedKeeps DEF Writable
<1> HIDE DEF x
<1>7. Good(rbuf') /\ Content(rbuf') = Content(rbuf) \o s
  <2>1. rbuf' = Appended(x, s)
    BY <1>2 DEF x
  <2> QED BY <1>5, <1>6, <2>1, AppendedAppends
<1>8. Queue!Extends(Content(rbuf'), Content(rbuf), Byte)
  <2>1. Content(rbuf) \in Seq(Cell) /\ Byte \subseteq Cell
    BY <1>1, ContentSeq DEF Cell
  <2>2. Queue!Extends(Content(rbuf) \o s, Content(rbuf), Byte)
    BY <1>5, <2>1, ConcatExtends
  <2> QED BY <1>7, <2>2
<1> QED BY <1>7, <1>8 DEF BuffReadfd, TypeOK, Queue!Receive

LEMMA WritefdStep ==
    ASSUME TypeOK, BuffWritefd
    PROVE  TypeOK' /\ Queue!Flush
<1>1. Good(wbuf)
  BY DEF TypeOK
<1>2. PICK n \in 0..Readable(wbuf) : wbuf' = Skipped(wbuf, n)
  BY DEF BuffWritefd
<1>3. Good(wbuf') /\ Content(wbuf') = Queue!From(Content(wbuf), n) /\ Len(Content(wbuf)) = Readable(wbuf)
  BY <1>1, <1>2, SkippedDrops, ContentSeq
<1> QED BY <1>3 DEF BuffWritefd, TypeOK, Queue!Flush

LEMMA ReadStep ==
    ASSUME TypeOK, BuffRead
    PROVE  TypeOK' /\ Queue!Take
<1>1. Good(rbuf)
  BY DEF TypeOK
<1>2. PICK n \in 0..Readable(rbuf) : rbuf' = Skipped(rbuf, n)
  BY DEF BuffRead
<1>3. Good(rbuf') /\ Content(rbuf') = Queue!From(Content(rbuf), n) /\ Len(Content(rbuf)) = Readable(rbuf)
  BY <1>1, <1>2, SkippedDrops, ContentSeq
<1> QED BY <1>3 DEF BuffRead, TypeOK, Queue!Take

LEMMA ClearStep ==
    ASSUME TypeOK, BuffClear
    PROVE  TypeOK' /\ Queue!Drop
<1>1. Good(rbuf) /\ rbuf' = [rbuf EXCEPT !.read_index = 0, !.write_index = 0]
  BY DEF TypeOK, BuffClear
<1>2. rbuf \in Blocks(rbuf.cap) /\ rbuf.cap \in 1..IntMax
  BY <1>1, GoodFields
<1>3. rbuf' \in Blocks(rbuf.cap) /\ rbuf'.read_index = 0 /\ rbuf'.write_index = 0
  <2>1. 0 \in 0..rbuf.cap
    BY <1>2
  <2> QED BY <1>1, <1>2, <2>1 DEF Blocks
<1>4. Good(rbuf')
  BY <1>2, <1>3, GoodIntro
<1>5. Content(rbuf') \in Seq(Cell) /\ Len(Content(rbuf')) = 0
  BY <1>3, <1>4, ContentSeq DEF Readable
<1>6. Content(rbuf') = <<>>
  BY <1>5, EmptySeq
<1> QED BY <1>4, <1>6 DEF BuffClear, TypeOK, Queue!Drop

\* Whatever is written, the outgoing queue gains all of it or nothing.
LEMMA WriteStep ==
    ASSUME TypeOK, NEW s \in Seq(Cell), BuffWrite(s)
    PROVE  /\ TypeOK' /\ rbuf' = rbuf
           /\ Content(wbuf') = Content(wbuf) \o s \/ Content(wbuf') = Content(wbuf)
<1>1. Good(wbuf) /\ peak \in Nat
  BY DEF TypeOK
<1>2. Good(wbuf') /\ (Content(wbuf') = Content(wbuf) \o s \/ Content(wbuf') = Content(wbuf))
  BY <1>1, WriteAppends, FailureKeeps DEF BuffWrite
<1>3. peak' \in Nat
  <2>1. Readable(wbuf) \in Nat /\ Len(s) \in Nat
    BY <1>1, ContentSeq, LenProperties, GoodFields
  <2> QED BY <1>1, <2>1 DEF BuffWrite, Larger
<1> QED BY <1>2, <1>3 DEF BuffWrite, TypeOK

LEMMA ReplyStep ==
    ASSUME TypeOK, Reply
    PROVE  TypeOK' /\ (Queue!Post \/ UNCHANGED <<Content(rbuf), Content(wbuf)>>)
<1>n. PICK n \in 0..MaxReply : \E s \in [1..n -> ReplyByte] : BuffWrite(s)
  BY DEF Reply
<1>1. PICK s \in [1..n -> ReplyByte] : BuffWrite(s)
  BY <1>n
<1>2. s \in Seq(ReplyByte) /\ s \in Seq(Cell)
  <2>1. s \in Seq(ReplyByte)
    BY BytesSeq
  <2> QED BY <2>1, SeqMonotonic DEF Cell
<1>3. /\ TypeOK' /\ rbuf' = rbuf
      /\ Content(wbuf') = Content(wbuf) \o s \/ Content(wbuf') = Content(wbuf)
  BY <1>1, <1>2, WriteStep
<1>4. Content(wbuf) \in Seq(Cell)
  BY ContentSeq DEF TypeOK
<1>5. Queue!Extends(Content(wbuf) \o s, Content(wbuf), ReplyByte)
  BY <1>2, <1>4, ConcatExtends DEF Cell
<1> QED BY <1>3, <1>5 DEF Queue!Post

LEMMA ConcatStep ==
    ASSUME TypeOK, BuffConcat
    PROVE  TypeOK' /\ (Queue!Forward \/ UNCHANGED <<Content(rbuf), Content(wbuf)>>)
<1>1. Content(rbuf) \in Seq(Cell)
  BY ContentSeq DEF TypeOK
<1>2. /\ TypeOK' /\ rbuf' = rbuf
      /\ Content(wbuf') = Content(wbuf) \o Content(rbuf) \/ Content(wbuf') = Content(wbuf)
  BY <1>1, WriteStep DEF BuffConcat
<1> QED BY <1>2 DEF Queue!Forward

LEMMA CreatedGood == Good(Created(InitCap)) /\ Content(Created(InitCap)) = <<>>
<1> DEFINE e == Created(InitCap)
<1>1. e \in Blocks(InitCap) /\ e.read_index = 0 /\ e.write_index = 0
  BY DEF Created, Blocks, Cell
<1> HIDE DEF e
<1>2. Good(e)
  BY <1>1, GoodIntro
<1>3. Content(e) \in Seq(Cell) /\ Len(Content(e)) = 0
  BY <1>1, <1>2, ContentSeq DEF Readable
<1>4. Content(e) = <<>>
  BY <1>3, EmptySeq
<1> QED BY <1>2, <1>4 DEF e

LEMMA NextStep ==
    ASSUME TypeOK, [Next]_vars
    PROVE  TypeOK' /\ (Queue!Next \/ UNCHANGED <<Content(rbuf), Content(wbuf)>>)
<1>1. CASE BuffReadfd
  BY <1>1, ReadfdStep DEF Queue!Next
<1>2. CASE BuffWritefd
  BY <1>2, WritefdStep DEF Queue!Next
<1>3. CASE BuffRead
  BY <1>3, ReadStep DEF Queue!Next
<1>4. CASE BuffClear
  BY <1>4, ClearStep DEF Queue!Next
<1>5. CASE Reply
  BY <1>5, ReplyStep DEF Queue!Next
<1>6. CASE BuffConcat
  BY <1>6, ConcatStep DEF Queue!Next
<1>7. CASE UNCHANGED vars
  BY <1>7 DEF vars, TypeOK
<1> QED BY <1>1, <1>2, <1>3, <1>4, <1>5, <1>6, <1>7 DEF Next

LEMMA InitTypeOK ==
    ASSUME Init
    PROVE  TypeOK
  BY CreatedGood DEF Init, TypeOK

\* The capacity a buff_write leaves behind was there before, or half of it did not do.
LEMMA WriteGrows ==
    ASSUME NEW b, Good(b), NEW s \in Seq(Cell),
           NEW e \in WriteSucceeds(b, s) \cup WriteFails(b, Len(s))
    PROVE  e.cap = b.cap \/ e.cap < 2 * (Readable(b) + Len(s))
<1>0. /\ b.cap \in 1..IntMax /\ b.read_index \in Nat /\ b.write_index \in Nat
      /\ b.read_index <= b.write_index /\ Len(s) \in Nat
  BY GoodFields, LenProperties
<1>1. CASE e \in WriteSucceeds(b, s)
  <2>1. PICK c \in Doublings(b.cap) :
          /\ Fits(b, c, Len(s)) /\ e = Stored(Expanded(b, c), s)
          /\ \A d \in Doublings(b.cap) : Fits(b, d, Len(s)) => c <= d
    BY <1>1 DEF WriteSucceeds
  <2>2. c \in b.cap..IntMax /\ (c = b.cap \/ \E x \in Doublings(b.cap) : c = 2 * x)
    BY <1>0, DoublingsStep
  <2>3. e.cap = c
    <3> DEFINE x == Expanded(b, c)
    <3>1. Good(x) /\ x.cap = c
      BY <2>2, ExpandedKeeps
    <3> HIDE DEF x
    <3>2. Good(Compacted(x)) /\ Compacted(x).cap = c
      BY <3>1, CompactedKeeps
    <3>3. ASSUME NEW y, Good(y), y.cap = c
          PROVE  Appended(y, s).cap = c
      BY <3>3, GoodFields DEF Appended, Blocks
    <3> QED BY <2>1, <3>1, <3>2, <3>3 DEF Stored, x
  <2>4. CASE c # b.cap
    <3>1. PICK x \in Doublings(b.cap) : c = 2 * x
      BY <2>2, <2>4
    <3>2. x \in b.cap..IntMax
      BY <1>0, DoublingsStep
    <3>3. ~Fits(b, x, Len(s))
      BY <1>0, <2>1, <3>1, <3>2
    <3>4. x < Readable(b) + Len(s)
      BY <1>0, <3>2, <3>3 DEF Fits, Prependable, Readable
    <3>5. Readable(b) + Len(s) \in Nat
      BY <1>0 DEF Readable
    <3> QED BY <2>3, <3>1, <3>2, <3>4, <3>5
  <2> QED BY <2>3, <2>4
<1>2. CASE e \in WriteFails(b, Len(s))
  <2>1. PICK c \in Doublings(b.cap) : ~Fits(b, c, Len(s)) /\ e = Expanded(b, c)
    BY <1>2 DEF WriteFails
  <2>2. c \in b.cap..IntMax
    BY <1>0, DoublingsStep
  <2>3. e.cap = c
    BY <2>1, <2>2, ExpandedKeeps
  <2>4. c < Readable(b) + Len(s) /\ Readable(b) + Len(s) \in Nat
    BY <1>0, <2>1, <2>2 DEF Fits, Prependable, Readable
  <2> QED BY <1>0, <2>2, <2>3, <2>4
<1> QED BY <1>1, <1>2

\* The backlog is never above its peak, which makes the bound inductive.
BoundInv == TypeOK /\ Readable(wbuf) <= peak /\ WriteBuffBounded

LEMMA WriteBounded ==
    ASSUME BoundInv, NEW s \in Seq(Cell), BuffWrite(s)
    PROVE  BoundInv'
<1>1. TypeOK' /\ (Content(wbuf') = Content(wbuf) \o s \/ Content(wbuf') = Content(wbuf))
  BY WriteStep DEF BoundInv
<1>2. Good(wbuf) /\ Good(wbuf') /\ peak \in Nat /\ Readable(wbuf) <= peak
  BY <1>1 DEF BoundInv, TypeOK
<1>3. /\ Content(wbuf) \in Seq(Cell) /\ Len(Content(wbuf)) = Readable(wbuf) /\ Readable(wbuf) \in Nat
      /\ Len(Content(wbuf')) = Readable(wbuf') /\ Readable(wbuf') \in Nat /\ Len(s) \in Nat
  <2>1. wbuf.cap \in Nat /\ wbuf'.cap \in Nat
    BY <1>2, GoodFields
  <2> QED BY <1>2, <2>1, ContentSeq, LenProperties
<1>4. Readable(wbuf') <= Readable(wbuf) + Len(s)
  <2> DEFINE q == Content(wbuf)
  <2>1. Len(q \o s) = Len(q) + Len(s)
    BY <1>3, ConcatProperties
  <2> HIDE DEF q
  <2> QED BY <1>1, <1>3, <2>1 DEF q
<1>5. /\ peak' \in Nat /\ peak <= peak' /\ Readable(wbuf) + Len(s) <= peak'
  BY <1>2, <1>3 DEF BuffWrite, Larger
<1>6. wbuf'.cap = wbuf.cap \/ wbuf'.cap < 2 * (Readable(wbuf) + Len(s))
  BY <1>2, WriteGrows DEF BuffWrite
<1>7. wbuf.cap \in Nat /\ wbuf'.cap \in Nat
  BY <1>2, GoodFields
<1>8. WriteBuffBounded'
  BY <1>2, <1>3, <1>5, <1>6, <1>7 DEF BoundInv, WriteBuffBounded
<1>9. Readable(wbuf') <= peak'
  BY <1>3, <1>4, <1>5
<1> QED BY <1>1, <1>8, <1>9 DEF BoundInv

LEMMA BoundStep ==
    ASSUME BoundInv, [Next]_vars
    PROVE  BoundInv'
<1>1. TypeOK /\ TypeOK'
  BY NextStep DEF BoundInv
<1>2. CASE UNCHANGED <<wbuf, peak>>
  BY <1>1, <1>2 DEF BoundInv, WriteBuffBounded
<1>3. CASE BuffWritefd
  <2>1. PICK n \in 0..Readable(wbuf) : wbuf' = Skipped(wbuf, n)
    BY <1>3 DEF BuffWritefd
  <2>2. /\ wbuf \in Blocks(wbuf.cap) /\ wbuf.read_index \in Nat /\ wbuf.write_index \in Nat
        /\ Readable(wbuf) \in Nat /\ peak \in Nat /\ Readable(wbuf) <= peak /\ peak' = peak
    BY <1>1, <1>3, GoodFields DEF BoundInv, TypeOK, BuffWritefd, Readable
  <2>3. /\ wbuf'.cap = wbuf.cap /\ wbuf'.write_index = wbuf.write_index
        /\ wbuf'.read_index = wbuf.read_index + n
    BY <2>1, <2>2 DEF Skipped, Blocks
  <2>4. Readable(wbuf') <= peak'
    BY <2>2, <2>3 DEF Readable
  <2> QED BY <1>1, <2>2, <2>3, <2>4 DEF BoundInv, WriteBuffBounded
<1>4. CASE Reply
  <2>n. PICK n \in 0..MaxReply : \E s \in [1..n -> ReplyByte] : BuffWrite(s)
    BY <1>4 DEF Reply
  <2>1. PICK s \in [1..n -> ReplyByte] : BuffWrite(s)
    BY <2>n
  <2>2. s \in Seq(ReplyByte)
    BY BytesSeq
  <2>3. s \in Seq(Cell)
    BY <2>2, SeqMonotonic DEF Cell
  <2> QED BY <2>1, <2>3, WriteBounded
<1>5. CASE BuffConcat
  BY <1>1, <1>5, ContentSeq, WriteBounded DEF BuffConcat, TypeOK
<1>6. BuffReadfd \/ BuffRead \/ BuffClear \/ UNCHANGED vars => UNCHANGED <<wbuf, peak>>
  BY DEF BuffReadfd, BuffRead, BuffClear, vars
<1> QED BY <1>2, <1>3, <1>4, <1>5, <1>6 DEF Next

\* The indices of both buffers stay ordered and inside the allocated block, whatever is
\* read, written, moved or reallocated, and the capacity stays an int.
THEOREM IndicesInBounds == Spec => []TypeOK
<1>1. Init => TypeOK
  BY InitTypeOK
<1>2. TypeOK /\ [Next]_vars => TypeOK'
  BY NextStep
<1> QED BY <1>1, <1>2, PTL DEF Spec

\* A write buffer grows past its first capacity only if more than half of what it then has
\* was waiting at once: a long relay with a small backlog stays small.
THEOREM MemoryBounded == Spec => []WriteBuffBounded
<1>1. Init => BoundInv
  <2>1. SUFFICES ASSUME Init PROVE BoundInv
    OBVIOUS
  <2>2. /\ wbuf.cap = InitCap /\ wbuf.read_index = 0 /\ wbuf.write_index = 0 /\ peak = 0
    BY <2>1 DEF Init, Created
  <2> QED BY <2>1, <2>2, InitTypeOK DEF BoundInv, WriteBuffBounded, Readable
<1>2. BoundInv /\ [Next]_vars => BoundInv'
  BY BoundStep
<1>3. BoundInv => WriteBuffBounded
  BY DEF BoundInv
<1> QED BY <1>1, <1>2, <1>3, PTL DEF Spec

\* The buffers implement ByteQueue: growing, moving and copying never lose, repeat or
\* reorder a byte, also when realloc fails half way through a buff_write.
THEOREM BuffersAreQueues == Spec => IsQueue
<1>1. Init => Queue!Init
  BY CreatedGood DEF Init, Queue!Init
<1>2. TypeOK /\ [Next]_vars => [Queue!Next]_<<Content(rbuf), Content(wbuf)>>
  BY NextStep
<1> QED BY <1>1, <1>2, IndicesInBounds, PTL DEF Spec, IsQueue, Queue!Spec
=============================================================================
