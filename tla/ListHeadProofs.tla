--------------------------- MODULE ListHeadProofs ---------------------------
(***************************************************************************)
(* The pointers of list.h describe the lists for any number of entries and *)
(* heads.  The positions of a list are those of Circle: 1 is the head,     *)
(* i + 1 its i-th entry, and the last one the head again.                  *)
(***************************************************************************)
EXTENDS ListHead, TLAPS

USE NodesAssumption

LEMMA RemovedSeq ==
    ASSUME NEW S, NEW s \in Seq(S), NEW i \in DOMAIN s
    PROVE  /\ RemoveAt(s, i) \in Seq(S)
           /\ Len(RemoveAt(s, i)) = Len(s) - 1
           /\ \A j \in 1..(Len(s) - 1) : RemoveAt(s, i)[j] = IF j < i THEN s[j] ELSE s[j + 1]
<1> DEFINE a == SubSeq(s, 1, i - 1)
           b == SubSeq(s, i + 1, Len(s))
<1>0. i \in 1..Len(s) /\ Len(s) \in Nat
  OBVIOUS
<1>1. a \in Seq(S) /\ Len(a) = i - 1 /\ \A j \in 1..(i - 1) : a[j] = s[j]
  BY <1>0
<1>2. b \in Seq(S) /\ Len(b) = Len(s) - i /\ \A j \in 1..(Len(s) - i) : b[j] = s[i + j]
  BY <1>0
<1>3. RemoveAt(s, i) = a \o b
  BY DEF RemoveAt
<1> HIDE DEF a, b
<1>4. /\ a \o b \in Seq(S) /\ Len(a \o b) = Len(a) + Len(b)
      /\ \A j \in 1..(Len(a) + Len(b)) : (a \o b)[j] = IF j <= Len(a) THEN a[j] ELSE b[j - Len(a)]
  BY <1>1, <1>2, SMTT(30)
<1>5. ASSUME NEW j \in 1..(Len(s) - 1)
      PROVE  (a \o b)[j] = IF j < i THEN s[j] ELSE s[j + 1]
  <2>1. CASE j < i
    BY <1>0, <1>1, <1>2, <1>4, <2>1, SMTT(30)
  <2>2. CASE ~(j < i)
    <3>1. j - (i - 1) \in 1..(Len(s) - i) /\ i + (j - (i - 1)) = j + 1
      BY <1>0, <2>2
    <3>2. b[j - (i - 1)] = s[j + 1]
      BY <1>2, <3>1
    <3>3. (a \o b)[j] = b[j - (i - 1)]
      <4>1. Len(a) = i - 1 /\ Len(b) = Len(s) - i
        BY <1>1, <1>2
      <4>2. j \in 1..(Len(a) + Len(b)) /\ ~(j <= Len(a))
        BY <1>0, <2>2, <4>1
      <4> QED BY <1>4, <4>1, <4>2
    <3> QED BY <2>2, <3>2, <3>3
  <2> QED BY <2>1, <2>2
<1> QED BY <1>0, <1>1, <1>2, <1>3, <1>4, <1>5, SMTT(30)

\* The positions of a circle.
Ring(l, s) == <<l>> \o s \o <<l>>

LEMMA RingAt ==
    ASSUME NEW l \in Lists, NEW s \in Seq(Entries)
    PROVE  /\ Len(s) \in Nat /\ DOMAIN s = 1..Len(s)
           /\ \A i \in 1..Len(s) : s[i] \in Entries
           /\ Ring(l, s)[1] = l /\ Ring(l, s)[Len(s) + 2] = l
           /\ \A i \in 1..Len(s) : Ring(l, s)[i + 1] = s[i]
           /\ \A i \in 1..(Len(s) + 2) : Ring(l, s)[i] \in Nodes
<1>2. /\ Len(s) \in Nat /\ DOMAIN s = 1..Len(s)
      /\ \A i \in 1..Len(s) : s[i] \in Entries
  OBVIOUS
<1> DEFINE c == (<<l>> \o s) \o <<l>>
<1>3. s \in Seq(Nodes) /\ <<l>> \in Seq(Nodes)
  BY DEF Nodes
<1>4. /\ Len(<<l>> \o s) = Len(s) + 1 /\ <<l>> \o s \in Seq(Nodes)
      /\ (<<l>> \o s)[1] = l
      /\ \A i \in 1..Len(s) : (<<l>> \o s)[i + 1] = s[i]
  BY <1>2, <1>3
<1>5. /\ c[1] = l /\ c[Len(s) + 2] = l /\ c \in Seq(Nodes) /\ Len(c) = Len(s) + 2
      /\ \A i \in 1..Len(s) : c[i + 1] = (<<l>> \o s)[i + 1]
  BY <1>2, <1>3, <1>4
<1>6. \A i \in 1..(Len(s) + 2) : c[i] \in Nodes
  BY <1>5
<1>7. Ring(l, s) = c
  BY DEF Ring
<1> QED BY <1>2, <1>4, <1>5, <1>6, <1>7

LEMMA CircleAt ==
    ASSUME NEW l \in Lists, order \in [Lists -> Seq(Entries)]
    PROVE  /\ Len(order[l]) \in Nat /\ DOMAIN order[l] = 1..Len(order[l])
           /\ \A i \in 1..Len(order[l]) : order[l][i] \in Entries
           /\ Circle(l)[1] = l /\ Circle(l)[Len(order[l]) + 2] = l
           /\ \A i \in 1..Len(order[l]) : Circle(l)[i + 1] = order[l][i]
           /\ \A i \in 1..(Len(order[l]) + 2) : Circle(l)[i] \in Nodes
<1>1. order[l] \in Seq(Entries)
  OBVIOUS
<1>2. Circle(l) = Ring(l, order[l])
  BY DEF Circle, Ring
<1> QED BY <1>1, <1>2, RingAt

\* The same of the next state.
LEMMA CircleAtNext ==
    ASSUME NEW l \in Lists, order' \in [Lists -> Seq(Entries)]
    PROVE  /\ Len(order'[l]) \in Nat /\ DOMAIN order'[l] = 1..Len(order'[l])
           /\ \A i \in 1..Len(order'[l]) : order'[l][i] \in Entries
           /\ Circle(l)'[1] = l /\ Circle(l)'[Len(order'[l]) + 2] = l
           /\ \A i \in 1..Len(order'[l]) : Circle(l)'[i + 1] = order'[l][i]
           /\ \A i \in 1..(Len(order'[l]) + 2) : Circle(l)'[i] \in Nodes
<1>1. order'[l] \in Seq(Entries)
  OBVIOUS
<1>2. Circle(l)' = Ring(l, order'[l])
  BY DEF Circle, Ring
<1> QED BY <1>1, <1>2, RingAt

\* A node is at one position of one circle, but for the head, which is at both ends of its own.
LEMMA OnePlace ==
    ASSUME order \in [Lists -> Seq(Entries)], Represents,
           NEW l \in Lists, NEW m \in Lists,
           NEW i \in 1..(Len(order[l]) + 2), NEW j \in 1..(Len(order[m]) + 2),
           Circle(l)[i] = Circle(m)[j]
    PROVE  /\ l = m
           /\ i = j \/ (i = 1 /\ j = Len(order[l]) + 2) \/ (j = 1 /\ i = Len(order[l]) + 2)
<1> DEFINE p == Len(order[l])
           q == Len(order[m])
<1>1. /\ p \in Nat /\ DOMAIN order[l] = 1..p /\ \A k \in 1..p : order[l][k] \in Entries
      /\ Circle(l)[1] = l /\ Circle(l)[p + 2] = l
      /\ \A k \in 1..p : Circle(l)[k + 1] = order[l][k]
  BY CircleAt
<1>2. /\ q \in Nat /\ DOMAIN order[m] = 1..q /\ \A k \in 1..q : order[m][k] \in Entries
      /\ Circle(m)[1] = m /\ Circle(m)[q + 2] = m
      /\ \A k \in 1..q : Circle(m)[k + 1] = order[m][k]
  BY CircleAt
<1>3. i \in 1..(p + 2) /\ j \in 1..(q + 2)
  OBVIOUS
<1>4. \A k \in DOMAIN order[l], n \in DOMAIN order[m] : order[l][k] = order[m][n] => l = m /\ k = n
  BY DEF Represents
<1>5. l = m => p = q
  OBVIOUS
<1> HIDE DEF p, q
<1>6. CASE i \in {1, p + 2}
  <2>1. Circle(m)[j] = l
    BY <1>1, <1>6
  <2>2. j \in {1, q + 2}
    <3> SUFFICES ASSUME j \notin {1, q + 2} PROVE FALSE
      OBVIOUS
    <3>1. j - 1 \in 1..q /\ (j - 1) + 1 = j
      BY <1>2, <1>3
    <3>2. Circle(m)[j] = order[m][j - 1] /\ order[m][j - 1] \in Entries
      BY <1>2, <3>1
    <3> QED BY <2>1, <3>2
  <2>3. l = m
    BY <1>2, <2>1, <2>2
  <2> QED BY <1>5, <1>6, <2>2, <2>3 DEF p
<1>7. CASE i \notin {1, p + 2}
  <2>1. i - 1 \in 1..p /\ (i - 1) + 1 = i
    BY <1>1, <1>3, <1>7
  <2>2. Circle(l)[i] = order[l][i - 1] /\ order[l][i - 1] \in Entries
    BY <1>1, <2>1
  <2>3. j \notin {1, q + 2}
    BY <1>2, <2>2
  <2>4. j - 1 \in 1..q /\ (j - 1) + 1 = j
    BY <1>2, <1>3, <2>3
  <2>5. Circle(m)[j] = order[m][j - 1]
    BY <1>2, <2>4
  <2>6. l = m /\ i - 1 = j - 1
    <3>1. order[l][i - 1] = order[m][j - 1]
      BY <2>2, <2>5
    <3>2. i - 1 \in DOMAIN order[l] /\ j - 1 \in DOMAIN order[m]
      BY <1>1, <1>2, <2>1, <2>4
    <3> QED BY ONLY <1>4, <3>1, <3>2
  <2> QED BY <2>1, <2>4, <2>6
<1> QED BY <1>6, <1>7

----------------------------------------------------------------------------
\* The circle of the list that gets a new entry between positions k and k + 1.
LEMMA InsertedCircle ==
    ASSUME order \in [Lists -> Seq(Entries)], order' \in [Lists -> Seq(Entries)],
           NEW l \in Lists, NEW e \in Entries, NEW k \in 1..(Len(order[l]) + 1),
           Len(order'[l]) = Len(order[l]) + 1,
           \A i \in 1..(Len(order[l]) + 1) :
             order'[l][i] = IF i < k THEN order[l][i] ELSE IF i = k THEN e ELSE order[l][i - 1]
    PROVE  \A i \in 1..(Len(order[l]) + 3) :
             Circle(l)'[i] = IF i <= k THEN Circle(l)[i] ELSE IF i = k + 1 THEN e ELSE Circle(l)[i - 1]
<1> DEFINE p == Len(order[l])
<1>1. /\ p \in Nat
      /\ Circle(l)[1] = l /\ Circle(l)[p + 2] = l
      /\ \A i \in 1..p : Circle(l)[i + 1] = order[l][i]
  BY CircleAt
<1>2. /\ Circle(l)'[1] = l /\ Circle(l)'[p + 3] = l
      /\ \A i \in 1..(p + 1) : Circle(l)'[i + 1] = order'[l][i]
  <2>1. Len(order'[l]) + 2 = p + 3
    BY <1>1
  <2> QED BY <2>1, CircleAtNext
<1>3. \A i \in 1..(p + 1) :
        order'[l][i] = IF i < k THEN order[l][i] ELSE IF i = k THEN e ELSE order[l][i - 1]
  OBVIOUS
<1>4. k \in 1..(p + 1)
  OBVIOUS
<1> SUFFICES ASSUME NEW i \in 1..(p + 3)
             PROVE  Circle(l)'[i] = IF i <= k THEN Circle(l)[i] ELSE IF i = k + 1 THEN e ELSE Circle(l)[i - 1]
  OBVIOUS
<1> HIDE DEF p
<1>5. CASE i = 1
  BY <1>1, <1>2, <1>4, <1>5
<1>6. CASE i = p + 3
  <2>1. ~(i <= k) /\ i # k + 1 /\ i - 1 = p + 2
    BY <1>1, <1>4, <1>6
  <2> QED BY <1>1, <1>2, <1>6, <2>1
<1>7. CASE i \notin {1, p + 3}
  <2>1. i - 1 \in 1..(p + 1) /\ (i - 1) + 1 = i
    BY <1>1, <1>7
  <2>2. Circle(l)'[i] = order'[l][i - 1]
    BY <1>2, <2>1
  <2>3. CASE i <= k
    <3>1. i - 1 < k /\ i - 1 \in 1..p
      BY <1>1, <1>4, <2>1, <2>3
    <3>2. Circle(l)[i] = order[l][i - 1]
      BY <1>1, <2>1, <3>1
    <3> QED BY <1>3, <2>1, <2>2, <2>3, <3>1, <3>2
  <2>4. CASE i = k + 1
    BY <1>3, <1>4, <2>1, <2>2, <2>4
  <2>5. CASE i > k + 1
    <3>1. ~(i - 1 < k) /\ i - 1 # k /\ (i - 1) - 1 \in 1..p /\ ((i - 1) - 1) + 1 = i - 1
      BY <1>1, <1>4, <2>1, <2>5
    <3>2. Circle(l)[i - 1] = order[l][(i - 1) - 1]
      BY <1>1, <3>1
    <3>3. ~(i <= k) /\ i # k + 1
      BY <1>4, <2>5
    <3>4. order'[l][i - 1] = order[l][(i - 1) - 1]
      BY <1>3, <2>1, <3>1
    <3> QED BY <2>2, <3>2, <3>3, <3>4
  <2> QED BY <1>4, <2>3, <2>4, <2>5
<1> QED BY <1>5, <1>6, <1>7

\* The circle of the list that loses its k-th entry.
LEMMA RemovedCircle ==
    ASSUME order \in [Lists -> Seq(Entries)], order' \in [Lists -> Seq(Entries)],
           NEW l \in Lists, NEW k \in 1..Len(order[l]),
           order'[l] = RemoveAt(order[l], k)
    PROVE  /\ Len(order'[l]) = Len(order[l]) - 1
           /\ \A i \in 1..(Len(order[l]) + 1) :
                Circle(l)'[i] = IF i <= k THEN Circle(l)[i] ELSE Circle(l)[i + 1]
<1> DEFINE p == Len(order[l])
<1>1. /\ p \in Nat /\ DOMAIN order[l] = 1..p
      /\ Circle(l)[1] = l /\ Circle(l)[p + 2] = l
      /\ \A i \in 1..p : Circle(l)[i + 1] = order[l][i]
  BY CircleAt
<1>0. order[l] \in Seq(Entries) /\ k \in DOMAIN order[l]
  BY <1>1
<1>3. /\ Len(order'[l]) = p - 1
      /\ \A i \in 1..(p - 1) : order'[l][i] = IF i < k THEN order[l][i] ELSE order[l][i + 1]
  BY <1>0, RemovedSeq
<1>2. /\ Circle(l)'[1] = l /\ Circle(l)'[p + 1] = l
      /\ \A i \in 1..(p - 1) : Circle(l)'[i + 1] = order'[l][i]
  <2>1. Len(order'[l]) + 2 = p + 1
    BY <1>1, <1>3
  <2> QED BY <1>3, <2>1, CircleAtNext, ZenonT(30)
<1>4. k \in 1..p
  OBVIOUS
<1>5. SUFFICES ASSUME NEW i \in 1..(p + 1)
               PROVE  Circle(l)'[i] = IF i <= k THEN Circle(l)[i] ELSE Circle(l)[i + 1]
  BY <1>3
<1> HIDE DEF p
<1>6. CASE i = 1
  BY <1>1, <1>2, <1>4, <1>6
<1>7. CASE i = p + 1
  <2>1. ~(i <= k) /\ i + 1 = p + 2
    BY <1>1, <1>4, <1>7
  <2> QED BY <1>1, <1>2, <1>7, <2>1
<1>8. CASE i \notin {1, p + 1}
  <2>1. i - 1 \in 1..(p - 1) /\ (i - 1) + 1 = i
    BY <1>1, <1>8
  <2>2. Circle(l)'[i] = order'[l][i - 1]
    BY <1>2, <2>1
  <2>3. i - 1 \in 1..p /\ i \in 1..p
    BY <1>1, <2>1
  <2>4. Circle(l)[i] = order[l][i - 1] /\ Circle(l)[i + 1] = order[l][i]
    BY <1>1, <2>1, <2>3
  <2>5. i - 1 < k <=> i <= k
    BY <1>4, <2>1
  <2>6. order'[l][i - 1] = IF i - 1 < k THEN order[l][i - 1] ELSE order[l][i]
    BY <1>3, <2>1
  <2> QED BY <2>2, <2>4, <2>5, <2>6
<1> QED BY <1>6, <1>7, <1>8


LEMMA NotOnCircle ==
    ASSUME order \in [Lists -> Seq(Entries)], NEW e \in Entries, Unlinked(e),
           NEW m \in Lists, NEW i \in 1..(Len(order[m]) + 2)
    PROVE  Circle(m)[i] # e
<1> DEFINE q == Len(order[m])
<1>1. /\ q \in Nat /\ DOMAIN order[m] = 1..q
      /\ Circle(m)[1] = m /\ Circle(m)[q + 2] = m
      /\ \A k \in 1..q : Circle(m)[k + 1] = order[m][k]
  BY CircleAt
<1>2. \A k \in 1..q : order[m][k] # e
  BY <1>1 DEF Unlinked, Members
<1>3. i \in 1..(q + 2) /\ m # e
  OBVIOUS
<1> HIDE DEF q
<1>4. CASE i \in {1, q + 2}
  BY <1>1, <1>3, <1>4
<1>5. CASE i \notin {1, q + 2}
  <2>1. i - 1 \in 1..q /\ (i - 1) + 1 = i
    BY <1>1, <1>3, <1>5
  <2> QED BY <1>1, <1>2, <2>1
<1> QED BY <1>4, <1>5

\* Linking an entry between two consecutive nodes keeps the pointers and the lists together.
LEMMA LinkRepresents ==
    ASSUME TypeOK, Represents, order' \in [Lists -> Seq(Entries)],
           NEW l \in Lists, NEW e \in Entries, Unlinked(e), NEW k \in 1..(Len(order[l]) + 1),
           Link(e, Circle(l)[k], Circle(l)[k + 1]),
           \A m \in Lists : m # l => order'[m] = order[m],
           Len(order'[l]) = Len(order[l]) + 1,
           \A i \in 1..(Len(order[l]) + 1) :
             order'[l][i] = IF i < k THEN order[l][i] ELSE IF i = k THEN e ELSE order[l][i - 1]
    PROVE  Represents'
<1> DEFINE p == Len(order[l])
           before == Circle(l)[k]
           after == Circle(l)[k + 1]
<1>0. order \in [Lists -> Seq(Entries)] /\ p \in Nat /\ k \in 1..(p + 1) /\ e \in Nodes
  BY CircleAt DEF TypeOK, Nodes
<1>1. before \in Nodes /\ after \in Nodes /\ before # e /\ after # e
  <2>1. k \in 1..(p + 2) /\ k + 1 \in 1..(p + 2)
    BY <1>0
  <2> QED BY <1>0, <2>1, CircleAt, NotOnCircle
<1>2. /\ \A x \in Nodes : next'[x] = IF x = before THEN e ELSE IF x = e THEN after ELSE next[x]
      /\ \A x \in Nodes : prev'[x] = IF x = e THEN before ELSE IF x = after THEN e ELSE prev[x]
  <2>1. /\ next' = [[next EXCEPT ![e] = after] EXCEPT ![before] = e]
        /\ prev' = [[prev EXCEPT ![after] = e] EXCEPT ![e] = before]
    BY DEF Link
  <2>2. next \in [Nodes -> Nodes \cup {NULL}] /\ prev \in [Nodes -> Nodes \cup {NULL}]
    BY DEF TypeOK
  <2> HIDE DEF before, after
  <2> QED BY <1>0, <1>1, <2>1, <2>2
<1>3. \A i \in 1..(p + 3) :
        Circle(l)'[i] = IF i <= k THEN Circle(l)[i] ELSE IF i = k + 1 THEN e ELSE Circle(l)[i - 1]
  BY <1>0, InsertedCircle, ZenonT(30)
\* A pair of consecutive nodes that was there before and is not <<before, after>> is untouched.
<1>4. ASSUME NEW m \in Lists, NEW i \in 1..(Len(order[m]) + 1), ~(m = l /\ i = k)
      PROVE  next'[Circle(m)[i]] = Circle(m)[i + 1] /\ prev'[Circle(m)[i + 1]] = Circle(m)[i]
  <2>0. Len(order[m]) \in Nat
    BY <1>0, CircleAt
  <2>1. i \in 1..(Len(order[m]) + 2) /\ i + 1 \in 1..(Len(order[m]) + 2)
    BY <2>0
  <2>2. k \in 1..(p + 2) /\ k + 1 \in 1..(p + 2)
    BY <1>0
  <2>3. /\ Circle(m)[i] \in Nodes /\ Circle(m)[i + 1] \in Nodes
        /\ Circle(m)[i] # e /\ Circle(m)[i + 1] # e
    <3>1. Circle(m)[i] \in Nodes /\ Circle(m)[i + 1] \in Nodes
      BY <1>0, <2>1, CircleAt
    <3>2. \A j \in 1..(Len(order[m]) + 2) : Circle(m)[j] # e
      BY <1>0, NotOnCircle
    <3> QED BY <2>1, <3>1, <3>2
  <2>4. Circle(m)[i] # before
    <3> SUFFICES ASSUME Circle(m)[i] = Circle(l)[k] PROVE FALSE
      OBVIOUS
    <3>1. m = l /\ (i = k \/ (i = 1 /\ k = Len(order[m]) + 2) \/ (k = 1 /\ i = Len(order[m]) + 2))
      BY <1>0, <2>1, <2>2, OnePlace
    <3> QED BY <1>0, <1>4, <2>0, <3>1
  <2>5. Circle(m)[i + 1] # after
    <3> SUFFICES ASSUME Circle(m)[i + 1] = Circle(l)[k + 1] PROVE FALSE
      OBVIOUS
    <3>1. m = l /\ (i + 1 = k + 1 \/ (i + 1 = 1 /\ k + 1 = Len(order[m]) + 2)
                                  \/ (k + 1 = 1 /\ i + 1 = Len(order[m]) + 2))
      BY <1>0, <2>1, <2>2, OnePlace
    <3> QED BY <1>0, <1>4, <2>0, <3>1
  <2>6. next[Circle(m)[i]] = Circle(m)[i + 1] /\ prev[Circle(m)[i + 1]] = Circle(m)[i]
    BY DEF Represents
  <2> QED BY <1>2, <2>3, <2>4, <2>5, <2>6
<1>5. \A m \in Lists : m # l => Circle(m)' = Circle(m)
  BY DEF Circle
<1>6. ASSUME NEW m \in Lists, NEW i \in 1..(Len(order'[m]) + 1)
      PROVE  next'[Circle(m)'[i]] = Circle(m)'[i + 1] /\ prev'[Circle(m)'[i + 1]] = Circle(m)'[i]
  <2>1. CASE m # l
    BY <1>4, <1>5, <2>1
  <2>2. CASE m = l
    <3>0. i \in 1..(p + 2)
      BY <1>0, <2>2
    <3> HIDE DEF p
    <3>1. CASE i < k
      <4>1. Circle(l)'[i] = Circle(l)[i] /\ Circle(l)'[i + 1] = Circle(l)[i + 1]
        BY <1>0, <1>3, <3>0, <3>1
      <4>2. i \in 1..(Len(order[l]) + 1) /\ i # k
        BY <1>0, <3>0, <3>1 DEF p
      <4> QED BY <1>4, <2>2, <4>1, <4>2, SMTT(30)
    <3>2. CASE i = k
      <4>1. Circle(l)'[i] = before /\ Circle(l)'[i + 1] = e
        BY <1>0, <1>3, <3>0, <3>2
      <4> QED BY <1>0, <1>1, <1>2, <2>2, <4>1
    <3>3. CASE i = k + 1
      <4>0. (i + 1) - 1 = k + 1 /\ ~(i + 1 <= k) /\ i + 1 # k + 1 /\ i + 1 \in 1..(p + 3) /\ ~(i <= k)
        BY <1>0, <3>3
      <4>1. Circle(l)'[i] = e /\ Circle(l)'[i + 1] = after
        BY <1>0, <1>3, <3>0, <3>3, <4>0
      <4>2. after # e /\ before # e
        BY <1>1
      <4> HIDE DEF before, after
      <4> QED BY <1>0, <1>1, <1>2, <2>2, <4>1, <4>2
    <3>4. CASE i > k + 1
      <4>0. (i + 1) - 1 = i /\ (i - 1) + 1 = i /\ ~(i <= k) /\ ~(i + 1 <= k) /\ i # k + 1 /\ i + 1 # k + 1
        BY <1>0, <3>0, <3>4
      <4>1. Circle(l)'[i] = Circle(l)[i - 1] /\ Circle(l)'[i + 1] = Circle(l)[i]
        <5>1. i \in 1..(p + 3) /\ i + 1 \in 1..(p + 3)
          BY <1>0, <3>0
        <5> QED BY <1>3, <4>0, <5>1
      <4>2. i - 1 \in 1..(Len(order[l]) + 1) /\ i - 1 # k
        BY <1>0, <3>0, <3>4 DEF p
      <4>3. next'[Circle(l)[i - 1]] = Circle(l)[(i - 1) + 1] /\ prev'[Circle(l)[(i - 1) + 1]] = Circle(l)[i - 1]
        BY <1>4, <4>2
      <4> QED BY <2>2, <4>0, <4>1, <4>3
    <3> QED BY <1>0, <3>0, <3>1, <3>2, <3>3, <3>4
  <2> QED BY <2>1, <2>2
<1>7. ASSUME NEW m \in Lists, NEW n \in Lists, NEW i \in DOMAIN order'[m], NEW j \in DOMAIN order'[n],
             order'[m][i] = order'[n][j]
      PROVE  m = n /\ i = j
  <2> DEFINE was(r, x) == IF r = l /\ x > k THEN x - 1 ELSE x
  <2>1. ASSUME NEW r \in Lists, NEW x \in DOMAIN order'[r]
        PROVE  \/ r = l /\ x = k /\ order'[r][x] = e
               \/ /\ ~(r = l /\ x = k) /\ x \in Nat /\ was(r, x) \in DOMAIN order[r]
                  /\ order'[r][x] = order[r][was(r, x)] /\ order'[r][x] # e
    <3>1. CASE r # l
      <4>1. order'[r] = order[r] /\ was(r, x) = x
        BY <3>1
      <4>2. x \in Nat
        BY <2>1, CircleAtNext
      <4>3. order[r][x] # e
        BY <4>1 DEF Unlinked, Members
      <4> QED BY <3>1, <4>1, <4>2, <4>3
    <3>2. CASE r = l
      <4>1. x \in 1..(p + 1)
        BY <3>2, <2>1, CircleAtNext
      <4>2. order'[l][x] = IF x < k THEN order[l][x] ELSE IF x = k THEN e ELSE order[l][x - 1]
        BY <4>1
      <4>3. CASE x = k
        BY <1>0, <3>2, <4>2, <4>3
      <4>4. CASE x # k
        <5>1. was(r, x) \in 1..p
          BY <1>0, <3>2, <4>1, <4>4
        <5>2. DOMAIN order[l] = 1..p
          BY <1>0, CircleAt
        <5>3. order'[r][x] = order[r][was(r, x)]
          BY <1>0, <3>2, <4>1, <4>2, <4>4
        <5>4. order[r][was(r, x)] # e
          BY <3>2, <5>1, <5>2 DEF Unlinked, Members
        <5> QED BY <3>2, <4>1, <4>4, <5>1, <5>2, <5>3, <5>4
      <4> QED BY <4>3, <4>4
    <3> QED BY <3>1, <3>2
  <2>2. CASE order'[m][i] = e
    <3>1. m = l /\ i = k
      BY <2>1, <2>2
    <3>2. order'[n][j] = e
      BY <1>7, <2>2
    <3>3. n = l /\ j = k
      BY <2>1, <3>2
    <3> QED BY <3>1, <3>3
  <2>3. CASE order'[m][i] # e
    <3>1. /\ ~(m = l /\ i = k) /\ i \in Nat /\ was(m, i) \in DOMAIN order[m]
          /\ order'[m][i] = order[m][was(m, i)]
      BY <2>1, <2>3
    <3>2. /\ ~(n = l /\ j = k) /\ j \in Nat /\ was(n, j) \in DOMAIN order[n]
          /\ order'[n][j] = order[n][was(n, j)]
      BY <1>7, <2>1, <2>3
    <3> HIDE DEF was
    <3>3. m = n /\ was(m, i) = was(n, j)
      <4>1. order[m][was(m, i)] = order[n][was(n, j)]
        BY <1>7, <3>1, <3>2
      <4> QED BY <3>1, <3>2, <4>1 DEF Represents
    <3> QED BY <1>0, <3>1, <3>2, <3>3 DEF was
  <2> QED BY <2>2, <2>3
<1> QED BY <1>6, <1>7 DEF Represents


\* Unlinking the k-th entry of a list joins its neighbours and disturbs nothing else.
LEMMA UnlinkRepresents ==
    ASSUME TypeOK, Represents, order' \in [Lists -> Seq(Entries)],
           NEW l \in Lists, NEW k \in 1..Len(order[l]), Unlink(order[l][k]),
           \A m \in Lists : m # l => order'[m] = order[m],
           order'[l] = RemoveAt(order[l], k)
    PROVE  Represents'
<1> DEFINE p == Len(order[l])
           before == Circle(l)[k]
           after == Circle(l)[k + 2]
           e == order[l][k]
<1>0. order \in [Lists -> Seq(Entries)] /\ p \in Nat /\ k \in 1..p /\ e \in Nodes
  BY CircleAt DEF TypeOK, Nodes
<1>a. k \in 1..(p + 1) /\ k + 1 \in 1..(p + 1) /\ (k + 1) + 1 = k + 2
  BY <1>0
<1>1. prev[e] = before /\ next[e] = after
  <2>1. e = Circle(l)[k + 1]
    BY <1>0, CircleAt
  <2>2. prev[Circle(l)[k + 1]] = Circle(l)[k] /\ next[Circle(l)[k + 1]] = Circle(l)[(k + 1) + 1]
    BY <1>a DEF Represents
  <2> QED BY <1>a, <2>1, <2>2
<1>2. /\ \A x \in Nodes : next'[x] = IF x = before THEN after ELSE next[x]
      /\ \A x \in Nodes : prev'[x] = IF x = after THEN before ELSE prev[x]
  <2>1. /\ next' = [next EXCEPT ![before] = after]
        /\ prev' = [prev EXCEPT ![after] = before]
    BY <1>1 DEF Unlink
  <2>2. next \in [Nodes -> Nodes \cup {NULL}] /\ prev \in [Nodes -> Nodes \cup {NULL}]
    BY DEF TypeOK
  <2> HIDE DEF before, after
  <2> QED BY <2>1, <2>2
<1>3. /\ Len(order'[l]) = p - 1
      /\ \A i \in 1..(p + 1) : Circle(l)'[i] = IF i <= k THEN Circle(l)[i] ELSE Circle(l)[i + 1]
  BY <1>0, RemovedCircle
\* A pair of consecutive nodes that does not have the removed entry in it is untouched.
<1>4. ASSUME NEW m \in Lists, NEW i \in 1..(Len(order[m]) + 1), ~(m = l /\ i \in {k, k + 1})
      PROVE  next'[Circle(m)[i]] = Circle(m)[i + 1] /\ prev'[Circle(m)[i + 1]] = Circle(m)[i]
  <2>0. Len(order[m]) \in Nat
    BY <1>0, CircleAt
  <2>1. i \in 1..(Len(order[m]) + 2) /\ i + 1 \in 1..(Len(order[m]) + 2)
    BY <2>0
  <2>2. k \in 1..(p + 2) /\ k + 2 \in 1..(p + 2)
    BY <1>0
  <2>3. Circle(m)[i] \in Nodes /\ Circle(m)[i + 1] \in Nodes
    BY <1>0, <2>1, CircleAt
  <2>4. Circle(m)[i] # before
    <3> SUFFICES ASSUME Circle(m)[i] = Circle(l)[k] PROVE FALSE
      OBVIOUS
    <3>1. m = l /\ (i = k \/ (i = 1 /\ k = Len(order[m]) + 2) \/ (k = 1 /\ i = Len(order[m]) + 2))
      BY <1>0, <2>1, <2>2, OnePlace
    <3> QED BY <1>0, <1>4, <2>0, <3>1
  <2>5. Circle(m)[i + 1] # after
    <3> SUFFICES ASSUME Circle(m)[i + 1] = Circle(l)[k + 2] PROVE FALSE
      OBVIOUS
    <3>1. m = l /\ (i + 1 = k + 2 \/ (i + 1 = 1 /\ k + 2 = Len(order[m]) + 2)
                                  \/ (k + 2 = 1 /\ i + 1 = Len(order[m]) + 2))
      BY <1>0, <2>1, <2>2, OnePlace
    <3> QED BY <1>0, <1>4, <2>0, <3>1
  <2>6. next[Circle(m)[i]] = Circle(m)[i + 1] /\ prev[Circle(m)[i + 1]] = Circle(m)[i]
    BY DEF Represents
  <2> QED BY <1>2, <2>3, <2>4, <2>5, <2>6
<1>5. \A m \in Lists : m # l => Circle(m)' = Circle(m)
  BY DEF Circle
<1>6. ASSUME NEW m \in Lists, NEW i \in 1..(Len(order'[m]) + 1)
      PROVE  next'[Circle(m)'[i]] = Circle(m)'[i + 1] /\ prev'[Circle(m)'[i + 1]] = Circle(m)'[i]
  <2>1. CASE m # l
    BY <1>4, <1>5, <2>1
  <2>2. CASE m = l
    <3>0. i \in 1..p /\ i + 1 \in 1..(p + 1) /\ i \in 1..(p + 1)
      BY <1>0, <1>3, <2>2
    <3>1. CASE i < k
      <4>1. Circle(l)'[i] = Circle(l)[i] /\ Circle(l)'[i + 1] = Circle(l)[i + 1]
        BY <1>0, <1>3, <3>0, <3>1
      <4>2. i \in 1..(Len(order[l]) + 1) /\ i \notin {k, k + 1}
        BY <1>0, <3>0, <3>1
      <4> QED BY <1>4, <2>2, <4>1, <4>2
    <3>2. CASE i = k
      <4>0. i <= k /\ ~(i + 1 <= k) /\ (i + 1) + 1 = k + 2
        BY <1>0, <3>2
      <4>1. Circle(l)'[i] = before /\ Circle(l)'[i + 1] = after
        BY <1>3, <3>0, <3>2, <4>0
      <4>2. before \in Nodes /\ after \in Nodes
        <5>1. k \in 1..(p + 2) /\ k + 2 \in 1..(p + 2)
          BY <1>0
        <5> QED BY <1>0, <5>1, CircleAt
      <4> HIDE DEF before, after
      <4> QED BY <1>2, <2>2, <4>1, <4>2
    <3>3. CASE i > k
      <4>0. ~(i <= k) /\ ~(i + 1 <= k)
        BY <1>0, <3>0, <3>3
      <4>1. Circle(l)'[i] = Circle(l)[i + 1] /\ Circle(l)'[i + 1] = Circle(l)[(i + 1) + 1]
        BY <1>3, <3>0, <4>0
      <4>2. i + 1 \in 1..(Len(order[l]) + 1) /\ i + 1 \notin {k, k + 1}
        BY <1>0, <3>0, <3>3
      <4>3. next'[Circle(l)[i + 1]] = Circle(l)[(i + 1) + 1] /\ prev'[Circle(l)[(i + 1) + 1]] = Circle(l)[i + 1]
        BY <1>4, <4>2
      <4> QED BY <2>2, <4>1, <4>3
    <3> QED BY <1>0, <3>0, <3>1, <3>2, <3>3
  <2> QED BY <2>1, <2>2
<1>7. ASSUME NEW m \in Lists, NEW n \in Lists, NEW i \in DOMAIN order'[m], NEW j \in DOMAIN order'[n],
             order'[m][i] = order'[n][j]
      PROVE  m = n /\ i = j
  <2> DEFINE was(r, x) == IF r = l /\ ~(x < k) THEN x + 1 ELSE x
  <2>1. ASSUME NEW r \in Lists, NEW x \in DOMAIN order'[r]
        PROVE  x \in Nat /\ was(r, x) \in DOMAIN order[r] /\ order'[r][x] = order[r][was(r, x)]
    <3>1. CASE r # l
      BY <3>1, CircleAtNext
    <3>2. CASE r = l
      <4>1. x \in 1..(p - 1)
        BY <1>3, <3>2, <2>1, CircleAtNext
      <4>2. DOMAIN order[l] = 1..p /\ order[l] \in Seq(Entries)
        BY <1>0, CircleAt
      <4>3. order'[l][x] = IF x < k THEN order[l][x] ELSE order[l][x + 1]
        <5>1. k \in DOMAIN order[l]
          BY <1>0, <4>2
        <5>2. \A j1 \in 1..(p - 1) : RemoveAt(order[l], k)[j1] = IF j1 < k THEN order[l][j1] ELSE order[l][j1 + 1]
          BY <4>2, <5>1, RemovedSeq
        <5> QED BY <4>1, <5>2
      <4> QED BY <1>0, <3>2, <4>1, <4>2, <4>3
    <3> QED BY <3>1, <3>2
  <2>2. /\ i \in Nat /\ was(m, i) \in DOMAIN order[m] /\ order'[m][i] = order[m][was(m, i)]
        /\ j \in Nat /\ was(n, j) \in DOMAIN order[n] /\ order'[n][j] = order[n][was(n, j)]
    BY <2>1
  <2> HIDE DEF was
  <2>3. m = n /\ was(m, i) = was(n, j)
    <3>1. order[m][was(m, i)] = order[n][was(n, j)]
      BY <1>7, <2>2
    <3> QED BY <2>2, <3>1 DEF Represents
  <2> QED BY <1>0, <2>2, <2>3 DEF was
<1> QED BY <1>6, <1>7 DEF Represents


----------------------------------------------------------------------------
\* A walk knows its list; with the position of its cursor the invariant is inductive.
WalkHasList == ~Idle => walk.list \in Lists

IInv == TypeOK /\ Represents /\ WalksInOrder /\ WalkHasList

LEMMA InitInv == Init => IInv
<1> SUFFICES ASSUME Init PROVE IInv
  OBVIOUS
<1>1. TypeOK
  BY DEF Init, TypeOK, Nodes
<1>2. Represents
  <2>1. \A l \in Lists : order[l] = <<>> /\ Len(order[l]) = 0 /\ DOMAIN order[l] = {}
    BY DEF Init
  <2>2. ASSUME NEW l \in Lists, NEW i \in 1..(Len(order[l]) + 1)
        PROVE  next[Circle(l)[i]] = Circle(l)[i + 1] /\ prev[Circle(l)[i + 1]] = Circle(l)[i]
    <3>1. order \in [Lists -> Seq(Entries)]
      BY <1>1 DEF TypeOK
    <3>2. Circle(l)[1] = l /\ Circle(l)[0 + 2] = l
      BY <2>1, <3>1, CircleAt
    <3>3. i = 1
      BY <2>1
    <3> QED BY <3>2, <3>3 DEF Init, Nodes
  <2> QED BY <2>1, <2>2 DEF Represents
<1> QED BY <1>1, <1>2 DEF Init, IInv, WalksInOrder, WalkHasList, Idle

LEMMA SameLists == Represents /\ UNCHANGED <<next, prev, order>> => Represents'
<1>1. ASSUME UNCHANGED <<next, prev, order>> PROVE \A l : Circle(l)' = Circle(l)
  BY <1>1 DEF Circle
<1> QED BY <1>1 DEF Represents

\* An addition happens between two calls, at one end of a list.
LEMMA AddInv ==
    ASSUME IInv, NEW l \in Lists, NEW e \in Entries, ListAdd(l, e) \/ ListAddTail(l, e)
    PROVE  IInv'
<1> DEFINE p == Len(order[l])
<1>0. TypeOK /\ Represents /\ order \in [Lists -> Seq(Entries)] /\ p \in Nat
  BY CircleAt DEF IInv, TypeOK
<1>1. Idle /\ Unlinked(e) /\ UNCHANGED <<walk, cursor, result>>
  BY DEF ListAdd, ListAddTail
<1>2. order[l] \in Seq(Entries)
  BY <1>0
<1>3. order' \in [Lists -> Seq(Entries)] /\ Represents'
  <2>1. CASE ListAdd(l, e)
    <3>0. order' = [order EXCEPT ![l] = <<e>> \o @]
      BY <2>1 DEF ListAdd
    <3>1. /\ order'[l] = <<e>> \o order[l] /\ \A m \in Lists : m # l => order'[m] = order[m]
          /\ order' \in [Lists -> Seq(Entries)]
      BY <1>0, <1>2, <3>0
    <3> PICK k \in Nat : k = 1
      OBVIOUS
    <3>2. /\ Len(order'[l]) = p + 1
          /\ \A i \in 1..(p + 1) : order'[l][i] = IF i < k THEN order[l][i] ELSE IF i = k THEN e ELSE order[l][i - 1]
      BY <1>2, <3>1
    <3>3. k \in 1..(p + 1) /\ Circle(l)[k] = l /\ next[l] = Circle(l)[k + 1]
      BY <1>0, CircleAt DEF Represents
    <3>4. Link(e, Circle(l)[k], Circle(l)[k + 1])
      BY <2>1, <3>3 DEF ListAdd
    <3>5. Represents'
      BY ONLY <1>0, <1>1, <3>1, <3>2, <3>3, <3>4, LinkRepresents
    <3> QED BY <3>1, <3>5
  <2>2. CASE ListAddTail(l, e)
    <3>0. order' = [order EXCEPT ![l] = Append(@, e)]
      BY <2>2 DEF ListAddTail
    <3>1. /\ order'[l] = Append(order[l], e) /\ \A m \in Lists : m # l => order'[m] = order[m]
          /\ order' \in [Lists -> Seq(Entries)]
      BY <1>0, <1>2, <3>0
    <3>2. /\ Len(order'[l]) = p + 1
          /\ \A i \in 1..(p + 1) :
               order'[l][i] = IF i < p + 1 THEN order[l][i] ELSE IF i = p + 1 THEN e ELSE order[l][i - 1]
      BY <1>2, <3>1
    <3>3. p + 1 \in 1..(p + 1) /\ (p + 1) + 1 = p + 2 /\ Circle(l)[p + 2] = l
      BY <1>0, CircleAt
    <3>4. prev[l] = Circle(l)[p + 1]
      <4>1. prev[Circle(l)[(p + 1) + 1]] = Circle(l)[p + 1]
        BY <1>0, <3>3 DEF Represents
      <4> QED BY <3>3, <4>1
    <3>5. Link(e, Circle(l)[p + 1], Circle(l)[(p + 1) + 1])
      BY <2>2, <3>3, <3>4 DEF ListAddTail
    <3> QED BY <1>0, <1>1, <3>1, <3>2, <3>3, <3>5, LinkRepresents, ZenonT(30)
  <2> QED BY <2>1, <2>2
<1>4. next' \in [Nodes -> Nodes \cup {NULL}] /\ prev' \in [Nodes -> Nodes \cup {NULL}]
  <2>1. l \in Nodes /\ e \in Nodes
    BY DEF Nodes
  <2>2. next \in [Nodes -> Nodes \cup {NULL}] /\ prev \in [Nodes -> Nodes \cup {NULL}]
    BY <1>0 DEF TypeOK
  <2>3. next[l] \in Nodes /\ prev[l] \in Nodes
    <3>1. /\ Circle(l)[1] = l /\ Circle(l)[p + 2] = l
          /\ \A i \in 1..(p + 2) : Circle(l)[i] \in Nodes
      BY <1>0, CircleAt
    <3>2. 1 \in 1..(p + 1) /\ p + 1 \in 1..(p + 1) /\ (p + 1) + 1 = p + 2
      BY <1>0
    <3>3. next[l] = Circle(l)[1 + 1] /\ prev[l] = Circle(l)[p + 1]
      BY <1>0, <3>1, <3>2 DEF Represents
    <3> QED BY <1>0, <3>1, <3>3
  <2>4. \E b \in Nodes, a \in Nodes : Link(e, b, a)
    BY <2>1, <2>3 DEF ListAdd, ListAddTail
  <2> QED BY <2>1, <2>2, <2>4 DEF Link
<1> QED BY <1>0, <1>1, <1>3, <1>4 DEF IInv, TypeOK, WalksInOrder, WalkHasList, Idle

LEMMA CallInv ==
    ASSUME IInv, NEW l \in Lists, NEW accept \in SUBSET Entries, NEW op \in {"Fnd", "Get", "Do"},
           Call(op, l, accept)
    PROVE  IInv'
<1> DEFINE p == Len(order[l])
<1>0. TypeOK /\ Represents /\ order \in [Lists -> Seq(Entries)] /\ p \in Nat
  BY CircleAt DEF IInv, TypeOK
<1>1. /\ walk' = [op |-> op, list |-> l, accept |-> accept] /\ cursor' = next[l]
      /\ UNCHANGED <<next, prev, order, result>>
  BY DEF Call
<1>2. cursor' = Circle(l)[0 + 2] /\ Circle(l)[0 + 2] \in Nodes
  <2>1. 1 \in 1..(p + 1) /\ 1 + 1 = 0 + 2 /\ 0 + 2 \in 1..(p + 2)
    BY <1>0
  <2>2. next[Circle(l)[1]] = Circle(l)[1 + 1]
    BY <1>0, <2>1 DEF Represents
  <2> QED BY <1>0, <1>1, <2>1, <2>2, CircleAt
<1>3. TypeOK'
  BY <1>0, <1>1, <1>2 DEF TypeOK
<1>4. Represents'
  BY <1>0, <1>1, SameLists
<1>5. WalksInOrder'
  <2>1. walk'.list = l /\ Circle(l)' = Circle(l) /\ order' = order
    BY <1>1 DEF Circle
  <2>2. 0 \in 0..p /\ \A i \in 1..0 : order[l][i] \notin accept
    BY <1>0
  <2> QED BY <1>1, <1>2, <2>1, <2>2 DEF WalksInOrder
<1> QED BY <1>1, <1>3, <1>4, <1>5 DEF IInv, WalkHasList, Idle

\* Where a walk is: at its n + 1-st entry, or at the head when n is the length of the list.
LEMMA WalkAt ==
    ASSUME IInv, ~Idle
    PROVE  /\ walk.list \in Lists /\ Len(order[walk.list]) \in Nat
           /\ \E n \in 0..Len(order[walk.list]) :
                /\ \A i \in 1..n : order[walk.list][i] \notin walk.accept
                /\ \/ n = Len(order[walk.list]) /\ cursor = walk.list
                   \/ /\ n < Len(order[walk.list]) /\ cursor # walk.list
                      /\ cursor = order[walk.list][n + 1] /\ cursor \in Entries
                      /\ next[cursor] = Circle(walk.list)[(n + 1) + 2]
                      /\ Circle(walk.list)[(n + 1) + 2] \in Nodes
<1> DEFINE l == walk.list
           p == Len(order[l])
<1>0. TypeOK /\ Represents /\ order \in [Lists -> Seq(Entries)] /\ l \in Lists
  BY DEF IInv, TypeOK, WalkHasList
<1>1. /\ p \in Nat /\ \A i \in 1..p : order[l][i] \in Entries
      /\ Circle(l)[p + 2] = l
      /\ \A i \in 1..p : Circle(l)[i + 1] = order[l][i]
      /\ \A i \in 1..(p + 2) : Circle(l)[i] \in Nodes
  BY <1>0, CircleAt
<1>2. PICK n \in 0..p : cursor = Circle(l)[n + 2] /\ \A i \in 1..n : order[l][i] \notin walk.accept
  BY DEF IInv, WalksInOrder
<1>3. CASE n = p
  BY <1>0, <1>1, <1>2, <1>3
<1>4. CASE n # p
  <2>1. n + 1 \in 1..p /\ n < p /\ (n + 1) + 1 = n + 2 /\ (n + 2) + 1 = (n + 1) + 2
        /\ n + 2 \in 1..(p + 1) /\ (n + 1) + 2 \in 1..(p + 2)
    BY <1>1, <1>4
  <2>2. cursor = order[l][n + 1] /\ cursor \in Entries
    BY <1>1, <1>2, <2>1
  <2>3. cursor # l
    BY <1>0, <2>2
  <2>4. next[Circle(l)[n + 2]] = Circle(l)[(n + 2) + 1]
    BY <1>0, <2>1 DEF Represents
  <2> QED BY <1>0, <1>1, <1>2, <2>1, <2>2, <2>3, <2>4
<1> QED BY <1>3, <1>4


\* One step of a walk.
LEMMA StepInv ==
    ASSUME IInv, Step
    PROVE  IInv'
<1> DEFINE l == walk.list
           p == Len(order[l])
<1>0. TypeOK /\ Represents /\ order \in [Lists -> Seq(Entries)] /\ ~Idle
  BY DEF IInv, TypeOK, Step, Skip, Accept, BackAtHead
<1>1. l \in Lists /\ p \in Nat
  BY <1>0, WalkAt
<1>2. CASE Skip
  <2>1. /\ cursor # l /\ cursor \notin walk.accept /\ cursor' = next[cursor]
        /\ UNCHANGED <<next, prev, order, walk, result>>
    BY <1>2 DEF Skip
  <2>2. PICK n \in 0..p : /\ \A i \in 1..n : order[l][i] \notin walk.accept
                          /\ n < p /\ cursor = order[l][n + 1]
                          /\ next[cursor] = Circle(l)[(n + 1) + 2] /\ Circle(l)[(n + 1) + 2] \in Nodes
    BY <1>0, <2>1, WalkAt
  <2>3. n + 1 \in 0..p /\ \A i \in 1..(n + 1) : order[l][i] \notin walk.accept
    BY <1>1, <2>1, <2>2
  <2>4. TypeOK'
    BY <1>0, <2>1, <2>2 DEF TypeOK
  <2>5. Represents'
    BY <1>0, <2>1, SameLists
  <2>6. WalksInOrder'
    <3>1. walk' = walk /\ order' = order /\ Circle(l)' = Circle(l) /\ cursor' = Circle(l)[(n + 1) + 2]
      BY <2>1, <2>2 DEF Circle
    <3> QED BY <2>3, <3>1 DEF WalksInOrder
  <2> QED BY <1>1, <2>1, <2>4, <2>5, <2>6 DEF IInv, WalkHasList, Idle
<1>3. CASE Accept /\ UNCHANGED links
  <2>1. UNCHANGED <<next, prev, order>> /\ walk' = [walk EXCEPT !.op = "none"] /\ cursor' = NULL /\ result' = cursor
    BY <1>3 DEF Accept, Return, links
  <2>2. cursor \in Entries
    BY <1>0, <1>3, WalkAt DEF Accept
  <2>3. walk' \in [op : {"none", "Fnd", "Get", "Do"}, list : Lists \cup {NULL}, accept : SUBSET Entries]
        /\ walk'.op = "none"
    BY <1>0, <2>1 DEF TypeOK
  <2>4. TypeOK'
    BY <1>0, <2>1, <2>2, <2>3 DEF TypeOK
  <2>5. Represents'
    BY <1>0, <2>1, SameLists
  <2> QED BY <2>3, <2>4, <2>5 DEF IInv, WalksInOrder, WalkHasList, Idle
<1>4. CASE Accept /\ ~UNCHANGED links
  <2>1. /\ Unlink(cursor) /\ walk' = [walk EXCEPT !.op = "none"] /\ cursor' = NULL /\ result' = cursor
        /\ \E i \in DOMAIN order[l] : order[l][i] = cursor /\ order' = [order EXCEPT ![l] = RemoveAt(@, i)]
    BY <1>4 DEF Accept, Return
  <2>2. PICK k \in DOMAIN order[l] : order[l][k] = cursor /\ order' = [order EXCEPT ![l] = RemoveAt(@, k)]
    BY <2>1
  <2>3. order[l] \in Seq(Entries) /\ k \in 1..p
    BY <1>0, <1>1, CircleAt
  <2>4. RemoveAt(order[l], k) \in Seq(Entries)
    BY <2>3, RemovedSeq
  <2>5. /\ order'[l] = RemoveAt(order[l], k) /\ \A m \in Lists : m # l => order'[m] = order[m]
        /\ order' \in [Lists -> Seq(Entries)]
    BY <1>0, <1>1, <2>2, <2>4
  <2>6. Represents'
    <3>1. Unlink(order[l][k])
      BY <2>1, <2>2
    <3> QED BY <1>0, <1>1, <2>3, <2>5, <3>1, UnlinkRepresents
  <2>7. cursor \in Entries
    BY <2>2, <2>3
  <2>8. next' \in [Nodes -> Nodes \cup {NULL}] /\ prev' \in [Nodes -> Nodes \cup {NULL}]
    <3>1. cursor \in Nodes
      BY <2>7 DEF Nodes
    <3>2. next \in [Nodes -> Nodes \cup {NULL}] /\ prev \in [Nodes -> Nodes \cup {NULL}]
      BY <1>0 DEF TypeOK
    <3> QED BY <2>1, <3>1, <3>2 DEF Unlink
  <2>9. walk' \in [op : {"none", "Fnd", "Get", "Do"}, list : Lists \cup {NULL}, accept : SUBSET Entries]
        /\ walk'.op = "none"
    BY <1>0, <2>1 DEF TypeOK
  <2>10. TypeOK'
    BY <2>1, <2>5, <2>7, <2>8, <2>9 DEF TypeOK
  <2> QED BY <2>6, <2>9, <2>10 DEF IInv, WalksInOrder, WalkHasList, Idle
<1>5. CASE BackAtHead
  <2>1. UNCHANGED <<next, prev, order>> /\ walk' = [walk EXCEPT !.op = "none"] /\ cursor' = NULL /\ result' = NULL
    BY <1>5 DEF BackAtHead, Return, links
  <2>3. walk' \in [op : {"none", "Fnd", "Get", "Do"}, list : Lists \cup {NULL}, accept : SUBSET Entries]
        /\ walk'.op = "none"
    BY <1>0, <2>1 DEF TypeOK
  <2>4. TypeOK'
    BY <1>0, <2>1, <2>3 DEF TypeOK
  <2>5. Represents'
    BY <1>0, <2>1, SameLists
  <2> QED BY <2>3, <2>4, <2>5 DEF IInv, WalksInOrder, WalkHasList, Idle
<1> QED BY <1>2, <1>3, <1>4, <1>5 DEF Step

LEMMA NextInv == IInv /\ [Next]_vars => IInv'
<1> SUFFICES ASSUME IInv, [Next]_vars PROVE IInv'
  OBVIOUS
<1>1. CASE UNCHANGED vars
  <2>1. UNCHANGED <<next, prev, order, walk, cursor, result>>
    BY <1>1 DEF vars
  <2>2. TypeOK' /\ Represents' /\ WalkHasList'
    BY <2>1, SameLists DEF IInv, TypeOK, WalkHasList, Idle
  <2>3. WalksInOrder'
    <3>1. Circle(walk.list)' = Circle(walk.list)
      BY <2>1 DEF Circle
    <3> QED BY <2>1, <3>1 DEF IInv, WalksInOrder, Idle
  <2> QED BY <2>2, <2>3 DEF IInv
<1>2. CASE \E l \in Lists, e \in Entries : ListAdd(l, e) \/ ListAddTail(l, e)
  BY <1>2, AddInv
<1>3. CASE \E l \in Lists, accept \in SUBSET Entries, op \in {"Fnd", "Get", "Do"} : Call(op, l, accept)
  BY <1>3, CallInv
<1>4. CASE Step
  BY <1>4, StepInv
<1> QED BY <1>1, <1>2, <1>3, <1>4 DEF Next

LEMMA SpecInv == Spec => []IInv
  BY InitInv, NextInv, PTL DEF Spec

\* The pointers, the history and the call in progress stay within their types: no search
\* ever follows a pointer that INIT_LIST_HEAD or an insertion did not set, nor returns a head.
THEOREM TypeCorrect == Spec => []TypeOK
<1>1. IInv => TypeOK
  BY DEF IInv
<1> QED BY <1>1, SpecInv, PTL

\* list_add, list_add_tail and list_del keep the two rings of pointers of every list equal
\* to the list, for any number of entries and heads.
THEOREM PointersDescribe == Spec => []Represents
<1>1. IInv => Represents
  BY DEF IInv
<1> QED BY <1>1, SpecInv, PTL

\* list_for_each meets the entries in their order and offers each of them once.
THEOREM Walks == Spec => []WalksInOrder
<1>1. IInv => WalksInOrder
  BY DEF IInv
<1> QED BY <1>1, SpecInv, PTL

\* list_empty is true of a list without entries and of no other.
THEOREM EmptyTest == Spec => []EmptyIsEmpty
<1>1. IInv => EmptyIsEmpty
  <2> SUFFICES ASSUME IInv, NEW l \in Lists PROVE Empty(l) <=> order[l] = <<>>
    BY DEF EmptyIsEmpty
  <2> DEFINE p == Len(order[l])
  <2>1. Represents /\ order \in [Lists -> Seq(Entries)]
    BY DEF IInv, TypeOK
  <2>2. /\ p \in Nat /\ Circle(l)[1] = l /\ Circle(l)[p + 2] = l
        /\ \A i \in 1..p : Circle(l)[i + 1] = order[l][i] /\ order[l][i] \in Entries
    BY <2>1, CircleAt
  <2>3. next[l] = Circle(l)[1 + 1] /\ prev[l] = Circle(l)[p + 1]
    <3>1. 1 \in 1..(p + 1) /\ p + 1 \in 1..(p + 1) /\ (p + 1) + 1 = p + 2
      BY <2>2
    <3> QED BY <2>1, <2>2, <3>1 DEF Represents
  <2>4. order[l] = <<>> <=> p = 0
    BY <2>1
  <2>5. CASE p = 0
    BY <2>2, <2>3, <2>4, <2>5 DEF Empty
  <2>6. CASE p # 0
    <3>1. 1 \in 1..p
      BY <2>2, <2>6
    <3>2. next[l] \in Entries
      BY <2>2, <2>3, <3>1
    <3> QED BY <2>4, <2>6, <3>2 DEF Empty
  <2> QED BY <2>5, <2>6
<1> QED BY <1>1, SpecInv, PTL

\* AppListFnd, AppListGet and AppListDo return the first entry their callback accepts, and
\* NULL only when there is none.
THEOREM Finds == Spec => FindReturnsFirst
<1> DEFINE hits == {i \in DOMAIN order[walk.list] : order[walk.list][i] \in walk.accept}
<1>1. ASSUME IInv, [Next]_vars, ~Idle, walk'.op = "none"
      PROVE  IF hits = {} THEN result' = NULL
             ELSE \E i \in hits : (\A j \in hits : i <= j) /\ result' = order[walk.list][i]
  <2> DEFINE l == walk.list
             p == Len(order[l])
  <2>1. l \in Lists /\ p \in Nat
    BY <1>1, WalkAt
  <2>2. DOMAIN order[l] = 1..p
    BY <1>1, <2>1, CircleAt DEF IInv, TypeOK
  <2>3. Accept \/ BackAtHead
    <3>1. Next
      BY <1>1 DEF vars, Idle
    <3> QED BY <1>1, <3>1 DEF Next, Step, Skip, ListAdd, ListAddTail, Call, Idle
  <2>4. PICK n \in 0..p :
          /\ \A i \in 1..n : order[l][i] \notin walk.accept
          /\ \/ n = p /\ cursor = l
             \/ n < p /\ cursor # l /\ cursor = order[l][n + 1]
    BY <1>1, WalkAt
  <2>5. CASE Accept
    <3>1. cursor # l /\ cursor \in walk.accept /\ result' = cursor
      BY <2>5 DEF Accept, Return
    <3>2. n + 1 \in hits /\ result' = order[l][n + 1]
      BY <2>1, <2>2, <2>4, <3>1
    <3>3. \A j \in hits : n + 1 <= j
      <4> SUFFICES ASSUME NEW j \in 1..p, order[l][j] \in walk.accept PROVE n + 1 <= j
        BY <2>2
      <4>1. ~(j \in 1..n)
        BY <2>4
      <4> QED BY <2>1, <4>1
    <3> QED BY <3>2, <3>3
  <2>6. CASE BackAtHead
    <3>1. cursor = l /\ result' = NULL
      BY <2>6 DEF BackAtHead, Return
    <3>2. n = p
      BY <2>4, <3>1
    <3>3. hits = {}
      BY <2>2, <2>4, <3>2
    <3> QED BY <3>1, <3>3
  <2> QED BY <2>3, <2>5, <2>6
<1>2. IInv /\ [Next]_vars => [~Idle /\ walk'.op = "none" =>
         LET h == {i \in DOMAIN order[walk.list] : order[walk.list][i] \in walk.accept}
         IN  IF h = {} THEN result' = NULL
             ELSE \E i \in h : (\A j \in h : i <= j) /\ result' = order[walk.list][i]]_vars
  BY <1>1
<1> QED BY <1>2, SpecInv, PTL DEF Spec, FindReturnsFirst
=============================================================================
