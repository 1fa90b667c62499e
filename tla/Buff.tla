-------------------------------- MODULE Buff --------------------------------
(***************************************************************************)
(* buff.c: a growing byte buffer with a read and a write index.            *)
(*                                                                         *)
(*   +-------------+------------------+------------------+                 *)
(*   | prependable |     readable     |     writable     |                 *)
(*   +-------------+------------------+------------------+                 *)
(*   0          read_index       write_index            cap                *)
(*                                                                         *)
(* The module follows the two buffers a relay works with, as socks5.c uses *)
(* them: `rbuf' is the read_buff of the socket the bytes come from, filled *)
(* by the kernel, `wbuf' the write_buff of the socket they go to, emptied  *)
(* by the kernel.  Each action is a whole call.  realloc may fail whenever *)
(* a buffer has to grow.                                                   *)
(***************************************************************************)
EXTENDS Naturals, Sequences

CONSTANTS
    Byte,        \* bytes that come from the network
    ReplyByte,   \* bytes of the server's own answers
    Junk,        \* what malloc and realloc leave in fresh memory
    InitCap,     \* INIT_BUFF_CAP
    IntMax,      \* the largest int
    MaxReply     \* bound on the size of one buff_write by tunnel_write_client

ASSUME CapAssumption == /\ InitCap \in Nat \ {0} /\ IntMax \in Nat /\ InitCap <= IntMax
                        /\ MaxReply \in Nat

VARIABLES
    rbuf, wbuf,
    peak         \* history: the most bytes wbuf was ever asked to hold

vars == <<rbuf, wbuf, peak>>

Cell == Byte \cup ReplyByte \cup {Junk}
\* The buffers of capacity c.
Blocks(c) == [cap: {c}, read_index: 0..c, write_index: 0..c, data: [0..(c - 1) -> Cell]]

\* buff_create
Created(cap) ==
    [cap |-> cap, read_index |-> 0, write_index |-> 0, data |-> [i \in 0..(cap - 1) |-> Junk]]

Readable(b) == b.write_index - b.read_index
Prependable(b) == b.read_index
Writable(b) == b.cap - b.write_index

Larger(m, n) == IF m < n THEN n ELSE m

\* The bytes between the indices, in order.
Content(b) == [i \in 1..Readable(b) |-> b.data[b.read_index + i - 1]]

\* Mutant: newcap is a size_t.
DoublingsUnchecked(c) == {d \in c..(2 * IntMax) : \E n \in 0..IntMax : d = c * 2^n}

\* What doubling leads to, from c on: newcap is an int, and past the largest int it turns
\* negative, a size realloc cannot provide.
ClosedFrom(c, S) == c \in S /\ \A d \in S : 2 * d <= IntMax => 2 * d \in S

\* The capacities repeated doubling can reach, for every capacity to start from.
Reachable == [c \in 1..IntMax |->
                {d \in c..IntMax : \A S \in SUBSET (c..IntMax) : ClosedFrom(c, S) => d \in S}]

Doublings(c) == Reachable[c]

\* realloc to a capacity c.
Expanded(b, c) ==
    [b EXCEPT !.cap = c,
              !.data = [i \in 0..(c - 1) |-> IF i < b.cap THEN b.data[i] ELSE Junk]]

\* Mutant: the indices move but the bytes do not.
CompactedNotMoved(b) == [b EXCEPT !.read_index = 0, !.write_index = Readable(b)]

\* memmove of the readable bytes to the front.
Compacted(b) ==
    [b EXCEPT !.read_index = 0, !.write_index = Readable(b),
              !.data = [i \in 0..(b.cap - 1) |->
                          IF i < Readable(b) THEN b.data[b.read_index + i] ELSE b.data[i]]]

\* s copied behind the write index.
Appended(b, s) ==
    [b EXCEPT !.write_index = @ + Len(s),
              !.data = [i \in 0..(b.cap - 1) |->
                          IF i \in b.write_index..(b.write_index + Len(s) - 1)
                          THEN s[i - b.write_index + 1] ELSE b.data[i]]]

\* Mutant: room before the read index is never used again.
FitsWithoutMoving(b, c, size) == c - b.write_index >= size

Fits(b, c, size) == Prependable(b) + (c - b.write_index) >= size

\* buff_write doubles the capacity until s fits, and moves the readable bytes when
\* only that makes room.
Stored(b, s) == IF Writable(b) >= Len(s) THEN Appended(b, s) ELSE Appended(Compacted(b), s)

WriteSucceeds(b, s) ==
    {Stored(Expanded(b, c), s) :
        c \in {c \in Doublings(b.cap) : /\ Fits(b, c, Len(s))
                                        /\ \A d \in Doublings(b.cap) : Fits(b, d, Len(s)) => c <= d}}

\* realloc fails, possibly after the buffer has already grown.
WriteFails(b, size) ==
    {Expanded(b, c) : c \in {c \in Doublings(b.cap) : ~Fits(b, c, size)}}

Init == rbuf = Created(InitCap) /\ wbuf = Created(InitCap) /\ peak = 0

\* buff_readfd: read expands a full buffer first, and may then find nothing to read.
BuffReadfd ==
    /\ \E c \in Doublings(rbuf.cap) :
         /\ c = IF Writable(rbuf) = 0 THEN 2 * rbuf.cap ELSE rbuf.cap
         /\ \E n \in 0..(c - rbuf.write_index) : \E s \in [1..n -> Byte] :
              rbuf' = Appended(Expanded(rbuf, c), s)
    /\ UNCHANGED <<wbuf, peak>>

Skipped(b, n) == [b EXCEPT !.read_index = @ + n]

\* buff_writefd: the kernel takes some of the readable bytes.
BuffWritefd ==
    /\ \E n \in 0..Readable(wbuf) : wbuf' = Skipped(wbuf, n)
    /\ UNCHANGED <<rbuf, peak>>

\* buff_read, buff_skip: the callers check buff_readable first.
BuffRead ==
    /\ \E n \in 0..Readable(rbuf) : rbuf' = Skipped(rbuf, n)
    /\ UNCHANGED <<wbuf, peak>>

BuffClear ==
    /\ rbuf' = [rbuf EXCEPT !.read_index = 0, !.write_index = 0]
    /\ UNCHANGED <<wbuf, peak>>

\* buff_write of s to wbuf, whether it succeeds or not.
BuffWrite(s) ==
    /\ wbuf' \in WriteSucceeds(wbuf, s) \cup WriteFails(wbuf, Len(s))
    /\ peak' = Larger(peak, Readable(wbuf) + Len(s))
    /\ UNCHANGED rbuf

Reply == \E n \in 0..MaxReply : \E s \in [1..n -> ReplyByte] : BuffWrite(s)

BuffConcat == BuffWrite(Content(rbuf))

Next == BuffReadfd \/ BuffWritefd \/ BuffRead \/ BuffClear \/ Reply \/ BuffConcat

Spec == Init /\ [][Next]_vars

----------------------------------------------------------------------------
(* Properties.                                                             *)

\* The indices never leave the allocated block and never cross, and the capacity stays
\* an int: the int variables of buff_readfd and buff_writefd lose nothing.
Good(b) == b.read_index <= b.write_index /\ \E c \in 1..IntMax : b \in Blocks(c)

TypeOK == Good(rbuf) /\ Good(wbuf) /\ peak \in Nat

\* Memory follows the largest backlog, not the traffic: a relay that runs for ever grows
\* its write_buff only when more bytes wait at once than fit.
WriteBuffBounded == wbuf.cap = InitCap \/ wbuf.cap < 2 * peak

\* Growing, moving and copying never change what is read: the two buffers are queues.
Queue == INSTANCE ByteQueue WITH received <- Content(rbuf), outgoing <- Content(wbuf)

IsQueue == Queue!Spec
=============================================================================
