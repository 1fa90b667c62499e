----------------------------- MODULE ByteQueue -----------------------------
(***************************************************************************)
(* What the two buffers a relay works with promise: bytes leave in the     *)
(* order they came, none is lost, invented or repeated.  `received' is the *)
(* read_buff of one socket, `outgoing' the write_buff of the other.        *)
(***************************************************************************)
EXTENDS Naturals, Sequences

CONSTANTS Byte,       \* bytes that come from the network
          ReplyByte   \* bytes of the server's own answers

VARIABLES received, outgoing

Init == received = <<>> /\ outgoing = <<>>

From(q, n) == SubSeq(q, n + 1, Len(q))      \* q without its first n bytes

\* q2 is q with some bytes of S added at the end.
Extends(q2, q, S) == /\ q2 \in Seq(S \cup {q[i] : i \in 1..Len(q)}) /\ Len(q) <= Len(q2)
                     /\ \A i \in 1..Len(q2) : IF i <= Len(q) THEN q2[i] = q[i] ELSE q2[i] \in S

\* The kernel delivers bytes; the handshake parser takes some; a relay drops them all
\* once it has forwarded them.
Receive == Extends(received', received, Byte) /\ UNCHANGED outgoing
Take == \E n \in 0..Len(received) : received' = From(received, n) /\ UNCHANGED outgoing
Drop == received' = <<>> /\ UNCHANGED outgoing

\* An answer or everything received is queued; the kernel takes bytes.
Post == Extends(outgoing', outgoing, ReplyByte) /\ UNCHANGED received
Forward == outgoing' = outgoing \o received /\ UNCHANGED received
Flush == \E n \in 0..Len(outgoing) : outgoing' = From(outgoing, n) /\ UNCHANGED received

Next == Receive \/ Take \/ Drop \/ Post \/ Forward \/ Flush

Spec == Init /\ [][Next]_<<received, outgoing>>
=============================================================================
