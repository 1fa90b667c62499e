----------------------------- MODULE MCStreams -----------------------------
(* Streams for TLC: sock_t blocks are interchangeable.                     *)
EXTENDS Streams

SockSymmetry == Permutations(Socks)
=============================================================================
