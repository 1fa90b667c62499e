--------------------------- MODULE MCTunnelServer ---------------------------
(* TunnelServer for TLC: sock_t blocks are interchangeable (malloc may     *)
(* return any of them), so the safety runs use their symmetry.             *)
EXTENDS TunnelServer, TLC

SockSymmetry == Permutations(Socks)
=============================================================================
