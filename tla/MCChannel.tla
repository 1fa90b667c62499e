----------------------------- MODULE MCChannel -----------------------------
(***************************************************************************)
(* Channel for TLC.  The client's request begins like a handshake message, *)
(* as that of a client that speaks SOCKS5 itself does.                     *)
(***************************************************************************)
EXTENDS Channel

MediatorScripts == {<<Greeting>>}
ClientRequest == <<5, 1, 0>>
ServiceAnswer == <<5, 0>>
=============================================================================
