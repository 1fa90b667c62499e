---------------------------- MODULE MCHandshake ----------------------------
(***************************************************************************)
(* Handshake for TLC: peers that send complete messages, with every kind   *)
(* of address, empty fields, fields of the greatest length allowed, and    *)
(* messages the server must refuse.                                        *)
(***************************************************************************)
EXTENDS Handshake

Greetings == {<<5, 0>>, <<5, 1, 0>>, <<5, 2, 0, 2>>}
Credentials == {<<1, 0, 0>>, <<1, 1, 7, 0>>, <<1, 0, 1, 8>>, <<1, 2, 7, 7, 2, 8, 8>>}
Requests == {<<5, 1, 0, 1, 9, 9, 9, 9, 0, 80>>,
             <<5, 1, 0, 4>> \o [i \in 1..16 |-> 9] \o <<0, 80>>,
             <<5, 1, 0, 3, 0, 0, 80>>,
             <<5, 1, 0, 3, 3, 7, 7, 7, 0, 80>>}

BadGreetings == {<<4, 1, 0>>}
BadCredentials == {<<1, 3, 7, 7, 7, 1, 8>>, <<1, 1, 7, 3, 8, 8, 8>>}
BadRequests == {<<5, 2, 0, 1, 9, 9, 9, 9, 0, 80>>, <<4, 1, 0, 1, 9, 9, 9, 9, 0, 80>>, <<5, 1, 0, 2, 9>>}

\* The messages of a whole handshake, with and without credentials; a server may have been
\* started either way, whatever the peer sends.
OpenScripts == {<<g, r>> : g \in Greetings \cup BadGreetings, r \in Requests \cup BadRequests}
AuthScripts == {<<g, a, r>> : g \in Greetings, a \in Credentials \cup BadCredentials, r \in Requests}
PeerScripts == OpenScripts \cup AuthScripts
=============================================================================
