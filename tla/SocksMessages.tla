--------------------------- MODULE SocksMessages ---------------------------
(***************************************************************************)
(* What the handshake of a private connection promises: the bytes of the   *)
(* peer are cut into a greeting, credentials if they are asked for, and a  *)
(* request, and the message at the front of the unanswered bytes is        *)
(* answered, or refused, by the very call that first sees all of it,       *)
(* however the bytes were split into reads.  A refusal by a call that      *)
(* brings bytes closes the connection.  One by a call that brings none     *)
(* may leave it open: the field that is wrong is then cut out of the       *)
(* unanswered bytes, and what is left is taken for the message.            *)
(*                                                                         *)
(*   greeting     |VER(1)|NMETHODS(1)|METHODS|                             *)
(*   credentials  |VER(1)|ULEN(1)|UNAME|PLEN(1)|PASSWD|                    *)
(*   request      |VER(1)|CMD(1)|RSV(1)|ATYP(1)|DST.ADDR|DST.PORT(2)|      *)
(***************************************************************************)
EXTENDS Naturals, Sequences

CONSTANT MaxField

VARIABLES auth, state, wire, inbox, replies, status

Cut(s, n) == SubSeq(s, n + 1, Len(s))      \* s without its first n bytes

Without(s, i, n) == SubSeq(s, 1, i) \o Cut(s, i + n)      \* s without the n bytes after its first i

\* The length of the message that m begins, when m is long enough to tell.
GreetingLen(m) == IF Len(m) < 2 THEN {} ELSE {2 + m[2]}
CredentialsLen(m) ==
    IF Len(m) < 2 \/ Len(m) < 3 + m[2] THEN {} ELSE {3 + m[2] + m[3 + m[2]]}
RequestLen(m) ==
    CASE Len(m) < 4 -> {}
      [] Len(m) >= 4 /\ m[4] = 1 -> {4 + 4 + 2}                    \* IPv4
      [] Len(m) >= 4 /\ m[4] = 4 -> {4 + 16 + 2}                   \* IPv6
      [] OTHER -> IF Len(m) < 5 THEN {} ELSE {5 + m[5] + 2}        \* domain name

MessageLen(m) == CASE state = "open_state" -> GreetingLen(m)
                   [] state = "auth_state" -> CredentialsLen(m)
                   [] state = "request_state" -> RequestLen(m)

\* The bytes m cannot begin a message the server accepts.
Malformed(m) ==
    \/ state = "open_state" /\ Len(m) >= 2 /\ m[1] # 5
    \/ /\ state = "auth_state" /\ Len(m) >= 2
       /\ m[2] > MaxField \/ (Len(m) >= 3 + m[2] /\ m[3 + m[2]] > MaxField)
    \/ state = "request_state" /\ Len(m) >= 4 /\ (m[1] # 5 \/ m[2] # 1 \/ m[4] \notin {1, 3, 4})

\* The bytes of a refused message m that are left: all but the field it is refused for.
WithoutField(m) ==
    CASE state = "open_state" -> Cut(m, 1)                                  \* VER
      [] state = "auth_state" ->
           IF m[2] > MaxField THEN Cut(m, 2)                                \* VER, ULEN
           ELSE IF m[3 + m[2]] > MaxField THEN Without(m, 2 + m[2], 1)      \* PLEN
           ELSE Without(m, 3 + m[2], m[3 + m[2]])                           \* PASSWD
      [] state = "request_state" -> IF m[1] # 5 THEN Cut(m, 1)              \* VER
                                    ELSE IF m[2] # 1 THEN Cut(m, 2)         \* VER, CMD
                                    ELSE m                                  \* ATYP, read again

Answer == CASE state = "open_state" -> IF auth THEN "password" ELSE "no_auth"
            [] state = "auth_state" -> "success"
            [] state = "request_state" -> "connect"
After == CASE state = "open_state" -> IF auth THEN "auth_state" ELSE "request_state"
           [] state = "auth_state" -> "request_state"
           [] state = "request_state" -> "connected_state"

Handling == status = "open" /\ state # "connected_state"

Init == auth \in BOOLEAN /\ state = "open_state" /\ inbox = <<>> /\ wire = <<>> /\ replies = <<>> /\ status = "open"

\* The peer sends more bytes.
Send == /\ Len(wire') > Len(wire) /\ SubSeq(wire', 1, Len(wire)) = wire
        /\ UNCHANGED <<auth, state, inbox, replies, status>>

\* n more bytes are read, and the message m begins is complete, wrong or neither.
Receive(n) ==
    LET m == inbox \o SubSeq(wire, 1, n)
        complete == {l \in MessageLen(m) : l <= Len(m)}
    IN  /\ Handling /\ n \in 0..Len(wire) /\ wire' = Cut(wire, n) /\ UNCHANGED auth
        /\ \/ /\ ~Malformed(m) /\ \E l \in complete : inbox' = Cut(m, l)
              /\ state' = After /\ replies' = Append(replies, Answer) /\ UNCHANGED status
           \/ /\ Malformed(m) \/ (complete # {} /\ state = "auth_state")
              /\ UNCHANGED <<state, replies>>
              /\ \/ inbox' = <<>> /\ status' = "closed"
                 \/ n = 0 /\ inbox' = WithoutField(m) /\ UNCHANGED status
           \/ /\ ~Malformed(m) /\ complete = {}
              /\ inbox' = m /\ UNCHANGED <<state, replies, status>>

Next == Send \/ \E n \in 0..Len(wire) : Receive(n)

Spec == Init /\ [][Next]_<<auth, state, wire, inbox, replies, status>>
=============================================================================
