# A TLA+ model of socks5-fz

`socks5-fz` is a single-threaded SOCKS5 server (`socks5.c`), its companion on a
private host (`clientdemo.c`, here "the mediator"), a growable byte buffer
(`buff.c`) and lists of connections (`Utils.c`, `list.h`).  This directory holds
TLA+ modules that model them, TLC configurations that check the modules on small
instances, and TLAPS proofs of what matters most for all sizes.

| module | models |
| --- | --- |
| `TunnelServer` | the event loop of `socks5.c`: accept, read, write, shutdown, tunnel switch, pairing |
| `Streams` (extends `TunnelServer`) | what the server's buffers hold: whose bytes end up on whose socket |
| `Handshake` (+ `SocksMessages`) | the three handshake parsers of `socks5.c`, and the one-shot grammar they implement |
| `Channel` (extends `Handshake`) | the private connection end to end: the server's handshake, the mediator's, and the bytes that follow |
| `Mediator` | the event loop of `clientdemo.c`: handshake, requests, service connections |
| `Buff` (+ `ByteQueue`) | `buff.c` on the two buffers of a relay, and the queue they promise to be |
| `ListHead` | `list.h` and the walks of `Utils.c`, over pointers |
| `MCTunnelServer`, `MCStreams`, `MCHandshake`, `MCChannel`, `MCBuff` | inputs and symmetry for TLC |
| `TunnelServerProofs`, `StreamsProofs`, `MisdeliveryProofs`, `HandshakeProofs`, `ChannelProofs`, `MediatorProofs`, `BuffProofs`, `ListHeadProofs` | TLAPS proofs |

## 1. Inventory

**Event loop** (`server_start`, `accept_handle`).  State: the epoll set, the batch
`epoll_wait` returned.  One round handles the events of the batch in order - a new
private connection, a new client, a readable or a writable socket - and ends with
`waitLinePairing`.  Hard: a handler may free a `sock_t` that a later event of the
same batch points to; `accept` failing ends the batch; an event with both
`EPOLLIN` and `EPOLLOUT` is only read.

**Tunnels and sockets** (`tunnel_t`, `sock_t`; `tunnel_create`, `sock_create`,
`sock_release`, `sock_force_shutdown`, `sock_shutdown`, `tunnel_shutdown`,
`tunnel_switch_handle`).  A tunnel has a protocol `state`, a pool `status`, a private
end and a remote end.  Private sockets come from the private port and stay with one
tunnel; remote sockets (clients) are bound to an idle tunnel, parked in a temporary
one, moved between them.  Hard: ends are moved and released by handlers of either
end; two fields (`state`, `status`) are written by different paths.  Correct when no
tunnel points to a freed or foreign socket, no socket is lost, nothing is closed
without a cause, and a connection whose peer is gone is released.

**Handshake** (`tunnel_open_handle`, `tunnel_auth_handle`, `tunnel_request_handle`).
State: `read_count`, the fields parsed so far, the private socket's `read_buff`.
Hard: messages are split anywhere, or arrive together.  Correct when the result
does not depend on how bytes are split and `assert(0)` is never reached.

**Relay** (`tunnel_connected_handle`, `tunnel_waitting_handle`, `tunnel_write_*`).
Bytes of one end's `read_buff` go to the other end's `write_buff`.  The server
matches answers to clients only by who is bound to the tunnel when they arrive.
Correct when requests and answers keep their order, are not doubled or lost
without a cause, and reach the client that asked.

**Buffers** (`buff.c`).  A block, a capacity, a read and a write index.  Hard: moving
versus growing at the boundary, `realloc` failing half way, the `int` capacity.
Correct when they are queues, inside the block.

**Pool** (`AppList*`, `waitList*`, `getTargetFrList`, `getWaitobjFrList`,
`fndIdleConnElemt`).  Two lists with head insertion and first-match search; nothing
is removed, entries are recycled by `status`.  Correct when entries are recycled
(no growth), own their socket, and no idle tunnel is left beside a waiting client.

**Lists** (`list.h`, `Utils.c`, `util.h`).  Circular lists of `next` and `prev`
pointers embedded in the entries.  Correct when the pointers describe one sequence
per head, searches end, and return the first entry their callback accepts.

**Mediator** (`clientdemo.c`).  One connection to the server's private port and one
tunnel; the service on the private host is dialled when a request comes and no
connection to it is free, and parked in a wait entry when its answer is sent.
Hard: the same two-field tunnels, moved service connections, half closing.  Correct
when at most one service connection exists and is never lost, requests wait only
for want of one, and answers go where requests came from.

Left out: **start-up** (options, `socket`/`bind`/`listen`, `sigaction`),
`leveltrg_demo.c` (a stand-alone example) and disabled code (`#if 0`,
`openServerSock1`, `connecting_state`, which no statement assigns).

Interactions: each loop calls handlers through the socket's tunnel; handlers share
tunnels and lists; sockets own two buffers; the server and the mediator share one
byte stream in each direction; the peers and the kernel act between any two looks
the code takes at them.

## 2. The server

### TunnelServer

| variable | code |
| --- | --- |
| `tun[r]` | `tunnel_t` blocks, numbered in the order they are allocated (the code never frees one on these paths) |
| `sock[k]` | `sock_t` blocks; a freed block may be handed out again.  The record also holds the epoll mask and the kernel's side of the connection: unread bytes, FIN, RST |
| `appList`, `waitList` | the two lists, head first |
| `batch`, `pc`, `scan` | where `server_start` is: the events not yet handled, the position of `AppListDo` |
| `dials` | connections still to be made (a bound) |
| `fault` | the first dereference of `NULL` ("null") or of freed memory ("freed") |

Actions: `EpollWait`; `AcceptPriv`, `AcceptRemote`, `AcceptFails`; `ReadHandle`,
`WriteHandle`, `StaleEvent`; `PairSkip`, `PairBind`, `PairingDone`; `PeerSend`,
`PeerFin`, `PeerReset`.  Each handler is one action, with everything it calls: the
operators `SockShutdown`, `CloseSock`, `ForcedT`, `TunnelSwitch`, `Handshake`,
`TunnelConnected`, ... are the functions of those names, and take `s`, the sockets as
the handler has changed them so far.  A walk of `AppListDo` is one action per list
entry only so that traces are readable; nothing else runs meanwhile.

- *Undefined behaviour* is not hidden: an action that would dereference `NULL`, or an
  event whose `sock_t` was freed earlier in the batch, sets `fault` and the
  behaviour ends there.  Both happen in this code; every property speaks of the
  behaviour up to that point.
- *Bytes*: a buffer holds some or none.  A handshake call parses nothing, a part of a
  message, or all of one, or refuses; a refusal closes the socket the event was for,
  which is the client when the call was made for it, and the private socket then keeps
  what is left of its bytes.  A refusal is allowed without bytes too, since a wrong
  `ATYP` is looked at again by every call.  `Handshake` has the bytes.
- *Peers* act only while the server is in `epoll_wait` or while an event of theirs is
  still in the batch.  No other action reads what a peer has done, so an earlier move
  of the peer gives the same behaviour: this loses no interleaving.
- `epoll_wait` must report sockets that are readable (level-triggered) and reset ones
  that wait to write; it may report other writable sockets and waiting connections (a
  send buffer may be full, a connection may not have come yet).  Batches hold at most
  `MaxEvents` events, in any order.

### Streams

`Streams` lays identity over `TunnelServer`'s bits.  `held[k]` has, for every
socket, the pieces in the kernel (`rx`), in `read_buff` and in `write_buff`; a piece
is the n-th of client `from`'s request, or the n-th of the private side's answers,
`to` the client it answers, or `Anonymous` (handshake bytes and the fixed page).
`who` numbers the peer behind a socket, clients and private connections alike; a piece
written to the private side is noted with its connection.
Each action is `TunnelServer`'s action together with the movement of the pieces:
`ReadIn` (`buff_readfd`), `Carry` (`buff_concat`, `buff_clear`), `TakeLeft`
(`sock_shutdown`'s `buff_concat`, with no `buff_clear`), `TakePage`, `StreamWrite`
(a prefix leaves the server).  `BuffersAgree` checks that the overlay and the
bits never part.  The histories `got` and `given` say what the private side and
the clients were given; `served` holds the clients something was written to, or
that were bound when the handshake ended: the two ways in which the code takes a
client for served.  The mediator at the other end sends handshake bytes
(`PrivateShakes`) and answers (`PrivateAnswers`), as an environment: it answers only what
has reached it over that connection (`Asked`), in any order, where `clientdemo.c` has one
order; `Mediator` is the program.  The runs have one connection (`MaxPriv = 1`), the theorems any
number.

### Handshake

`Handshake` runs one private connection.  A handler's labels (`header`, `uname`,
`plen`, ...) are operators that fall through to the next one; `read_count` selects
the label the next call starts at.  `ReadHandle(n, ok)` appends any `n` unread bytes
and calls the handler of the current state once.  `n = 0` is a call that brings no bytes,
made for the remote socket of a tunnel that got its client early.  A refusal closes the
socket of the event (socks5.c:458): the private connection when bytes came, but after a
call without, the client, and then the private connection stays open (`RefusalLeaves`), the
bytes read up to the wrong field are gone (`Refused`), `state` and `read_count` stand, and
the next call goes on from there.  The initial states choose `auth` (the server was
started with `-u` and `-k`), `patient` (the peer waits for an answer before it sends
the next message) and the peer's messages.  `SocksMessages` is the reference: it cuts
the unanswered bytes with one look at the whole message, and says which field a refusal
that leaves the connection open takes out of them (`WithoutField`).  The refinement maps its
`inbox` to the bytes already parsed, rebuilt from the saved fields (`Parsed`),
followed by the buffer.  Comparing the user name and password is a verdict `ok`.

## 3. The mediator

### Mediator

State as in `TunnelServer`, with `tun[0]` the tunnel of the connection to the
server and `tun[1..]` those of wait entries; a buffer is the set of the *kinds* of
bytes it holds (handshake, request, answer).  `replies` counts the two messages the
server has still to send.  The server's replies and requests are an environment
(`ServerReplies`, `ServerRequests`); a request may come before the last reply, from a client
the server has bound early (socks5.c:308), which ends the replies: the mediator parses it
as if it were the reply (`AfterReply`).  Actions: `EpollWait`, `ReadHandle`, `WriteHandle` and the
peers'.  `Service` is the choice of `tunnel_connected_handle`: take back a parked
connection, dial one, or fail to; `TunnelSwitch` parks a connection once the private
socket is flushed.  There is no accept, no pairing after the batch, and no
reconnection when the server goes.

### Channel

`Channel` puts the server's handshake and the mediator's on the two directions of
one connection: `wire` (mediator to server) and `down`.  The mediator's parsers are
`MedOpenHandle` and `MedRequestHandle`; the latter reads the server's "reply", which
is formed as a request, with the server's own grammar.  The messages are the bytes
both programs write.  The server relays the client's bytes right behind its last
reply (`ServerRelays`), the service answers as soon as a request is there.  Every
read takes any number of the bytes that have arrived.  A client that is bound early
(`ClientBinds` before the handshake's end) breaks the handshake: the alignment
properties exclude it, and say so.

## 4. Buffers and lists

`Buff` follows the read buffer a relay takes bytes from and the write buffer it
appends to.  Every call of `buff.c` is an action; `buff_write`'s loop of growing,
moving and copying is one action with every point at which `realloc` can fail.
`Doublings` is the capacity arithmetic in `int`.  `peak` is a history variable: the
largest backlog the write buffer was asked to hold.  `IsQueue` is the refinement
`received <- Content(rbuf)`, `outgoing <- Content(wbuf)` of `ByteQueue`.

`ListHead` has `next` and `prev` of every node, `Link` and `Unlink` in the order the
assignments are made, and one action per step of a walk.  `order`, a history
variable, is the sequence the calls ask for; `Represents` says the pointers are it.
The callbacks of the walks are sets of accepted entries.

## 5. Runs

| run | instance | shows |
| --- | --- | --- |
| `recycle` | 2 descriptors, 2 connections to each port, batches of at most 2, authentication | type invariant; wait entries own their socket; private sockets stay reachable; the wait list does not grow; parked clients have nothing unserved; epoll armed; nothing is closed without a cause; who can be freed under a pending event |
| `two_clients` (`Streams`) | 3 descriptors, one private connection, two clients at once, a piece of request each and one of answer, batches of one | ends point at each other; no idle tunnel beside a pending client; a client is given another's answer only in the cases named |
| `progress` | 2 descriptors, one private connection, two clients | reset connections are released, but for three named ways to starve |
| `idle_tunnel` | 2 descriptors, one connection to each port | expected violation, section 7 |
| `kept_alive` | 2 descriptors | expected violation, section 7 |
| `streams` | 2 descriptors, two clients in turn, 2 pieces of each request, 2 of answer | requests reach the private side in order and once; the answers are relayed in order and once, but to a finished client; a piece lost has a cause |
| `handshake` | greeting, credentials and request of every form, right and wrong; patient and impatient peers; both kinds of server; calls for either end | types and checked lengths, labels, refinement of `SocksMessages`, a cooperative peer is answered |
| `channel` | the two programs' own messages; a client that sends SOCKS5 bytes | both ends agree where the handshake ends, and reach its end |
| `mediator` | the private socket, two service sockets, 3 wait entries | types; one service connection, tracked; no stale event; no request left beside a connection; no echo without a cause; reset connections are released |
| `mediator_reuse` | same | expected violation, section 7 |
| `buffers` | capacity 2, `int` limit 7 | indices in bounds, memory bounded by the backlog, refinement of `ByteQueue` |
| `lists` | 3 entries, 2 lists | pointers describe the lists; searches end and find the first |

*Why the bounds are enough.*  With two descriptors a private and a client socket
exist together and both are released and allocated again, so tunnels, wait entries
and `sock_t` blocks are reused; with three, two clients compete for one tunnel,
which is the smallest case in which a client is parked beside a bound one or
replaces it.  `MaxTunnels` is never reached (a handler that found none would simply
be disabled): it is at least `MaxPriv`, the most tunnels `appList` can hold, plus the
number of descriptors, the most entries `waitList` can hold (`WaitListBounded`).  A
batch of two contains every pair of events in both orders.  In `streams` two pieces
show order and repetition; `MaxGiven` allows one repetition.  `two_clients` needs
three sockets; with batches of one event every order of events is still explored, but a
pairing walk comes after each; what batches add is in `recycle`, `progress` and `streams`,
and the theorems have batches of any size.
Buffers of two bytes grow once and hit the capacity limit; all three cases of
`buff_write` occur at every index.  The handshake's bytes are the real ones: address
lengths 4 and 16, empty and longest fields, one byte more than the longest (with
`MaxField` 2; `channel` uses 20, above every field its messages have).  The mediator
never needs a second wait entry or service socket (`OneService`), and has room for
them.  Three entries on two lists have every neighbourhood of a node: alone, first,
last, between two others.

`CHECK_DEADLOCK FALSE`: the server and the mediator really stop where they fault, the
connections a run may make are used up, and a handshake ends.  `buffers` and `lists`
check deadlock.

*Fairness.*  `TunnelServer` and `Mediator`: weak fairness of `Loop` as a whole, one
thread that keeps running and an `epoll_wait` that returns when something is ready.
No action of the loop is singled out and peers owe nothing.  `Handshake`: weak
fairness of `ReadSome`: level-triggered epoll reports unread bytes until they are
read.  `Channel`: the same at both ends, and the mediator sends the greeting it has
put into its write buffer; clients and the service owe nothing.  `ListHead`: a call
runs to its end.

## 6. Proofs

| module | theorem | statement |
| --- | --- | --- |
| `TunnelServerProofs` | `TypeCorrect`, `NoDangling` | `Spec => []TypeOK`, `Spec => []NoDanglingSock` |
| | `EntriesOwnRemote`, `PrivateReachable`, `ParkedStayDrained`, `EntriesRecycled` | `[]WaitEntriesOwnRemote`, `[]PrivReachable`, `[]ParkedDrained`, `[]WaitListBounded` |
| | `AlwaysArmed`, `PairedInOneWalk`, `StaleIsClient`, `ClosedWithCause` | `[]EpollArmed`, `[]NoIdleWhilePending`, `StaleOnlyClient`, `ReleaseHasCause` |
| `StreamsProofs` | `StreamTypes`, `RequestsOrdered`, `RequestsKept`, `AnswersRelayedOnce` | `[]StreamsTypeOK`, `[]RequestsInOrder`, `RequestLossHasCause`, `[]AnswersOnce` of `StreamsSpec` |
| `MisdeliveryProofs` (extends `StreamsProofs`) | `MisdeliveryCaused` | `StreamsSpec => MisdeliveryHasCause` |
| `HandshakeProofs` | `TypeCorrect`, `NeverAborts` | `Spec => []TypeOK`, `Spec => []ResumesAtLabel` |
| | `Parses` | `Spec => ParsesMessages`, a refinement |
| `ChannelProofs` | `RequestsInPlace`, `AnswersInPlace`, `MediatorNeverAhead`, `ChannelNeverAborts` | `[]RequestsAligned`, `[]AnswersAligned`, `[]MediatorFollows`, `[]ResumesAtLabel` of `ChannelSpec` |
| `MediatorProofs` | `TypeCorrect`, `NoStale`, `Holders`, `NoLeak` | `[]TypeOK`, `[]NoStaleEvent`, `[]ServiceTracked`, `[]OneService` |
| | `Backlog`, `Drained`, `NoEcho` | `[]BacklogNeedsService`, `[]DialledDrained`, `EchoHasCause` |
| `BuffProofs` | `IndicesInBounds`, `MemoryBounded`, `BuffersAreQueues` | `[]TypeOK`, `[]WriteBuffBounded`; `Spec => IsQueue`, a refinement |
| `ListHeadProofs` | `TypeCorrect`, `PointersDescribe`, `Walks`, `EmptyTest`, `Finds` | `[]TypeOK`, `[]Represents`, `[]WalksInOrder`, `[]EmptyIsEmpty`, `FindReturnsFirst` |

They use only the named assumptions of the modules (constants are of their types, and
there are finitely many `sock_t` blocks) and hold for any number of
sockets, tunnels, wait entries, events, list entries and lists, any initial capacity
and `int`, any scripts, requests, answers and field limit.

*NoDangling.*  The invariant alone says nothing of the types its handlers index
with, so it is proved as part of `IInv`: `HeapInv` (the heap's types, every open
socket belongs to a tunnel, `NoDanglingSock`), `ListsOK` (`waitList` is a sequence
of tunnels, the type of `fault`) and `LoopOK` (the types of the loop's variables,
and the batch holds a listener only while it has a dial left).  Without the first
a handler could look up `tun` outside its domain; without the last an accept could
take `dials` below zero, and `TypeOK` would not be preserved.  The proof has one
lemma per handler, built from lemmas on `ForcedT`, `PrivShutT` and `RemoteShutT`.

*The pool.*  `WaitEntriesOwnRemote` is not inductive: nothing in it says that a handler
that sets a tunnel idle does not do so to a wait entry, or that the socket it
recycles is no one else's.  `PoolInv` adds what the code relies on and states
nowhere: the two lists share no tunnel and name only tunnels already allocated
(`ListsApart`); a tunnel of `appList` is never in `tunnel_waitting` and has no ends once
it is free, one of `waitList` has a client exactly until it is free (`AppT`, `WaitT`);
every private socket is the end of a tunnel of `appList`, and every client belongs to
one or is the client of a wait entry (`SockOK`).  `ParkedDrained` needs more: a client
of a tunnel in use has nothing in its read buffer once connected (`RunOK`), or else a
switch would park a client with a request; before, nothing is being written to it and
no event for it can be taken for the end of a write.  A new entry is made only when none
is free, so every entry then has a client; clients of two entries differ, and the map
from entries to their clients is an injection into the sockets: with `FiniteAssumption`
that gives `WaitListBounded`.

*The loop.*  `EpollArmed` is inductive given the types.  `NoIdleWhilePending` follows
from an invariant of the walk (`WalkOK`): behind the cursor no tunnel is idle, since
`PairBind` leaves the tunnel it stands at in use and touches no other of `appList`; the
walk ends at the end of the list or when no client is left.

*Closing.*  `FreedWith` says what a handler run for an event of `k` may free: `k`, or a
client together with `k`, its private end.  `epoll_wait` reports a socket as readable or
as writable, not both (`OneEvent`), so `k` itself has no event left, which gives
`StaleOnlyClient`.  `ReleaseHasCause` goes through the same handlers once more for what
they begin to close; it is about the step that frees or half-closes a socket, since
a socket may be half-closed long before it is freed, and another client bound by then.
It does not ask that a closed private socket had bytes to read: an event for a freed
client may be dispatched to a private socket that was given the same block in the same
batch, and is then taken for a read of nothing.

*The streams.*  `StreamsSpec` takes `TunnelServer`'s steps, so the pool's invariant holds
of it too, and `StreamInv` adds what the pieces need.  `BuffersAgree` is the easy half.
For `RequestsInOrder` one has to know where the pieces of one client can be.  `Holds`:
requests are in a client's read side and in the write buffers of private sockets,
nowhere else.  `InLine`: of one client, what was written to the private side comes before
what waits to be written, and that before what has not been relayed.  That would not last
if the pieces of a client could wait at two private sockets, so `OneCarrier` says they
cannot, and the reason is `Bound`: while a client is the end of a tunnel that is not
waiting its pieces are at that tunnel's private end, and a client that waits to be bound
has none under way.  A client that is parked again, kept alive, may have some; it is never
bound again (finding 1), and had it been, its next request could overtake the first.
For `AnswersOnce` the other direction is followed from the private socket on
(`AnswersInv`).  What is still to come over a connection - its `rx` behind its
`read_buff` - rises in number, was sent, and is behind all that clients were given from
it (`DueAt`), notes of finished clients left aside; a connection has one socket, because
`who` numbers them in the order they came.  A relay empties `read_buff` onto `given`
and keeps this.  `sock_shutdown` alone copies and does not empty (`LeftDue`), for a client
whose FIN was read: the notes it adds are those of a finished client, which the
property excepts.
`HandshakeFirst` says that a handshake's bytes come before any request's, which is what
lets `Join` count bytes that are nobody's once.  `WhoOK` gives every client a number of
its own, and those still to come have sent nothing.  A handler settles what it moved
(`Settle`): each step exhibits the contents before released sockets lose theirs, shows
that they keep the order (`Moves`), and that no piece of an open socket is missing in them
(`Lossless`), which is `RequestLossHasCause`.

*Misdelivery.*  The server relays by position: what a private connection sends goes to
whoever is bound to its tunnel.  So `MisdeliveryHasCause` is about bindings, and `TieOK`
ties them to what was asked.  `Tied`: if a piece of `c`'s request is in the write buffer
of a private socket or was written to it, its tunnel is connected, and as long as
`c` is there and not taken for served the tunnel is in use, with `c` or with nobody.
An answer comes for who asked (`AnswersAsked`), so it is given to another only when `c` is
gone or in `served` (`GivesCaused`).  `Tied` is kept because a new client is given an
idle tunnel, a waiting one too, and a tunnel in use becomes idle in four ways: the
write that flushes its client's answer, which puts the client in `served`; the close of
one of its ends, which frees the client; the end of a handshake with a client bound,
which `served` notes as well; and an event taken for the end of a write that
has nothing to write.  The last is the hard one.  A client with nothing to write is
not watched for room (`Armed`), so such an event was meant for an earlier socket in
the same block, and `NoFalseWrite` says that the client that came into it in this batch
has asked nothing yet.  `RunServed` says that a tunnel whose client may still
ask is in use, and `GotOpened` that a new connection was asked nothing.  `TieInv` claims all
this until a fault: after one nothing moves.

*The mediator.*  One inductive invariant carries the first four theorems:
`IInv == Heap /\ BatchOK /\ LoopOK`.  `Heap` says who may hold what: the private
socket is the one of `tun[0]` (`PrivOK`), the ends of tunnels are open (`EndsOK`),
there is one wait entry, alive with its socket or free without (`WaitOK`), and every
service connection has exactly one holder (`Tracked`).  `BatchOK` has the batch's
events at open sockets; it needs that a handler frees only the socket its event is
for, and that this was the socket's only event.  The last three theorems need
in addition `Relay`: no request bytes ever reach a service socket's read side
(`NoRequest`), and at each end what is unread agrees with the tunnel's state
(`FlowAt`).

*BuffersAreQueues.*  The invariant is the index order and `data`'s domain; each
operation is shown to change `Content` as the queue's action does.

*MemoryBounded.*  The backlog never exceeds `peak`, and the capacity a `buff_write` leaves
behind was there before or is twice one that did not do (`WriteGrows`).  That uses
what doubling reaches: `Reachable` is the smallest set that holds the first
capacity and is closed under doubling, so every other member is twice a member
(`DoublingsStep`).

*NeverAborts.*  Each stage of a handler returns a record whose `read_count` is one
of the labels of its state and whose lengths were checked (`Sound`); stages compose
in the order they fall through.  With an empty user name two labels share a count,
and the proof follows the order of the comparisons.  A refusal is one more way to leave a
stage, with the count as it stands, so the calls after one that leaves the connection
open start at a label too.

*Parses.* The reference looks at a whole message, the code at one field per label. The
mapped inbox, `Parsed(t) \o buf`, joins the two: every stage either leaves it as it is
and moves the border between its halves, or refuses and takes the wrong field out. So
one call of a handler has one of three outcomes, and each is a question about the inbox
alone: the message is not all there (`Waits`), all there and right (`Takes`, which
leaves what is behind the message), or wrong (`Refuses`). These are the three cases of
`SocksMessages`; in the third it lets the connection be closed, or, after a call that
brought no bytes, go on with what `WithoutField` leaves. The theorem promises no more of
an invalid peer.

*The channel.*  `RequestsAligned` and `AnswersAligned` say nothing of the time before a
handshake ends, so they are not inductive.  `InStep` names, for each stage, all the bytes
that are under way in each direction (`AtGreeting`, `AtRequest`, `AtStreams`), what a
parser has already saved included: each end then has exactly one message to parse, and
what is behind the last one is the streams.  The stages are those of a client that is not
bound early; with one that is, only the types and the labels are kept, which is
`ChannelNeverAborts`.

*Lists.*  `IInv == TypeOK /\ Represents /\ WalksInOrder /\ WalkHasList`.
`Represents` is about both pointers of every list at once, because linking an entry
writes to two neighbours that must be shown not to be nodes of another list.
`RemovedSeq` and `RingAt` say what the sequence and its circle are after a removal,
`OnePlace` that a node has one place; `LinkRepresents` and `UnlinkRepresents` are the
two preservation steps.  `EmptyIsEmpty` and `WalksInOrder` are checked by no run: they
are on the way to what `lists` checks.

Only model-checked: liveness (both `ResetReleased`, `MessagesAnswered`,
`HandshakeCompletes`, `WalkEnds`), which is out of reach of the prover.  Every other
property of a passing run is a theorem.

## 7. Where code and documentation differ

1. `kept_alive`: a client that was served and kept open is answered with the fixed
   page when it sends its next request, and its entry is never paired again; the
   README says it is kept alive, "waiting to be paired with the next request".
2. `mediator_reuse`: a parked service connection is taken back without its
   `sock->tunnel` being set; its answers are read and stay in its `read_buff`.
3. `idle_tunnel`: closing a private socket by force (here for a refused greeting) leaves its
   tunnel idle in `appList` with no private socket, to be given to the next client; the
   README speaks of "idle established tunnels".

Also seen, and visible in the models.  In the server:

- an event of the current batch for a freed `sock_t` (fault "freed"); the log line that
  dereferences the private socket an idle tunnel lacks (fault "null", finding 3);
- a handshake message refused in a call made for the tunnel's client closes the client; the
  invalid peer stays, and what is left of its bytes is parsed on (`RefusalLeaves`);
- a client bound to a tunnel in its handshake that resets is read in every round and never
  released (`Ignored`);
- a new tunnel is idle, hence eligible, before its handshake: a client is bound, the
  state becomes `connected_state`, the rest of the handshake is relayed to it as an
  answer, and bytes already read stay where they are until more come;
- a client is detached as soon as anything has been written to it, so what follows of
  its answer goes to the next client (`MisdeliveryHasCause` names the cases);
- `tunnel_request_handle` makes a tunnel idle that already serves a client; the next
  client replaces it and the first is open in no list, though the README says each
  tunnel pair is tracked in one;
- a half-closed client that reads slowly is registered for `EPOLLIN` again by every
  write (socks5.c:509); its FIN is read again and the private side's left bytes are
  copied to it once more, without bound - "Receive fin, do not receive again";
- closing the private socket drops its client's pending output; a private socket that
  sends with no client bound is closed;
- a message that arrives in the same read as the one before it is only parsed when
  more bytes arrive (`MessagesAnswered` is about peers that wait);
- the bytes of a longer user name or password of an earlier connection remain behind a
  shorter one and are compared with it (socks5.c:643): a reused tunnel's handshake
  can be refused for them;
- a failing `accept` starves the rest of the batch; the second branch of
  `waitCompare2` never applies (`ParkedDrained`).

In the mediator:

- `-u` and `-k` are taken, never sent: it answers any method with its request;
- releasing a reused service socket clears the wrong tunnel's pointer and leaves
  `tun[0].remote` dangling (fault "freed");
- a parked socket whose pending write fails leaves an entry that is alive with no
  socket, which `waitLinePairing` dereferences (fault "null");
- the switch drops `EPOLLOUT` with bytes left to write; a FIN with an unserved request
  echoes the request to the server; a request that arrives together with the last
  reply is only looked at when more comes; there is no reconnection.

In the lists: `waitListDel1` passes the wrong address and the `*ListUpd` functions
copy over the links; neither has a caller.

## 8. Not modelled, and what is left

Not modelled: failing `malloc`/`realloc` in the server and the mediator (`Buff` has
`realloc`), `EINTR`, `epoll_wait` and `epoll_ctl` failing, logging, start-up, fields of
an earlier connection in a reused tunnel's handshake, several private connections in
`Channel`.

Left to do: failing allocation in `tunnel_create` and `getWaitobjFrList`.
