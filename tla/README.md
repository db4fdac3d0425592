# A TLA+ verification of ngtcp2-rs

`ngtcp2-rs` is a Rust wrapper of the QUIC library ngtcp2. This directory models
the parts of it that have state of their own, model-checks them with TLC and
proves what matters most with TLAPS. Paths are relative to `src/`.

## 1. The system

| part | where | state | operations |
|---|---|---|---|
| in-flight stream data | `ngtcp2/src/conn.rs` 174-290, 958-1081 | per stream: a `Vec`, the index and offset of the first unacknowledged byte, retired buffers | write, ACK, stream close, 0-RTT rejection |
| `Connection` (sans I/O) | `ngtcp2/src/conn.rs` | ngtcp2 connection, event queue, issued and retired CIDs | read, write, expiry, streams, close |
| pending streams and packet writer | `tokio-ngtcp2/src/streams.rs` | bytes and FIN waiting per stream, order | push, remove, `write_packets` |
| client driver | `tokio-ngtcp2/src/client.rs` | event queue, `closed` | connect, recv_event, flush, close |
| accepted connection ("handle") | `tokio-ngtcp2/src/server.rs` 560-1145 | the same, and a receive queue | the same, sync_routes, drop |
| server | `tokio-ngtcp2/src/server.rs` 1296-2495 | connections in handshake, `cid_map`, `addr_map`, `taken_cids` | accept, timers, new connections, Retry, Stateless Reset |
| shared routes | `tokio-ngtcp2/src/server.rs` 1181-1293 | routes and queues of the handles, under a mutex | resolve, register, deliver, remove |
| Stateless Reset | `tokio-ngtcp2/src/server.rs` 462-510, 2248-2306, `ngtcp2/src/reset.rs` | bucket, time of the last refill | try_acquire, write_stateless_reset |
| paths | `client.rs` 581-598, 797-903, `server.rs` 2520-2560, `streams.rs` 57-79, `ngtcp2/src/packet.rs` | socket, local and remote address | migrate, path events, close |
| address validation | `server.rs` 1744-2246, `ngtcp2/src/retry.rs`, `version.rs` | secrets, `new_token_submitted` | new connection, Retry, NEW_TOKEN, Version Negotiation |
| TLS and 0-RTT | `ngtcp2/src/crypto.rs`, constructors and tickets in `conn.rs` | `SSL_CTX`, `SSL`, ticket slot, boxes | constructors, set_server_name, tickets, drop |
| varints, settings, socket options, qlog, FFI | the other files | values, or the C library's state | conversions and I/O |

How they interact: the application queues bytes in the pending streams; a flush
offers them to ngtcp2 through `write_stream_with_flags`, which copies them into
the in-flight buffer first, because ngtcp2 keeps pointers to them until they are
acknowledged. Callbacks of ngtcp2 fill the event queue, and the driver hands the
events to the application. The server and all handles read the same sockets, each
in its own task, and pass what is not theirs through the shared routes.

What makes it hard: raw pointers into a growing buffer; writes accepted in part;
the difference between no frame and an empty frame; CIDs that ngtcp2 issues
inside any call and that the peer uses at once; a connection that changes owner
while packets are on their way; futures dropped at any `await`; an end of the
connection that shows in five ways; integer arithmetic that rounds and saturates;
constructors that fail half way with C objects already allocated; tokens that
outlive the process that made them; addresses kept in two layers.

`PROJECT.json` lists the hazards with the line where each bites and the
properties that watch it.

## 2. Modules

`InFlightStreamData` - **the buffers ngtcp2 points into.** `entry` is
`in_flight_stream_data`, a record with the fields of the Rust struct; a `Vec` is
`[id, cap, len, at]`, where `id` names the allocation and `at` tells which byte of the
stream is in a place. `quic` is ngtcp2's view of a stream, with a pointer
`[id, index]` for every byte that is not acknowledged. `append` with `Reserve`,
`ack_until` and `truncate_unwritten` are the methods; the actions are
`OpenStream`, `WriteStream`, `AckedStreamData`, `StreamClose`,
`EarlyDataRejected`, `HandshakeCompleted`. Freeing or moving a buffer is
visible: a pointer then leads to no allocation, or to another byte.

`StreamWriter` - **the queue and the packet loop.** `data`, `fin`, `order` are
`PendingStreams`; `phase`, `todo` and three flags are the locals of
`write_packets`. Each iteration is one step whose outcome is one of the answers of
`ngtcp2_conn_writev_stream`: a frame with some of the bytes (`Accepted`), no
frame (`NoFrame`), blocked, shut, no such stream, draining. `ControlPackets` is
`write_control_packets` with the test that ends the loop. A byte carries its
number and whether it was written before a 0-RTT rejection.

`ServerRoutes` (instances in `MCServerRoutes`) - **who gets a datagram.** The
tables of `Server` and `SharedRoutes`, the place of `accept` in its loop (`at`),
the place of every handle in its flush (`flushing`). What a task does under the
mutex, and between two awaits, is one step: `take_connection` is atomic, flush is
three steps (write, send, `sync_routes`) and can be dropped in between. The
network is `known`: a datagram to any CID a peer has learnt may be read at any
time, by the server or any handle, any number of times or never, which covers
loss, duplication and reordering. `astray` records the last datagram that did not
reach the connection it was sent to. `CreateConnection` covers the CID of a
preferred address as an issued one.

`ResetLimiter` - **the token bucket**, with saturating arithmetic at a width
`U64Max`, and `SendStatelessReset`, which draws the permit before it looks at the
CID. `window` is a history variable: an interval that may be opened at any
moment, so an invariant about it is one about every interval.

`StatelessReset` extends it with **the exchange of resets**: `flight` is the
datagram on its way between the server and a peer that, like the server, answers
packets of connections it does not know. `write_stateless_reset` is the length
the code computes.

`StreamSender` - **what the writer promises**, stream by stream: bytes are sent in
the order they were written, the end is sent after all of them and once, nothing
is sent on a stream that was abandoned. `StreamWriter` implements it
(`SenderImplemented`, with `SenderState` as refinement mapping): an iteration of
the loop is a `Send` or a stutter.

`ConnectionEvents` - **the driver and the end of a connection.** `role` says
which of the two implementations runs; they differ in what a timer error does and
in who drains events after a flush. `pc` is the await the task is at; every
await can be cancelled. `quic` has the states that the drivers can tell apart.

`ConnectionPaths` extends it with **addresses**. `path`, `pv`, `back`, `offer` are
ngtcp2's; `socket`, `local_addr`, `remote_addr` are the fields of the drivers.
Every action of `ConnectionEvents` is taken together with what it does to the
paths: a read may validate a path or find the peer at a new address, a write may
fail a validation, the events are labelled with the path they report, and
draining them moves `remote_addr`. New are `Migrate` and the datagrams of the
CONNECTION_CLOSE (`split_packets`, on the sequence of the packets' types).

`AddressValidation` (instance in `MCAddressValidation`) - **what is done with an Initial
of no connection.** `handle_new_connection` is the cascade of the code: Version
Negotiation, refusal of what is no Initial, Retry at once, the check of the token,
the limits, Retry on ngtcp2's request, the connection. A token is the record of
what ngtcp2 seals; its secret is the configured one or the process's own, its time
the clock of the process, which starts again at a restart. Retry packets and
Initials stay in the network for ever. `ServerRoutes` has the tables that this
module leaves out, and leaves out the tokens.

`TlsSessions` (instance in `MCTlsSessions`) - **who owns what, and 0-RTT.** `heap` is the
set of C objects and of the boxes they point into. A constructor is the sequence of its
fallible calls (`Step`): what each allocates, and what its error path frees by hand;
any of them may fail. `DropOrder` is the order in which Rust drops fields and locals.
It differs between the sides: `ServerConnection` declares `conn` before its `Arc` of the
`TlsContext`, while `ClientConnection` declares `_tls_ctx` (`client.rs:201`) before
`conn`, so a client's `TlsContext` is dropped first. aws-lc counts the references to an
`SSL_CTX`: one of the `TlsContext`, one of each `SSL` made from it (`Users`), and frees
it with the last (`Released`). A ticket remembers the early data context of the
connection it came from, and the limits the client will keep to.

The theorems are in modules of their own: `InFlightProofs`, `StreamWriterProofs`,
`StatelessResetProofs` (with the limiter), `ServerRoutesProofs` (the tables) and
`ServerReadsProofs` (whom a read reaches), `AddressValidationProofs`,
`TlsSessionsProofs` and `ConnectionPathsProofs` (the driver and the paths).

Components that are ngtcp2 itself (the C library) are modelled by every answer the
Rust code distinguishes, and are marked external in the map.

## 3. Runs

| run | states | shows |
|---|---|---|
| `in_flight` | 22 thousand | every byte ngtcp2 may retransmit is where its pointer leads (`RetransmitSafe`); the buffer ends at the offset ngtcp2 writes next; retired buffers are freed |
| `stream_writer` | 1.9 million | accepted bytes followed by queued bytes are the bytes written; a FIN stays queued until a frame carried it; no packet is left half filled; the writer implements `StreamSender` |
| `stream_writer_live` | 163 thousand | every call of `write_packets` ends; the queue is emptied |
| `server_routes` | 303 thousand | no dangling route; the tables follow ngtcp2's active CIDs; datagrams reach their owner; late packets to a retired CID are not answered with a reset |
| `server_routes_zero_length` | 212 thousand | datagrams reach their owner where the address routes, with Retry, and a `taken_cids` of one entry |
| `stateless_reset` | 291 thousand | the rate is bounded in every interval, no time is lost in rounding, and after a silence the next packet gets its permit; a reset is shorter than what it answers and still a reset |
| `connection_paths` | 473 thousand | events are delivered once, in order; `ConnectionClosed` is last, is reported, and is never turned into a failed write; socket, path and `remote_addr` stay together through migrations that fail, are refused or dropped |
| `address_tokens` | 1.7 million | a token lets in only the address it was sent to, and in time; fresh tokens are honoured; the connection IDs announced are those the client expects; a process never holds more than `MAX_CONNECTIONS`; NEW_TOKEN goes to proved addresses only |
| `tls_sessions` | 1.0 million | no failing step leaks (one known exception, below) and nothing is freed in use; the certificate is checked against the last name; accepted 0-RTT data is within the limits; a rejection is reported once and first |

Three runs show a doc and the code in disagreement. They are expected to fail.

| run | property | what happens |
|---|---|---|
| `stream_writer_closed_stream` | `ErrorOnlyWhenUnrecoverable` | a stream closes while data for it is queued; ngtcp2 answers that there is no such stream, `streams.rs:243` returns it, and flush fails on a healthy connection, each time |
| `stream_writer_rejected` | `RejectedDataDiscarded` | the queue keeps what was written in 0-RTT, and sends it when the stream is opened again |
| `server_routes_reset` | `NoResetForLiveConnection` | `send_datagram` does not call `sync_routes`, and `flush` does so after sending: the peer uses a CID the server does not know |

Five more disagreements are kept as configurations and are not among the runs. TLC
refutes the property named; for three of them a weaker property is checked by a
passing run.

| configuration | property | what happens |
|---|---|---|
| `ServerRoutesReader.cfg` (`MCServerRoutes`) | `EveryReaderReachesOwner` | a handle knows accepted connections only, and takes the datagrams of those in handshake for its own, though `server.rs:1172` wants them to reach their owner whoever reads them; `HandleReadsReachHandle` is what holds |
| `ConnectionEventsIdle.cfg` (`ConnectionEvents`) | `IdleTimeoutReported` | `client.rs:572` drops the error of `handle_expiry`, the only sign of an idle timeout, against `lib.rs:249`; `HandleIdleTimeoutReported` is what holds |
| `ConnectionPathsPreferred.cfg` (`ConnectionPaths`) | `CloseFromArrivalAddress` | `AcceptedConnection::close` (`server.rs:1123`) sends from the primary address after the client moved to the preferred one; `docs/quic.md:334` says that the server answers from there; nothing weaker is checked |
| `ConnectionPathsVersion2.cfg` (`ConnectionPaths`) | `CloseInOwnDatagrams` | `packet_len` reads the type bits as version 1 has them, so an Initial of version 2 is cut at the wrong place and what follows a Handshake packet is not cut off, against the comment at `streams.rs:57`; nothing is checked of version 1, where `split_packets` cuts off every packet by its definition |
| `AddressValidationProcesses.cfg` (`MCAddressValidation`) | `FreshTokenAcceptedAnywhere` | the time in a token is that of the process that made it (`timestamp` counts from the start of the process), so another process with the same secret may refuse a fresh one; `retry.rs:133` and `server.rs:1412` promise otherwise; `FreshTokenAccepted` is what holds |

Seen while modelling, without a run of their own: `write_packets` leaves at the first
blocked stream although `streams.rs:155` says that it sends all it can (the rest
goes in a later flush; `QueueDrains` shows it for a peer that gives every stream
credit again and again, and not that a stream waits for no other: behind one that
gets no credit it does wait); a client drops its `TlsContext` before the connection,
although `server.rs:518` and `test_conn.rs:113` ask for the opposite order, and what
keeps the `SSL_CTX` (`NothingFreedInUse`) is the reference of the `SSL` alone;
`SharedRoutes::resolve` falls back on
the address for long headers too, which `server.rs:1548` excludes for the
server's own table; a short header packet for a handle is taken by a
connection with an empty CID that is still in handshake at the same address
(stated as the exception in `ServerReadsReachOwner`); a local `close` raises no
event, though `lib.rs:249` lists it; after a fatal `read_pkt` the next round of
recv_event still calls `write_pkt`, against `conn.rs:696`; `new_server` does not
free the `SSL_CTX` when a path holds a NUL (`crypto.rs:298`, `310`, against the
comment at 273; the exception in `NothingLeaked`); without a `retry_secret` the
server still sends a Retry when ngtcp2 asks for one, and NEW_TOKENs
(`server.rs:2027`, `1961`, against the docs at 124 and 160); a small packet of
version 2 is answered with a Version Negotiation by a server of version 1 only,
although the comment at `server.rs:2213` excludes small packets; 0-RTT data that
is processed after the handshake completed is not counted by
`received_early_data`.

### Bounds

- `in_flight`: one stream (streams do not share entries), 6 bytes in chunks of at
  most 3: enough to grow the buffer twice, so that two retired buffers coexist
  with partial ACKs.
- `stream_writer`: two streams, two bytes in all, one unit of credit and of window,
  one probe: partial writes, a blocked first or last stream and half-filled
  packets all occur. `stream_writer_live` has three bytes and no teardown.
- `server_routes`: two clients at one address, one issued CID each, a queue of
  one: a CID is issued and retired before, during and after the hand-over, and a
  queue overflows. A key makes one connection; a client that starts anew is
  another client. `MAX_TAKEN_CIDS` (8) and `MAX_CONNECTIONS` (2) are not exceeded
  here; in `server_routes_zero_length` both are 1 and are, and the theorems of
  section 4 hold for every value of them.
- `stateless_reset`: rate 3 and a second of 10, so that a permit does not cost a whole
  number of ticks; at the last of 14 ticks the product exceeds the largest integer,
  40. With a token of 3 bytes, 2 to 4 random bytes and datagrams of 1 to 9 bytes the
  length is below, at and above each of the limits.
- `connection_paths`: five events, at most two in one call; two addresses
  of the client, two moves: a second one starts while the first is validated.
  Versions 1 and 2.
- `address_tokens`: two attempts, two addresses, one process with one restart, three
  ticks against a timeout of two. The sum of time and timeout is taken in three
  bits, and does not wrap (`AddressValidationAssumption`). With 64 bits it does not in
  the lifetime of a process, unless `retry_token_timeout` itself is set close to the
  largest integer or beyond (`retry.rs:319` cuts it off), which no setter refuses:
  fresh tokens could then be refused.
- `tls_sessions`: two connections, so that the second may use the ticket of the
  first; one DNS name and one address; two limits, so that they go up or down.

Symmetry is used for clients (with their addresses) in runs of invariants only.

### Fairness

`stream_writer_live`: a running `write_packets` goes on (it is synchronous code)
and the driver calls flush again and again (recv_event's loop); the peer gives
credit and acknowledges again and again (a live peer; without it nothing could be
promised). `connection_paths`: the application keeps calling recv_event and does
not drop every call at the same await; an expired timer is always a ready branch
of `select!`; sending completes. Nothing is assumed of the peer.

Assumed of the application: it does not write after a FIN, nor to a stream it has
not opened. `CHECK_DEADLOCK FALSE` is in the configurations of two passing runs: in
`connection_paths` a `connect` that failed leaves no connection to go on with, and
in `address_tokens` the bounded clock, attempts and restarts come to an end.

## 4. Proofs

TLAPS proves for any set of streams and any sizes (`InFlightProofs`):
`TypeCorrect`, `BuffersOutlivePointers` (`[]RetransmitSafe`),
`HeldAgreesWithNgtcp2` and `RetiredAreReleased`. The safety of the pointers is not
inductive: it has to be known *where* a byte is. `IndInv` says that entry and
ngtcp2 agree on the offsets (`Agree`), that the current buffer holds the
unacknowledged bytes in order (`InOrder`), and that each pointer leads to its byte
in the current buffer, or to one in a retired buffer that ends beyond it
(`PointersLead`), so `ack_until` cannot free it too early. One lemma per method
(`ReserveLemma`, `WriteKeepsStream`, `AckKeepsStream`) does the work; `NextKeeps`
has one step per action. Before the handshake decides on 0-RTT nothing is
acknowledged, which is why a rejection may start the offsets again.

For every burst, rate and integer width (`StatelessResetProofs`): `TypeCorrect`,
`RateIsBounded`, `TimeIsNotLost`. Assumed (`ResetLimiterAssumption`): rate and
burst are positive, the rate is at most the number of nanoseconds in a second, and
that number, the burst and every time fit the integers.
The inductive parts compare permits granted and left with the time paid for:
`RatePart` says that, but for a burst and a period, they have been paid for by the time
taken off; `TimePart` that no more time was taken off than they are worth. Rounding enters in `RefillTime` alone. The rate is bounded as long
as the product of time and rate does not saturate, about 17 years of uptime.

`SilenceRecovers` adds that a limiter left alone for the price of one permit grants
the next; the lemma `SilencePays` shows it of `refill`, whether or not the product saturates.

The same module shows that the server with lengths, secrets and taken CIDs
implements the limiter (`LimiterUnaffected`: `ResetSpec => Spec`), so the bound on
the rate carries over (`ResetRateIsBounded`), and `ResetTypeCorrect` and
`EveryResetShrinks` for every length of token, of random bytes and of packets.

For any streams and bounds (`StreamWriterProofs`): `TypeCorrect`, `NoByteLost`,
`FinKept`, `PacketsCompleted` and `ImplementsSender` (`SenderImplemented`). The
inductive invariant is `TypeOK` and, for each stream, `StreamInv`: what was offered
ends with what is queued; while the stream is idle or open, what ngtcp2 accepted
followed by the queue is what was offered, and the FIN is queued exactly when it was
asked for; a FIN that was carried came after everything. The idle case is needed
because a 0-RTT rejection makes a stream idle again with data still in its queue.
Each step has a lemma that proves both that the invariant is kept and which step of
`StreamSender`, if any, it is; `AcceptedKeeps`, for a frame with some of the bytes, is
the long one. `PacketsCompleted` is inductive once the types are known.

**Routing** (`ServerRoutesProofs`), for any clients, addresses, CIDs and limits, with
and without Retry and for every length of CIDs: `TypeCorrect`, `NeverDangling`
(`[]NoDanglingRoutes`) and `RoutesFollow` (`[]RoutesFollowActiveCids`). `IndInv` adds
to these that a route belongs to the connection it leads to (`RoutesBelong`); that a
connection still in the server has nothing to poll, and that only a handle is in a
flush (`Bookkeeping`), without which the hand-over could lose a CID; and what the
clients know and the server remembers of retired CIDs (`FirstKnown`, `RetiredRouted`,
`RetiredRemembered`). Each handler has a lemma; `take_connection` (`HandOverInv`), a
new connection (`CreateInv`) and `sync_routes` (`SyncInv`) are the long ones.
`ServerReadsProofs` derives from `IndInv` before a read whom the read reaches:
`LatePacketsNotReset`, `ServerReachesOwner`, `HandleReachesHandle`. The last two assume
`AddressesDiffer`: connections with an empty CID do not share an address. That is
the condition `ServerConfig::with_scid_len` states (`server.rs:320`), and without it
the address cannot tell them apart; for CIDs that are not empty it is no condition.
`server_routes_zero_length` satisfies it.

**Address validation** (`AddressValidationProofs`), for any processes, restarts,
attempts, addresses, Retry packets and timeout: `ValidationTypeCorrect`,
`FreshTokensAccepted`, `ClientAlwaysAgrees`, `NewTokensNeedProof`, and the action
property `AlwaysValidatedInTime`. `IndInv` follows a token from the process that made
it (`MadeRight`: under which secret, and when by that process's clock, which may have
been restarted since) through the network (`RetriesRight`, `NewTokensRight`) and the
client (`ClientsRight`) to the connection it let in (`ConnsRight`, with the three ways
in of `LetIn`).

**TLS and 0-RTT** (`TlsSessionsProofs`), for any connections, names and limits:
`SessionTypeCorrect`, `NeverLeaks`, `NeverFreedInUse`, `IdentityAlwaysLastName`,
`EarlyDataAlwaysWithinLimits`, `RejectionAlwaysReported`. What the constructors leave
behind at each failing step is computed by lemmas (`ClientContextLeft` and its like).
`NeverFreedInUse` needs that each `SSL_CTX` with an owner is referred to (`Referenced`,
kept by `ReleasedFacts`) and that an open context has its own reference (`Held`);
`GoneInOrder` says what the two drop orders have in common.
`EndsOK` ties the two ends of a connection together: the ticket in a client's slot
carries the limit of the server connection it came from, the context of a ticket is
the limit its parameters were taken with, and a rejection the client has seen was
that server connection's. Assumed: limits are positive, a name is not both a DNS name
and an address, and is none of the two words that stand for no name and for a bad one.

**The driver and the paths** (`ConnectionPathsProofs`), for any number of events,
addresses and moves. `EventsInductive` is about `ConnectionEvents` alone; that a
step with paths is one of its steps, or leaves its variables alone
(`PathsRefineEvents`: `PathsSpec => Spec`), carries it over. From it follow
`EventsAlwaysInOrder`, `ClosedAlwaysLast` and the action property `EndNeverError`.
`EventsInOrder` is not inductive: it has to be known that nothing is raised once the
end was queued, that all was drained when the peer's CONNECTION_CLOSE is read, and
that a local close happens in the application's turn only (`EndOK`). The numbered
events are written as functions (`FirstEvents`, `EndAt`), so that the proofs are about
elements and lengths and need no induction over sequences. `PathsInv` adds that no
event of a validated path waits in the sans-IO queue (`Drained`), which is why
`remote_addr` is never behind: `ClientAlwaysSendsFromPath`,
`RemoteAddrAlwaysCurrent`, `PathsTypeCorrect`.

Each inductive invariant was checked with TLC on the instance of the run before it was
proved. All type invariants are proved. Those of `TlsSessions` and of
`ConnectionPaths` (`PathsTypeOK`, with that of `ConnectionEvents`) are in no
configuration.

`Zenon` in a proof names the prover for a leaf that needs no arithmetic.
`ConnectionEvents` and `ConnectionPaths` define the two small operators on sequences and sets they need
(`HasEnd`, `LastOf`): the library module that has them would be in the context of
every proof obligation, and made the proofs three times slower.

Only model-checked:

- liveness and what rests on fairness (`FlushTerminates`, `QueueDrains`,
  `PeerCloseReported`, `HandleIdleTimeoutReported`): out of TLAPS's reach;
- the disagreements of section 3, which TLC refutes.

## 5. Not modelled

Encodings and conversions without state (`varint.rs`, `settings.rs`, `config.rs`,
`types.rs`, `event.rs`, `stats.rs`, the addresses in `conn.rs` and `socket.rs`),
socket options and ECN marks, qlog, certificate loading and the choice of the ALPN
protocol in `crypto.rs`, the generated bindings, and the calls of `Connection` that
pass straight to ngtcp2 (key update, flow control, statistics). The interop and
example programs only use the library. The contents of packets are never modelled, their
kinds and lengths are. `taken_cids` forgets any entry when it is full; the code
forgets the oldest. Whether ngtcp2 sends anything after a fatal `read_pkt` is
inside the C library.

## 6. Plan

Done, in this order: the in-flight buffers, with proofs; the stream writer; routing;
the limiter, with proofs; the driver; the abstract sender and the proofs of the
writer; tokens; TLS and 0-RTT; paths on top of the driver; resets on top of the
limiter; the proofs of routing, tokens, TLS, driver and paths. Left:

1. `StreamWriter` composed with `InFlightStreamData`; tokens composed with the
   tables of `ServerRoutes`.
2. Pure algorithms against a reference: varints, looking up a short header DCID
   among several lengths, ALPN.
3. The first-in-first-out order of `taken_cids`.
