--------------------------- MODULE StatelessReset ---------------------------
(***************************************************************************)
(* Stateless Resets between a Server and a peer neither of which knows the *)
(* connection: Server::send_stateless_reset (tokio-ngtcp2/src/server.rs),  *)
(* write_stateless_reset (ngtcp2/src/reset.rs) and the limiter of          *)
(* ResetLimiter, which this module extends.  A reset looks like a packet   *)
(* with a short header, so the peer may answer it with one of its own, and *)
(* so on.                                                                  *)
(***************************************************************************)
EXTENDS ResetLimiter

CONSTANTS
    TOKEN_LEN,          \* STATELESS_RESET_TOKEN_LEN: 16 in the code
    MIN_RANDOM_LEN,     \* 5
    MAX_RANDOM_LEN,     \* 26
    CidLengths,         \* connection id lengths the server may have issued
    MaxLen              \* bound: the longest datagram

ASSUME StatelessResetAssumption ==
    /\ TOKEN_LEN \in Nat /\ MIN_RANDOM_LEN \in Nat \ {0}
    /\ MAX_RANDOM_LEN \in Nat /\ MAX_RANDOM_LEN >= MIN_RANDOM_LEN
    /\ CidLengths \subseteq Nat
    /\ MaxLen \in Nat

VARIABLES
    secret,             \* whether the server has a stateless_reset_secret
    short_cid_lengths,
    flight              \* the datagram on its way: [to, len, reset]

fixed == <<secret, short_cid_lengths>>
rvars == <<vars, fixed, flight>>

NoFlight == [to |-> "none", len |-> 0, reset |-> FALSE]
Datagram(to, len, reset) == [to |-> to, len |-> len, reset |-> reset]

ResetInit ==
    /\ Init
    /\ secret \in BOOLEAN
    /\ short_cid_lengths \in SUBSET CidLengths
    /\ flight = NoFlight
-----------------------------------------------------------------------------
\* Faults: the answer is as long as the packet; it has the most random bytes
\* it may have; as many as fit.
write_stateless_reset_equal(received) ==
    LET random == Least2(MAX_RANDOM_LEN, SaturatingSub(received, TOKEN_LEN))
    IN  IF random < MIN_RANDOM_LEN THEN 0 ELSE random + TOKEN_LEN

write_stateless_reset_longest(received) ==
    IF received < 1 + MIN_RANDOM_LEN + TOKEN_LEN THEN 0 ELSE MAX_RANDOM_LEN + TOKEN_LEN

write_stateless_reset_unbounded(received) ==
    LET random == SaturatingSub(received, 1 + TOKEN_LEN)
    IN  IF random < MIN_RANDOM_LEN THEN 0 ELSE random + TOKEN_LEN

\* The length of the reset for a packet of so many bytes, 0 if there is none.
\* ngtcp2_pkt_write_stateless_reset2 writes the random bytes and the token.
write_stateless_reset(received) ==
    LET random == Least2(MAX_RANDOM_LEN, SaturatingSub(received, 1 + TOKEN_LEN))
    IN  IF random < MIN_RANDOM_LEN THEN 0 ELSE random + TOKEN_LEN

\* Whether the server sends the reset once it has a permit: it has a secret, some
\* connection id it issued fits into the packet, and the longest that fits is not
\* one of a connection that accept handed over.
Answers(received, taken) ==
    /\ secret
    /\ \E len \in short_cid_lengths : received >= 1 + len
    /\ ~taken
    /\ write_stateless_reset(received) > 0

\* send_stateless_reset
send_stateless_reset(taken) ==
    LET answers == Answers(flight.len, taken)
    IN  /\ flight.to = "server"
        /\ SendStatelessReset(answers)
        /\ flight' = IF Granted(limiter, now) /\ answers
                     THEN Datagram("peer", write_stateless_reset(flight.len), TRUE) ELSE NoFlight
        /\ UNCHANGED fixed

\* The peer does the same; it has no limit.
PeerAnswers ==
    LET len == write_stateless_reset(flight.len)
    IN  /\ flight.to = "peer"
        /\ flight' = IF len > 0 THEN Datagram("server", len, TRUE) ELSE NoFlight
        /\ UNCHANGED <<vars, fixed>>

\* A datagram is lost, or recognised by its receiver.
Ends ==
    /\ flight # NoFlight
    /\ flight' = NoFlight
    /\ UNCHANGED <<vars, fixed>>

\* The peer sends a packet of a connection the server does not know.
PeerSends ==
    /\ flight = NoFlight
    /\ \E len \in 1..MaxLen : flight' = Datagram("server", len, FALSE)
    /\ UNCHANGED <<vars, fixed>>

ServerReceives == \E taken \in BOOLEAN : send_stateless_reset(taken)

ResetNext ==
    \/ ServerReceives \/ PeerAnswers \/ Ends \/ PeerSends
    \/ (OpenWindow \/ \E d \in 1..MaxStep : Tick(d)) /\ UNCHANGED <<fixed, flight>>

ResetSpec == ResetInit /\ [][ResetNext]_rvars

-----------------------------------------------------------------------------
\* The limiter is well formed, whatever packets come (TypeOK); the datagram on its
\* way has a receiver and a length a datagram can have; the random bytes of a reset fit into the array of MAX_RANDOM_LEN bytes, whose slice
\* would panic otherwise.
ResetTypeOK ==
    /\ TypeOK
    /\ secret \in BOOLEAN /\ short_cid_lengths \subseteq CidLengths
    /\ flight \in {NoFlight} \cup [to : {"server", "peer"}, len : 1..MaxLen, reset : BOOLEAN]
    /\ flight.reset => flight.len <= MAX_RANDOM_LEN + TOKEN_LEN

\* "応答は必ず元のパケットより短くなるように": a reset is shorter than the packet
\* it answers, and a reset has the random bytes and the token by which the peer
\* tells one, at every length near the limits.  So two endpoints that both lost a
\* connection stop answering each other's resets, whatever the limiters allow.
ResetsShrink ==
    [][flight'.reset /\ flight' # flight =>
           /\ flight'.len < flight.len
           /\ flight'.len >= MIN_RANDOM_LEN + TOKEN_LEN]_rvars
=============================================================================
