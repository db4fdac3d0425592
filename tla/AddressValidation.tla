-------------------------- MODULE AddressValidation --------------------------
(***************************************************************************)
(* How a server decides about an Initial that belongs to no connection:    *)
(* handle_new_connection of src/tokio-ngtcp2/src/server.rs, with the       *)
(* tokens of src/ngtcp2/src/retry.rs and the version check of              *)
(* src/ngtcp2/src/version.rs.                                              *)
(*                                                                         *)
(* Several server processes stand behind one address, and each of them may *)
(* be restarted.  A process reads time from its own start on (timestamp()  *)
(* in socket.rs); now is the time of the world.  The network keeps every   *)
(* datagram: an Initial or a Retry may arrive late, twice, out of order,   *)
(* at any process, or never.  A token is a record of what ngtcp2 seals     *)
(* into it; key stands for the secret, and born and by (when and by whom   *)
(* it was made) are history that the program does not see.                 *)
(*                                                                         *)
(* A call that fails for want of memory or randomness returns without a    *)
(* trace, exactly as if the datagram had been lost.                        *)
(***************************************************************************)
EXTENDS Naturals, FiniteSets

CONSTANTS Procs,          \* server processes
          Attempts,       \* connection attempts of clients
          Addrs,          \* client addresses
          Timeout,        \* ServerConfig::retry_token_timeout
          Width,          \* bits of the timestamps (64 in the code)
          MaxConnections, \* MAX_CONNECTIONS
          Offered,        \* the versions clients offer
          MaxTime,        \* bound: the time of the world
          MaxRestarts,    \* bound: restarts of one process
          MaxRetries      \* bound: Retry packets sent in answer to one attempt

ASSUME AddressValidationAssumption ==
    /\ Timeout \in Nat /\ Width \in Nat /\ MaxTime \in Nat
    /\ MaxConnections \in Nat /\ MaxRestarts \in Nat /\ MaxRetries \in Nat
    /\ Timeout + MaxTime < 2 ^ Width

VARIABLES
    config,    \* the ServerConfig of every process
    now,       \* the time of the world
    start,     \* when each process was started, and
    life,      \* how often
    conns,     \* the connections of the servers
    client,    \* what each attempt has sent
    retries,   \* the Retry packets in the network
    new_tokens \* the tokens clients got in NEW_TOKEN frames

vars == <<config, now, start, life, conns, client, retries, new_tokens>>

None == [kind |-> "none"]
Foreign == [kind |-> "foreign"]
KnownToNgtcp2 == {"v1", "v2"}
Configs == [retry_secret : BOOLEAN, new_token : BOOLEAN, quic_versions : {{"v1"}, {"v1", "v2"}}]

\* The connection IDs: the one an attempt starts with, and the Source Connection
\* ID of the i-th Retry sent in answer to it, or of a connection made without one.
FirstDcid(c) == <<c, 0>>
RetryScid(c, i) == <<c, i>>
GeneratedScid(c) == <<c, MaxRetries + 1>>

NotStarted == [started |-> FALSE]

Init ==
    /\ config \in Configs
    /\ now = 0
    /\ start = [p \in Procs |-> 0]
    /\ life = [p \in Procs |-> 0]
    /\ conns = {}
    /\ client = [c \in Attempts |-> NotStarted]
    /\ retries = {}
    /\ new_tokens = {}

-----------------------------------------------------------------------------
(* Time and secrets of a process                                           *)

\* Server::bind makes a secret of its own when none is configured.
Secret(p) == IF config.retry_secret THEN <<"configured">> ELSE <<p, life[p]>>

timestamp(p) == now - start[p]

-----------------------------------------------------------------------------
(* Tokens                                                                  *)

generate_retry_token(p, version, addr, rscid, odcid) ==
    [kind |-> "retry", key |-> Secret(p), ts |-> timestamp(p), addr |-> addr,
     version |-> version, rscid |-> rscid, odcid |-> odcid,
     born |-> now, by |-> <<p, life[p]>>]

generate_new_token(p, addr) ==
    [kind |-> "new_token", key |-> Secret(p), ts |-> timestamp(p), addr |-> addr,
     born |-> now, by |-> <<p, life[p]>>]

\* Fault: a token never expires.
Unexpired_always(t, p) == TRUE

\* Fault: a token expires one tick early.
Unexpired_early(t, p) == (t.ts + Timeout) % 2 ^ Width > timestamp(p) + 1

\* ngtcp2_crypto: gen_ts + timeout <= ts has expired, in 64 bits.
Unexpired(t, p) == (t.ts + Timeout) % 2 ^ Width > timestamp(p)

verify_retry_token(t, p, version, from, dcid) ==
    /\ t.key = Secret(p)
    /\ t.version = version /\ t.addr = from /\ t.rscid = dcid
    /\ Unexpired(t, p)

verify_new_token(t, p, from) ==
    /\ t.key = Secret(p)
    /\ t.addr = from
    /\ Unexpired(t, p)

-----------------------------------------------------------------------------
(* Clients (RFC 9000): the first flight, and the one that answers a Retry. *)

\* split: the ClientHello needs two Initials, so the second may arrive first.
\* A client may use a token it got from an earlier connection, with this server or
\* with one of another make.
ClientStarts(c) ==
    /\ ~client[c].started
    /\ \E a \in Addrs, v \in Offered, s \in BOOLEAN, t \in new_tokens \cup {None, Foreign} :
        client' = [client EXCEPT ![c] =
            [started |-> TRUE, version |-> v, split |-> s,
             addr |-> a, token |-> t, retry_addr |-> a, retry |-> None, refused |-> FALSE]]
    /\ UNCHANGED <<config, now, start, life, conns, retries, new_tokens>>

\* The first Retry is taken if its tag was made with the DCID of the attempt, the
\* others are dropped; the address of the client may have changed in between.
ClientGetsRetry(c) ==
    /\ client[c].started /\ ~client[c].refused
    /\ client[c].token = None /\ client[c].retry = None
    /\ \E r \in retries, a \in Addrs :
        /\ r.odcid = FirstDcid(c)
        /\ client' = [client EXCEPT ![c].retry = r, ![c].retry_addr = a]
    /\ UNCHANGED <<config, now, start, life, conns, retries, new_tokens>>

\* The packets with a long header that an attempt has sent.  gap: the ClientHello
\* starts with a gap.  0-RTT and Handshake packets may overtake the first Initial,
\* and need not fill a datagram.
Packet(c, type, full, from, dcid, token, gap) ==
    [c |-> c, type |-> type, full |-> full, version |-> client[c].version,
     from |-> from, dcid |-> dcid, token |-> token, gap |-> gap]

Initials(c) ==
    IF ~client[c].started THEN {}
    ELSE {Packet(c, "initial", TRUE, client[c].addr, FirstDcid(c), client[c].token, g) :
            g \in {FALSE, client[c].split}}
         \cup (IF client[c].retry = None THEN {}
               ELSE {Packet(c, "initial", TRUE, client[c].retry_addr, client[c].retry.scid,
                            client[c].retry.token, FALSE)})

Others(c) ==
    IF ~client[c].started THEN {}
    ELSE {Packet(c, "other", full, client[c].addr, FirstDcid(c), None, FALSE) : full \in BOOLEAN}

\* A client gives an attempt up when the server refuses it, but passes over a
\* Version Negotiation that lists the version it uses.
Hears(c, answer) ==
    client' = IF answer.type = "version_negotiation" /\ client[c].version \in answer.versions
              THEN client ELSE [client EXCEPT ![c].refused = TRUE]

-----------------------------------------------------------------------------
(* Server                                                                  *)

\* For a datagram of full size or less: ngtcp2 wants full datagrams only of the
\* versions it does not know.
decode_packet_version(i) == i.full \/ i.version \in KnownToNgtcp2

version_negotiation_info(i) ==
    decode_packet_version(i) /\ i.version \notin config.quic_versions

\* ngtcp2_accept
accept_initial(i) == i.type = "initial" /\ i.full /\ i.version \in KnownToNgtcp2

accept_initial_packet(i) == accept_initial(i) /\ i.version \in config.quic_versions

\* By the magic byte: a token of another make has no kind,
token_kind(t) == IF t.kind \in {"retry", "new_token"} THEN t.kind ELSE "none"

\* and counts as none.
from_packet(t) == IF token_kind(t) = "none" THEN None ELSE t

write_retry_packet(scid, odcid, token) == [scid |-> scid, odcid |-> odcid, token |-> token]

\* send_retry: at least 8 bytes of new Source Connection ID, and no state.
send_retry(p, i) ==
    LET sent == {r \in retries : r.odcid = i.dcid}
        scid == RetryScid(i.c, Cardinality(sent) + 1)
        token == generate_retry_token(p, i.version, i.from, scid, i.dcid)
    IN  /\ Cardinality(sent) < MaxRetries
        /\ retries' = retries \cup {write_retry_packet(scid, i.dcid, token)}
        /\ UNCHANGED <<conns, client>>

\* The two answers that keep no state either.
write_version_negotiation == [type |-> "version_negotiation", versions |-> config.quic_versions]

send_version_negotiation(i) ==
    Hears(i.c, write_version_negotiation) /\ UNCHANGED <<conns, retries>>

write_stateless_connection_close(error) == [type |-> "close", error |-> error]

send_invalid_token_close(i) ==
    /\ Hears(i.c, write_stateless_connection_close("INVALID_TOKEN"))
    /\ UNCHANGED <<conns, retries>>

\* The match on the kind of the token.
TokenValid(p, i) ==
    LET token == from_packet(i.token)
    IN  CASE token.kind = "none" -> TRUE
          [] token.kind = "retry" -> verify_retry_token(token, p, i.version, i.from, i.dcid)
          [] token.kind = "new_token" -> verify_new_token(token, p, i.from)

ConnectionsOf(p) == {k \in conns : k.proc = p}

\* Some connection of p is routed by DCID d.
Routed(p, d) == \E k \in ConnectionsOf(p) : d \in k.routes

\* The connection made for a packet that arrived with DCID dcid, when the client's
\* first DCID was odcid.
Built(p, i, token, dcid, odcid) ==
    LET retried == token.kind = "retry"
        scid == IF retried THEN dcid ELSE GeneratedScid(i.c)
    IN  [proc |-> p, c |-> i.c, remote_addr |-> i.from, token |-> token,
         original_dcid |-> odcid, scid |-> scid,
         retry_scid |-> IF retried THEN scid ELSE None,
         routes |-> {odcid, scid}, completed |-> FALSE, new_token_submitted |-> FALSE]

\* Fault: the DCID of the Initial is taken for the client's first one.
Connection_packet_dcid(p, i) == Built(p, i, from_packet(i.token), i.dcid, i.dcid)

\* A valid Retry token gives the original DCID, and the Source Connection ID of the
\* Retry is used again and announced.
Connection(p, i) ==
    LET token == from_packet(i.token)
    IN  Built(p, i, token, i.dcid, IF token.kind = "retry" THEN token.odcid ELSE i.dcid)

\* Its routes replace those of an older connection with the same original DCID.
Registered(k) ==
    {k} \cup {IF o.proc = k.proc THEN [o EXCEPT !.routes = @ \ k.routes] ELSE o : o \in conns}

\* A configured secret asks every Initial without a token for a Retry.
AsksRetryFirst(i) == from_packet(i.token) = None /\ config.retry_secret

\* Otherwise ngtcp2 asks for one when the ClientHello starts with a gap.
AsksRetryLate(i) == from_packet(i.token) = None /\ i.gap

\* Fault: no limit on the number of connections.
Dropped_repeated_only(p, i) == from_packet(i.token) = None /\ Routed(p, i.dcid)

\* Too many connections, or a repeated first Initial whose connection is known.
Dropped(p, i) ==
    \/ Cardinality(ConnectionsOf(p)) >= MaxConnections
    \/ from_packet(i.token) = None /\ Routed(p, i.dcid)

\* The order of the checks is the code's.
handle_new_connection(p, i) ==
    IF version_negotiation_info(i) THEN send_version_negotiation(i)
    ELSE IF ~accept_initial_packet(i) THEN FALSE
    ELSE IF AsksRetryFirst(i) THEN send_retry(p, i)
    ELSE IF ~TokenValid(p, i) THEN send_invalid_token_close(i)
    ELSE IF Dropped(p, i) THEN FALSE
    ELSE IF AsksRetryLate(i) THEN send_retry(p, i)
    ELSE conns' = Registered(Connection(p, i)) /\ UNCHANGED <<client, retries>>

\* A packet that a connection of p is routed by goes there, and not here.
ServerReads(p, i) ==
    /\ ~Routed(p, i.dcid)
    /\ handle_new_connection(p, i)
    /\ UNCHANGED <<config, now, start, life, new_tokens>>

\* Fault: whoever completes the handshake gets a token.
submit_new_token_unvalidated(k) == config.new_token /\ ~k.new_token_submitted

\* submit_new_token: once, on a connection whose address a token has proved.
submit_new_token(k) ==
    config.new_token /\ ~k.new_token_submitted /\ k.token # None

\* drain_events at HandshakeCompleted.
HandshakeCompleted(k) ==
    /\ ~k.completed
    /\ conns' = (conns \ {k}) \cup
        {[k EXCEPT !.completed = TRUE, !.new_token_submitted = @ \/ submit_new_token(k)]}
    /\ new_tokens' = IF submit_new_token(k)
                     THEN new_tokens \cup {generate_new_token(k.proc, k.remote_addr)}
                     ELSE new_tokens
    /\ UNCHANGED <<config, now, start, life, client, retries>>

ConnectionEnds(k) ==
    /\ conns' = conns \ {k}
    /\ UNCHANGED <<config, now, start, life, client, retries, new_tokens>>

\* A process that comes up again has lost its connections, its secret if it was its
\* own, and its clock.
Restart(p) ==
    /\ life[p] < MaxRestarts
    /\ life' = [life EXCEPT ![p] = @ + 1]
    /\ start' = [start EXCEPT ![p] = now]
    /\ conns' = conns \ ConnectionsOf(p)
    /\ UNCHANGED <<config, now, client, retries, new_tokens>>

Tick ==
    /\ now < MaxTime
    /\ now' = now + 1
    /\ UNCHANGED <<config, start, life, conns, client, retries, new_tokens>>

Next ==
    \/ \E c \in Attempts : ClientStarts(c) \/ ClientGetsRetry(c)
    \/ \E p \in Procs, c \in Attempts : \E i \in Initials(c) \cup Others(c) : ServerReads(p, i)
    \/ \E k \in conns : HandshakeCompleted(k) \/ ConnectionEnds(k)
    \/ \E p \in Procs : Restart(p)
    \/ Tick

Spec == Init /\ [][Next]_vars

-----------------------------------------------------------------------------
(* Properties                                                              *)

Times == 0..MaxTime

\* Process p made the token, and has not been restarted since.
Made(t, p) == t.by = <<p, life[p]>>

\* Types of the processes, the attempts, the tokens and the connections; no process
\* holds more than MAX_CONNECTIONS.
TypeOK ==
    /\ config \in Configs
    /\ now \in Times
    /\ start \in [Procs -> Times]
    /\ life \in [Procs -> 0..MaxRestarts]
    /\ \A p \in Procs : start[p] <= now /\ Cardinality(ConnectionsOf(p)) <= MaxConnections
    /\ \A k \in conns : k.proc \in Procs /\ k.c \in Attempts /\ k.remote_addr \in Addrs
    /\ \A r \in retries : r.token.kind = "retry" /\ r.token.ts \in Times /\ r.token.addr \in Addrs
    /\ \A t \in new_tokens : t.kind = "new_token" /\ t.ts \in Times /\ t.addr \in Addrs

\* Whoever is let in by a token is at the address the token was sent to, and the
\* token was sent less than retry_token_timeout before, as long as the process that
\* made it is the one that checks it, however late and often the Initial arrives.
ValidatedInTime ==
    [][\A k \in conns' :
        k.token # None /\ ~Routed(k.proc, k.scid) =>
            /\ k.token.addr = k.remote_addr
            /\ Made(k.token, k.proc) => now - k.token.born < Timeout]_vars

\* A client that answers with the token it got, in time, from the address it got it
\* at, is never turned away with INVALID_TOKEN by the process that made the token.
FreshTokenAccepted ==
    \A p \in Procs, c \in Attempts : \A i \in Initials(c) :
        from_packet(i.token) # None /\ Made(i.token, p) /\ i.token.addr = i.from /\ now - i.token.born < Timeout
            => TokenValid(p, i)

\* What the server announces is what the client checks (RFC 9000 Section 7.3): the
\* first Destination Connection ID of the attempt and, on a connection made from the
\* token of a Retry, the ID of the Retry that the client took.  A connection that
\* announces no Retry was not made from one; the client may have taken a Retry all
\* the same, which another part of its ClientHello was answered with, and that
\* connection is then not the one it goes on with.
ClientAgrees ==
    \A k \in conns :
        /\ k.original_dcid = FirstDcid(k.c)
        /\ IF k.retry_scid = None THEN k.token.kind # "retry"
           ELSE /\ client[k.c].retry # None
                /\ k.retry_scid = client[k.c].retry.scid
                /\ k.scid = k.retry_scid

\* A token for later connections is made only for an address that a token made with
\* the same secret has already proved: the first of any such chain came in a Retry.
NewTokenNeedsProof ==
    \A t \in new_tokens : \E r \in retries :
        r.token.addr = t.addr /\ r.token.key = t.key /\ r.token.born <= t.born

\* retry.rs, doc of RetrySecret::from_bytes: a common secret lets several server
\* processes verify the same tokens.
FreshTokenAcceptedAnywhere ==
    \A p \in Procs, c \in Attempts : \A i \in Initials(c) :
        from_packet(i.token) # None /\ i.token.key = Secret(p) /\ i.token.addr = i.from /\ now - i.token.born < Timeout
            => TokenValid(p, i)
=============================================================================
