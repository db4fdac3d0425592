----------------------- MODULE AddressValidationProofs -----------------------
(***************************************************************************)
(* Address validation for any number of processes, attempts, addresses and *)
(* Retry packets, and for every timeout.                                   *)
(*                                                                         *)
(* What a token proves rests on how it was made: under which secret, when  *)
(* by the clock of the process, and for which attempt.  The network keeps  *)
(* the tokens and processes are restarted, so the invariant follows a      *)
(* token from the process that made it through the client to the process   *)
(* that checks it, and the connection that it lets in.                     *)
(***************************************************************************)
EXTENDS AddressValidation, FiniteSetTheorems, TLAPS

-----------------------------------------------------------------------------
(* The inductive invariant.                                                *)

Dcids == Attempts \X (0..(MaxRetries + 1))
Lives == Procs \X (0..MaxRestarts)
Secrets == {<<"configured">>} \cup Lives

RetryTokens ==
    [kind : {"retry"}, key : Secrets, ts : Times, addr : Addrs, version : Offered,
     rscid : Dcids, odcid : Dcids, born : Times, by : Lives]

NewTokens ==
    [kind : {"new_token"}, key : Secrets, ts : Times, addr : Addrs, born : Times, by : Lives]

Retries == [scid : Dcids, odcid : Dcids, token : RetryTokens]

StartedClients ==
    [started : {TRUE}, version : Offered, split : BOOLEAN, addr : Addrs,
     token : NewTokens \cup {None, Foreign}, retry_addr : Addrs,
     retry : Retries \cup {None}, refused : BOOLEAN]

Connections ==
    [proc : Procs, c : Attempts, remote_addr : Addrs,
     token : RetryTokens \cup NewTokens \cup {None},
     original_dcid : Dcids, scid : Dcids, retry_scid : Dcids \cup {None},
     routes : SUBSET Dcids, completed : BOOLEAN, new_token_submitted : BOOLEAN]

\* The types, and that the sets whose sizes are limited or counted are finite.
Types ==
    /\ config \in Configs
    /\ now \in Times
    /\ start \in [Procs -> Times]
    /\ life \in [Procs -> 0..MaxRestarts]
    /\ \A p \in Procs : start[p] <= now
    /\ IsFiniteSet(conns) /\ conns \subseteq Connections
    /\ \A p \in Procs : Cardinality(ConnectionsOf(p)) <= MaxConnections
    /\ client \in [Attempts -> StartedClients \cup {NotStarted}]
    /\ IsFiniteSet(retries) /\ retries \subseteq Retries
    /\ new_tokens \subseteq NewTokens

\* A token holds the secret and the clock of the process that made it, which may
\* have been restarted since.
MadeRight(t) ==
    /\ t.key = IF config.retry_secret THEN <<"configured">> ELSE t.by
    /\ t.born <= now
    /\ t.by[2] <= life[t.by[1]]
    /\ \A p \in Procs : Made(t, p) => start[p] <= t.born /\ t.ts = t.born - start[p]

\* A Retry answers the first flight of an attempt.
RetriesRight ==
    \A r \in retries :
        /\ MadeRight(r.token)
        /\ r.token.rscid = r.scid /\ r.token.odcid = r.odcid
        /\ \E c \in Attempts, n \in 1..MaxRetries :
            /\ r.odcid = FirstDcid(c) /\ r.scid = RetryScid(c, n)
            /\ client[c].started /\ r.token.version = client[c].version

NewTokensRight == \A t \in new_tokens : MadeRight(t)

\* Clients use the tokens they got.
ClientsRight ==
    \A c \in Attempts :
        client[c].started =>
            /\ client[c].token \in new_tokens \cup {None, Foreign}
            /\ client[c].retry # None =>
                /\ client[c].retry \in retries
                /\ client[c].retry.odcid = FirstDcid(c)
                /\ client[c].token = None

\* The ways into the server: without a token, with one of an earlier connection, or
\* with that of the Retry that the client took.
LetIn(k) ==
    \/ k.token = None /\ k.retry_scid = None
    \/ /\ k.token \in new_tokens /\ k.token = client[k.c].token /\ k.retry_scid = None
       /\ k.scid = GeneratedScid(k.c) /\ {FirstDcid(k.c), k.scid} \subseteq k.routes
    \/ /\ client[k.c].retry # None /\ k.token = client[k.c].retry.token
       /\ k.scid = client[k.c].retry.scid /\ k.retry_scid = k.scid /\ k.scid \in k.routes

\* A connection is what its token says, and stays routed.
ConnsRight ==
    \A k \in conns :
        /\ client[k.c].started
        /\ k.original_dcid = FirstDcid(k.c)
        /\ LetIn(k)
        /\ k.token # None => k.token.addr = k.remote_addr /\ k.token.key = Secret(k.proc)

IndInv ==
    /\ Types /\ RetriesRight /\ NewTokensRight /\ NewTokenNeedsProof
    /\ ClientsRight /\ ConnsRight

-----------------------------------------------------------------------------
(* Tokens.                                                                 *)

\* Timestamps do not wrap around.
LEMMA NoWrap == ASSUME NEW ts \in Times PROVE (ts + Timeout) % 2 ^ Width = ts + Timeout
<1>1. 2 ^ Width \in Int
  BY AddressValidationAssumption
<1> QED
  BY <1>1, AddressValidationAssumption DEF Times

\* No connection ID, token or Retry is the absent one.
LEMMA Present ==
    /\ \A c, i : <<c, i>> # None
    /\ \A t \in RetryTokens \cup NewTokens : t # None /\ t # Foreign
    /\ \A t \in RetryTokens : t.kind = "retry"
    /\ \A t \in NewTokens : t.kind = "new_token"
    /\ \A r \in Retries : r # None
    /\ None # Foreign /\ None.kind = "none" /\ Foreign.kind = "foreign"
<1>1. ASSUME NEW c, NEW i PROVE <<c, i>> # None
  <2>1. DOMAIN <<c, i>> = {1, 2}
    OBVIOUS
  <2>2. DOMAIN None = {"kind"}
    BY DEF None
  <2> QED
    BY <2>1, <2>2
<1>2. None.kind = "none" /\ Foreign.kind = "foreign"
  BY DEF None, Foreign
<1>3. \A t \in RetryTokens : t.kind = "retry"
  BY DEF RetryTokens
<1>4. \A t \in NewTokens : t.kind = "new_token"
  BY DEF NewTokens
<1>5. \A r \in Retries : r # None
  <2> SUFFICES ASSUME NEW r \in Retries, r = None PROVE FALSE
    OBVIOUS
  <2>1. DOMAIN r = {"scid", "odcid", "token"}
    BY DEF Retries
  <2>2. DOMAIN r = {"kind"}
    BY DEF None
  <2> QED
    BY <2>1, <2>2
<1> QED
  BY <1>1, <1>2, <1>3, <1>4, <1>5

\* For the process that made a token and is still running, the key is its secret,
\* and the token has expired exactly when it is older than the timeout.
LEMMA UnexpiredFacts ==
    ASSUME Types, NEW p \in Procs, NEW t, t.ts \in Times, t.born \in Times, MadeRight(t), Made(t, p)
    PROVE  /\ t.key = Secret(p)
           /\ Unexpired(t, p) <=> now - t.born < Timeout
<1>1. t.key = Secret(p)
  BY DEF MadeRight, Made, Secret
<1>2. start[p] \in Times /\ now \in Times /\ start[p] <= t.born /\ t.ts = t.born - start[p]
  BY DEF MadeRight, Types
<1>3. Unexpired(t, p) <=> t.ts + Timeout > now - start[p]
  BY NoWrap DEF Unexpired, timestamp
<1>4. Unexpired(t, p) <=> now - t.born < Timeout
  <2>1. /\ start[p] \in Int /\ now \in Int /\ t.born \in Int /\ Timeout \in Int
    BY <1>2, AddressValidationAssumption DEF Times
  <2> QED
    BY <1>2, <1>3, <2>1
<1> QED
  BY <1>1, <1>4

\* What from_packet makes of a token.
LEMMA FromPacketFacts ==
    /\ from_packet(None) = None /\ from_packet(Foreign) = None
    /\ \A t \in RetryTokens \cup NewTokens : from_packet(t) = t
BY Present DEF from_packet, token_kind

\* The fields of tokens and Retry packets.
LEMMA TokenFields ==
    /\ \A t \in RetryTokens : /\ t.key \in Secrets /\ t.ts \in Times /\ t.born \in Times
                              /\ t.addr \in Addrs /\ t.by \in Lives
    /\ \A t \in NewTokens : /\ t.key \in Secrets /\ t.ts \in Times /\ t.born \in Times
                            /\ t.addr \in Addrs /\ t.by \in Lives
    /\ \A r \in Retries : r.token \in RetryTokens /\ r.scid \in Dcids /\ r.odcid \in Dcids
<1>1. \A t \in RetryTokens : /\ t.key \in Secrets /\ t.ts \in Times /\ t.born \in Times
                             /\ t.addr \in Addrs /\ t.by \in Lives
  BY DEF RetryTokens
<1>2. \A t \in NewTokens : /\ t.key \in Secrets /\ t.ts \in Times /\ t.born \in Times
                           /\ t.addr \in Addrs /\ t.by \in Lives
  BY DEF NewTokens
<1>3. \A r \in Retries : r.token \in RetryTokens /\ r.scid \in Dcids /\ r.odcid \in Dcids
  BY DEF Retries
<1> QED
  BY <1>1, <1>2, <1>3

-----------------------------------------------------------------------------
(* Packets.                                                                *)

\* An attempt that has started.
LEMMA StartedFacts ==
    ASSUME Types, NEW c \in Attempts
    PROVE  /\ client[c].started \in BOOLEAN
           /\ client[c].started <=> client[c] \in StartedClients
           /\ client[c] \in StartedClients =>
                /\ client[c].version \in Offered /\ client[c].addr \in Addrs
                /\ client[c].retry_addr \in Addrs
                /\ client[c].token \in NewTokens \cup {None, Foreign}
                /\ client[c].retry \in Retries \cup {None}
<1>1. client[c] \in StartedClients \cup {NotStarted}
  BY DEF Types
<1>2. NotStarted.started = FALSE
  BY DEF NotStarted
<1>3. \A x \in StartedClients : x.started = TRUE
  BY Zenon DEF StartedClients
<1>4. client[c].started \in BOOLEAN /\ (client[c].started <=> client[c] \in StartedClients)
  BY <1>1, <1>2, <1>3, Zenon
<1> QED
  BY <1>4, Zenon DEF StartedClients

\* What is in the packets of an attempt: the first flight has the first DCID and
\* perhaps a token of an earlier connection, the other one what came in the Retry.
FirstFlight(c, i) ==
    /\ i.dcid = FirstDcid(c) /\ i.token = client[c].token /\ i.from = client[c].addr

AnswersRetry(c, i) ==
    /\ client[c].retry # None
    /\ i.dcid = client[c].retry.scid /\ i.token = client[c].retry.token
    /\ i.from = client[c].retry_addr

\* Every Initial is one or the other; nothing else is accepted.
LEMMA PacketFacts ==
    ASSUME NEW c \in Attempts, NEW i \in Initials(c) \cup Others(c)
    PROVE  /\ client[c].started /\ i.c = c /\ i.version = client[c].version
           /\ i \in Initials(c) \/ i.type = "other"
           /\ i \in Initials(c) => FirstFlight(c, i) \/ AnswersRetry(c, i)
<1>1. client[c].started
  BY Zenon DEF Initials, Others
<1>2. ASSUME NEW g, i = Packet(c, "initial", TRUE, client[c].addr, FirstDcid(c), client[c].token, g)
      PROVE  i.c = c /\ i.version = client[c].version /\ FirstFlight(c, i)
  BY <1>2 DEF Packet, FirstFlight
<1>3. ASSUME client[c].retry # None,
             i = Packet(c, "initial", TRUE, client[c].retry_addr, client[c].retry.scid,
                        client[c].retry.token, FALSE)
      PROVE  i.c = c /\ i.version = client[c].version /\ AnswersRetry(c, i)
  BY <1>3 DEF Packet, AnswersRetry
<1>4. ASSUME i \in Initials(c)
      PROVE  i.c = c /\ i.version = client[c].version /\ (FirstFlight(c, i) \/ AnswersRetry(c, i))
  BY <1>1, <1>2, <1>3, <1>4, Zenon DEF Initials
<1>5. ASSUME i \in Others(c)
      PROVE  i.c = c /\ i.version = client[c].version /\ i.type = "other"
  BY <1>1, <1>5 DEF Others, Packet
<1> QED
  BY <1>1, <1>4, <1>5

\* The token of a first flight, as the server sees it.
LEMMA FlightTokens ==
    ASSUME Types, ClientsRight, NEW c \in Attempts, NEW i \in Initials(c)
    PROVE  /\ i.from \in Addrs
           /\ FirstFlight(c, i) =>
                \/ from_packet(i.token) = None
                \/ from_packet(i.token) = i.token /\ i.token \in new_tokens /\ i.token \in NewTokens
           /\ AnswersRetry(c, i) =>
                /\ from_packet(i.token) = i.token /\ i.token \in RetryTokens
                /\ client[c].retry \in retries /\ client[c].retry \in Retries
                /\ client[c].retry.odcid = FirstDcid(c) /\ client[c].token = None
<1>1. client[c].started /\ (FirstFlight(c, i) \/ AnswersRetry(c, i))
  BY PacketFacts
<1>2. /\ client[c].addr \in Addrs /\ client[c].retry_addr \in Addrs
      /\ client[c].retry \in Retries \cup {None}
  BY <1>1, StartedFacts
<1>3. new_tokens \subseteq NewTokens
  BY DEF Types
<1>4. client[c].token \in new_tokens \cup {None, Foreign}
  BY <1>1 DEF ClientsRight
<1>5. FirstFlight(c, i) =>
                \/ from_packet(i.token) = None
                \/ from_packet(i.token) = i.token /\ i.token \in new_tokens /\ i.token \in NewTokens
  BY <1>3, <1>4, FromPacketFacts DEF FirstFlight
<1>6. AnswersRetry(c, i) =>
                /\ from_packet(i.token) = i.token /\ i.token \in RetryTokens
                /\ client[c].retry \in retries /\ client[c].retry \in Retries
                /\ client[c].retry.odcid = FirstDcid(c) /\ client[c].token = None
  BY <1>1, <1>2, FromPacketFacts, TokenFields DEF AnswersRetry, ClientsRight
<1>7. i.from \in Addrs
  BY <1>1, <1>2 DEF FirstFlight, AnswersRetry
<1> QED
  BY <1>5, <1>6, <1>7

\* The invariant implies that fresh tokens are accepted.
LEMMA FreshAccepted == ASSUME IndInv PROVE FreshTokenAccepted
<1>0. Types /\ RetriesRight /\ NewTokensRight /\ ClientsRight
  BY DEF IndInv
<1> SUFFICES ASSUME NEW p \in Procs, NEW c \in Attempts, NEW i \in Initials(c),
                    from_packet(i.token) # None, Made(i.token, p), i.token.addr = i.from,
                    now - i.token.born < Timeout
             PROVE  TokenValid(p, i)
  BY DEF FreshTokenAccepted
<1>1. FirstFlight(c, i) \/ AnswersRetry(c, i)
  BY PacketFacts
<1>2. CASE FirstFlight(c, i)
  <2>1. from_packet(i.token) = i.token /\ i.token \in new_tokens /\ i.token \in NewTokens
    BY <1>0, <1>2, FlightTokens
  <2>2. i.token.key = Secret(p) /\ Unexpired(i.token, p)
    BY <1>0, <2>1, TokenFields, UnexpiredFacts DEF NewTokensRight
  <2>3. i.token.kind = "new_token"
    BY <2>1, Present
  <2> QED
    BY <2>1, <2>2, <2>3 DEF TokenValid, verify_new_token
<1>3. CASE AnswersRetry(c, i)
  <2> DEFINE r == client[c].retry
  <2>1. /\ from_packet(i.token) = i.token /\ i.token \in RetryTokens /\ r \in retries
        /\ r.odcid = FirstDcid(c) /\ i.token = r.token /\ i.dcid = r.scid
    BY <1>0, <1>3, FlightTokens DEF AnswersRetry
  <2> HIDE DEF r
  <2>2. MadeRight(i.token) /\ i.token.rscid = i.dcid
    BY <1>0, <2>1 DEF RetriesRight
  <2>3. i.token.key = Secret(p) /\ Unexpired(i.token, p)
    BY <1>0, <2>1, <2>2, TokenFields, UnexpiredFacts
  <2>4. i.token.version = i.version
    <3>1. PICK e \in Attempts : r.odcid = FirstDcid(e) /\ r.token.version = client[e].version
      BY <1>0, <2>1 DEF RetriesRight
    <3>2. e = c
      BY <2>1, <3>1 DEF FirstDcid
    <3> QED
      BY <2>1, <3>1, <3>2, PacketFacts
  <2>5. i.token.kind = "retry"
    BY <2>1, Present
  <2> QED
    BY <2>1, <2>2, <2>3, <2>4, <2>5 DEF TokenValid, verify_retry_token
<1> QED
  BY <1>1, <1>2, <1>3

\* Conversely, a token that lets a packet in has the secret of the process and the
\* address of the packet, and is not too old.
LEMMA ValidFacts ==
    ASSUME IndInv, NEW p \in Procs, NEW c \in Attempts, NEW i \in Initials(c),
           TokenValid(p, i), from_packet(i.token) # None
    PROVE  /\ from_packet(i.token) = i.token
           /\ i.token.key = Secret(p) /\ i.token.addr = i.from
           /\ MadeRight(i.token)
           /\ Made(i.token, p) => now - i.token.born < Timeout
<1>0. Types /\ RetriesRight /\ NewTokensRight /\ ClientsRight
  BY DEF IndInv
<1>1. FirstFlight(c, i) \/ AnswersRetry(c, i)
  BY PacketFacts
<1>2. CASE FirstFlight(c, i)
  <2>1. from_packet(i.token) = i.token /\ i.token \in new_tokens /\ i.token \in NewTokens
    BY <1>0, <1>2, FlightTokens
  <2>2. i.token.kind = "new_token" /\ MadeRight(i.token)
    BY <1>0, <2>1, Present DEF NewTokensRight
  <2>3. verify_new_token(i.token, p, i.from)
    BY <2>1, <2>2 DEF TokenValid
  <2>4. Made(i.token, p) => now - i.token.born < Timeout
    BY <1>0, <2>1, <2>2, <2>3, TokenFields, UnexpiredFacts DEF verify_new_token
  <2> QED
    BY <2>1, <2>2, <2>3, <2>4 DEF verify_new_token
<1>3. CASE AnswersRetry(c, i)
  <2>1. /\ from_packet(i.token) = i.token /\ i.token \in RetryTokens
        /\ client[c].retry \in retries /\ i.token = client[c].retry.token
    BY <1>0, <1>3, FlightTokens DEF AnswersRetry
  <2>2. i.token.kind = "retry" /\ MadeRight(i.token)
    BY <1>0, <2>1, Present DEF RetriesRight
  <2>3. verify_retry_token(i.token, p, i.version, i.from, i.dcid)
    BY <2>1, <2>2 DEF TokenValid
  <2>4. Made(i.token, p) => now - i.token.born < Timeout
    BY <1>0, <2>1, <2>2, <2>3, TokenFields, UnexpiredFacts DEF verify_retry_token
  <2> QED
    BY <2>1, <2>2, <2>3, <2>4 DEF verify_retry_token
<1> QED
  BY <1>1, <1>2, <1>3

-----------------------------------------------------------------------------
(* The steps keep the invariant.                                           *)

\* A step of a client: an attempt is never taken back, nor is the Retry it took.
LEMMA ClientInv ==
    ASSUME IndInv, UNCHANGED <<config, now, start, life, conns, retries, new_tokens>>,
           client' \in [Attempts -> StartedClients \cup {NotStarted}],
           \A c \in Attempts : client[c].started =>
               /\ client'[c].started /\ client'[c].version = client[c].version
               /\ client'[c].token = client[c].token
               /\ client[c].retry # None => client'[c].retry = client[c].retry,
           \A c \in Attempts : client'[c].started =>
               /\ client'[c].token \in new_tokens \cup {None, Foreign}
               /\ client'[c].retry # None =>
                   /\ client'[c].retry \in retries
                   /\ client'[c].retry.odcid = FirstDcid(c)
                   /\ client'[c].token = None
    PROVE  IndInv'
<1>0. /\ Types /\ RetriesRight /\ NewTokensRight /\ NewTokenNeedsProof
      /\ ClientsRight /\ ConnsRight
  BY DEF IndInv
<1>1. Types'
  BY <1>0 DEF Types, ConnectionsOf
<1>2. \A t : MadeRight(t) => MadeRight(t)'
  BY DEF MadeRight, Made
<1>3. RetriesRight'
  BY <1>0, <1>2 DEF RetriesRight
<1>4. NewTokensRight' /\ NewTokenNeedsProof'
  BY <1>0, <1>2 DEF NewTokensRight, NewTokenNeedsProof
<1>5. ClientsRight'
  BY DEF ClientsRight
<1>6. ConnsRight'
  <2> SUFFICES ASSUME NEW k \in conns
               PROVE  /\ client'[k.c].started
                      /\ k.original_dcid = FirstDcid(k.c)
                      /\ LetIn(k)'
                      /\ k.token # None => k.token.addr = k.remote_addr /\ k.token.key = Secret(k.proc)'
    BY DEF ConnsRight
  <2>1. k.c \in Attempts
    BY <1>0 DEF Types, Connections
  <2>2. /\ client[k.c].started /\ k.original_dcid = FirstDcid(k.c) /\ LetIn(k)
        /\ k.token # None => k.token.addr = k.remote_addr /\ k.token.key = Secret(k.proc)
    BY <1>0 DEF ConnsRight
  <2>3. Secret(k.proc)' = Secret(k.proc)
    BY Zenon DEF Secret
  <2>4. LetIn(k)'
    BY <2>1, <2>2 DEF LetIn
  <2> QED
    BY <2>1, <2>2, <2>3, <2>4
<1> QED
  BY <1>1, <1>3, <1>4, <1>5, <1>6 DEF IndInv

\* A client starts an attempt.
LEMMA ClientStartsInv == ASSUME IndInv, NEW c \in Attempts, ClientStarts(c) PROVE IndInv'
<1>0. Types /\ ClientsRight
  BY DEF IndInv
<1>1. PICK a \in Addrs, v \in Offered, s \in BOOLEAN, t \in new_tokens \cup {None, Foreign} :
        client' = [client EXCEPT ![c] =
            [started |-> TRUE, version |-> v, split |-> s,
             addr |-> a, token |-> t, retry_addr |-> a, retry |-> None, refused |-> FALSE]]
  BY Zenon DEF ClientStarts
<1> DEFINE new == [started |-> TRUE, version |-> v, split |-> s,
                   addr |-> a, token |-> t, retry_addr |-> a, retry |-> None, refused |-> FALSE]
<1>2. new \in StartedClients /\ new.token = t /\ new.retry = None
  BY <1>0 DEF StartedClients, Types
<1>3. client' = [client EXCEPT ![c] = new]
  BY <1>1
<1> HIDE DEF new
<1>4. client \in [Attempts -> StartedClients \cup {NotStarted}]
  BY <1>0 DEF Types
<1>5. client'[c] = new /\ \A e \in Attempts \ {c} : client'[e] = client[e]
  BY <1>3, <1>4
<1>6. client' \in [Attempts -> StartedClients \cup {NotStarted}]
  BY <1>2, <1>3, <1>4
<1>7. ~client[c].started /\ UNCHANGED <<config, now, start, life, conns, retries, new_tokens>>
  BY DEF ClientStarts
<1>8. \A e \in Attempts : client[e].started => e # c
  BY <1>7
<1>9. \A e \in Attempts : client[e].started =>
               /\ client'[e].started /\ client'[e].version = client[e].version
               /\ client'[e].token = client[e].token
               /\ client[e].retry # None => client'[e].retry = client[e].retry
  BY <1>5, <1>8
<1>10. \A e \in Attempts : client'[e].started =>
               /\ client'[e].token \in new_tokens \cup {None, Foreign}
               /\ client'[e].retry # None =>
                   /\ client'[e].retry \in retries
                   /\ client'[e].retry.odcid = FirstDcid(e)
                   /\ client'[e].token = None
  BY <1>0, <1>2, <1>5 DEF ClientsRight
<1> QED
  BY <1>6, <1>7, <1>9, <1>10, ClientInv

\* It takes a Retry.
LEMMA ClientGetsRetryInv == ASSUME IndInv, NEW c \in Attempts, ClientGetsRetry(c) PROVE IndInv'
<1>0. Types /\ ClientsRight
  BY DEF IndInv
<1>1. PICK r \in retries, a \in Addrs :
        /\ r.odcid = FirstDcid(c)
        /\ client' = [client EXCEPT ![c].retry = r, ![c].retry_addr = a]
  BY Zenon DEF ClientGetsRetry
<1>2. /\ client[c].started /\ client[c].token = None /\ client[c].retry = None
      /\ UNCHANGED <<config, now, start, life, conns, retries, new_tokens>>
  BY DEF ClientGetsRetry
<1>3. client \in [Attempts -> StartedClients \cup {NotStarted}] /\ client[c] \in StartedClients
      /\ r \in Retries
  BY <1>0, <1>2, StartedFacts, Zenon DEF Types
<1> DEFINE new == [client[c] EXCEPT !.retry = r, !.retry_addr = a]
<1>4. client' = [client EXCEPT ![c] = new]
  BY <1>1, <1>3, Zenon
<1>5. /\ new \in StartedClients /\ new.started /\ new.version = client[c].version
      /\ new.token = client[c].token /\ new.retry = r
  BY <1>3, Zenon DEF StartedClients
<1> HIDE DEF new
<1>6. client'[c] = new /\ \A e \in Attempts \ {c} : client'[e] = client[e]
  BY <1>3, <1>4
<1>7. client' \in [Attempts -> StartedClients \cup {NotStarted}]
  BY <1>3, <1>4, <1>5
<1>8. \A e \in Attempts : client[e].started =>
               /\ client'[e].started /\ client'[e].version = client[e].version
               /\ client'[e].token = client[e].token
               /\ client[e].retry # None => client'[e].retry = client[e].retry
  BY <1>2, <1>5, <1>6
<1>9. \A e \in Attempts : client'[e].started =>
               /\ client'[e].token \in new_tokens \cup {None, Foreign}
               /\ client'[e].retry # None =>
                   /\ client'[e].retry \in retries
                   /\ client'[e].retry.odcid = FirstDcid(e)
                   /\ client'[e].token = None
  BY <1>0, <1>1, <1>2, <1>5, <1>6, ZenonT(40) DEF ClientsRight
<1> QED
  BY <1>2, <1>7, <1>8, <1>9, ClientInv

\* It is refused, or passes over the answer.
LEMMA HearsInv ==
    ASSUME IndInv, NEW c \in Attempts, client[c].started, NEW answer, Hears(c, answer),
           UNCHANGED <<config, now, start, life, conns, retries, new_tokens>>
    PROVE  IndInv'
<1>0. Types /\ ClientsRight
  BY DEF IndInv
<1>1. client' = client \/ client' = [client EXCEPT ![c].refused = TRUE]
  BY DEF Hears
<1>2. client \in [Attempts -> StartedClients \cup {NotStarted}] /\ client[c] \in StartedClients
  BY <1>0, StartedFacts DEF Types
<1> DEFINE new == [client[c] EXCEPT !.refused = TRUE]
<1>3. /\ new \in StartedClients /\ new.started /\ new.version = client[c].version
      /\ new.token = client[c].token /\ new.retry = client[c].retry
  BY <1>2, Zenon DEF StartedClients
<1>4. client' = client \/ client' = [client EXCEPT ![c] = new]
  BY <1>1
<1> HIDE DEF new
<1>5. client'[c] \in {client[c], new} /\ \A e \in Attempts \ {c} : client'[e] = client[e]
  BY <1>2, <1>4
<1>6. client' \in [Attempts -> StartedClients \cup {NotStarted}]
  BY <1>2, <1>3, <1>4
<1>7. \A e \in Attempts : client[e].started =>
               /\ client'[e].started /\ client'[e].version = client[e].version
               /\ client'[e].token = client[e].token
               /\ client'[e].retry = client[e].retry
  BY <1>3, <1>5
<1>8. \A e \in Attempts : client'[e].started => client[e].started
  BY <1>5
<1>9. \A e \in Attempts : client'[e].started =>
               /\ client'[e].token \in new_tokens \cup {None, Foreign}
               /\ client'[e].retry # None =>
                   /\ client'[e].retry \in retries
                   /\ client'[e].retry.odcid = FirstDcid(e)
                   /\ client'[e].token = None
  BY <1>0, <1>7, <1>8 DEF ClientsRight
<1> QED
  BY <1>6, <1>7, <1>9, ClientInv

\* A token that process p makes now.
LEMMA MintFacts ==
    ASSUME Types, NEW p \in Procs, NEW t, t.key = Secret(p), t.ts = timestamp(p), t.born = now,
           t.by = <<p, life[p]>>
    PROVE  /\ t.key \in Secrets /\ t.ts \in Times /\ t.born \in Times /\ t.by \in Lives
           /\ MadeRight(t)
<1>1. /\ start[p] \in Times /\ now \in Times /\ start[p] <= now /\ life[p] \in 0..MaxRestarts
      /\ config.retry_secret \in BOOLEAN
  BY DEF Types, Configs
<1>2. /\ start[p] \in Int /\ now \in Int /\ MaxTime \in Int /\ now <= MaxTime /\ 0 <= start[p]
      /\ life[p] \in Int
  BY <1>1, AddressValidationAssumption DEF Times
<1>3. now - start[p] \in Times
  BY <1>1, <1>2 DEF Times
<1>4. t.by \in Lives /\ t.by[1] = p /\ t.by[2] = life[p]
  BY <1>1 DEF Lives
<1>5. t.key \in Secrets /\ t.key = IF config.retry_secret THEN <<"configured">> ELSE t.by
  <2>1. t.key = IF config.retry_secret THEN <<"configured">> ELSE t.by
    BY DEF Secret
  <2>2. CASE config.retry_secret = TRUE
    BY <2>1, <2>2 DEF Secrets
  <2>3. CASE config.retry_secret = FALSE
    BY <1>4, <2>1, <2>3 DEF Secrets
  <2> QED
    BY <1>1, <2>1, <2>2, <2>3, Zenon
<1>6. MadeRight(t)
  <2>1. \A q \in Procs : Made(t, q) => q = p
    BY DEF Made
  <2>2. start[p] <= t.born /\ t.ts = t.born - start[p]
    BY <1>1 DEF timestamp
  <2>3. t.born <= now /\ t.by[2] <= life[t.by[1]]
    BY <1>2, <1>4
  <2> QED
    BY <1>5, <2>1, <2>2, <2>3 DEF MadeRight
<1> QED
  BY <1>1, <1>3, <1>4, <1>5, <1>6 DEF timestamp

\* A Retry in answer to a first flight.
LEMMA SendRetryInv ==
    ASSUME IndInv, NEW p \in Procs, NEW c \in Attempts, NEW i \in Initials(c),
           from_packet(i.token) = None, send_retry(p, i),
           UNCHANGED <<config, now, start, life, new_tokens>>
    PROVE  IndInv'
<1>0. /\ Types /\ RetriesRight /\ NewTokensRight /\ NewTokenNeedsProof
      /\ ClientsRight /\ ConnsRight
  BY DEF IndInv
<1> DEFINE sent == {r \in retries : r.odcid = i.dcid}
           scid == RetryScid(i.c, Cardinality(sent) + 1)
           token == generate_retry_token(p, i.version, i.from, scid, i.dcid)
           new == write_retry_packet(scid, i.dcid, token)
<1>1. /\ Cardinality(sent) < MaxRetries /\ retries' = retries \cup {new}
      /\ UNCHANGED <<conns, client>>
  BY Zenon DEF send_retry
<1>2. /\ i.c = c /\ client[c].started /\ i.version = client[c].version /\ i.from \in Addrs
      /\ i.dcid = FirstDcid(c) /\ i.version \in Offered
  <2>1. i.c = c /\ client[c].started /\ i.version = client[c].version
    BY PacketFacts, Zenon
  <2>2. ~AnswersRetry(c, i)
    BY <1>0, FlightTokens, Present, Zenon
  <2> QED
    BY <1>0, <2>1, <2>2, PacketFacts, FlightTokens, StartedFacts, Zenon DEF FirstFlight
<1>3. Cardinality(sent) + 1 \in 1..MaxRetries
  <2>1. IsFiniteSet(sent)
    BY <1>0, FS_Subset, Zenon DEF Types
  <2>2. Cardinality(sent) \in Nat
    BY <2>1, FS_CardinalityType, Zenon
  <2> QED
    BY <1>1, <2>2, AddressValidationAssumption
<1>4. scid \in Dcids /\ i.dcid \in Dcids /\ scid = RetryScid(c, Cardinality(sent) + 1)
  <2>1. Cardinality(sent) + 1 \in 0..(MaxRetries + 1) /\ 0 \in 0..(MaxRetries + 1)
    BY <1>3, AddressValidationAssumption
  <2> QED
    BY <1>2, <2>1 DEF RetryScid, FirstDcid, Dcids
<1> HIDE DEF sent, scid
<1>5. /\ token.key = Secret(p) /\ token.ts = timestamp(p) /\ token.born = now /\ token.by = <<p, life[p]>>
      /\ token.rscid = scid /\ token.odcid = i.dcid /\ token.version = i.version
  BY Zenon DEF generate_retry_token
<1>6. /\ token.key \in Secrets /\ token.ts \in Times /\ token.born \in Times /\ token.by \in Lives
      /\ MadeRight(token)
  <2> HIDE DEF token
  <2> QED
    BY <1>0, <1>5, MintFacts
<1>7. token \in RetryTokens
  BY <1>2, <1>4, <1>5, <1>6, Zenon DEF RetryTokens, generate_retry_token
<1> HIDE DEF token
<1>8. new \in Retries /\ new.scid = scid /\ new.odcid = i.dcid /\ new.token = token
  BY <1>4, <1>7, Zenon DEF write_retry_packet, Retries
<1> HIDE DEF new
<1>9. Types'
  <2>1. IsFiniteSet(retries')
    BY <1>0, <1>1, FS_AddElement, Zenon DEF Types
  <2> QED
    BY <1>0, <1>1, <1>8, <2>1 DEF Types, ConnectionsOf
<1>10. \A t : MadeRight(t) => MadeRight(t)'
  BY Zenon DEF MadeRight, Made
<1>11. RetriesRight'
  <2> SUFFICES ASSUME NEW r \in retries'
               PROVE  /\ MadeRight(r.token)'
                      /\ r.token.rscid = r.scid /\ r.token.odcid = r.odcid
                      /\ \E e \in Attempts, n \in 1..MaxRetries :
                           /\ r.odcid = FirstDcid(e) /\ r.scid = RetryScid(e, n)
                           /\ client'[e].started /\ r.token.version = client'[e].version
    BY Zenon DEF RetriesRight
  <2>1. CASE r \in retries
    BY <1>0, <1>1, <1>10, <2>1, Zenon DEF RetriesRight
  <2>2. CASE r = new
    BY <1>1, <1>2, <1>3, <1>4, <1>5, <1>6, <1>8, <1>10, <2>2, Zenon
  <2> QED
    BY <1>1, <2>1, <2>2
<1>12. NewTokensRight' /\ NewTokenNeedsProof'
  BY <1>0, <1>1, <1>10, Zenon DEF NewTokensRight, NewTokenNeedsProof
<1>13. ClientsRight'
  BY <1>0, <1>1, Zenon DEF ClientsRight
<1>14. ConnsRight'
  BY <1>0, <1>1 DEF ConnsRight, LetIn, Secret
<1> QED
  BY <1>9, <1>11, <1>12, <1>13, <1>14 DEF IndInv

\* Time passes.
LEMMA TickInv == ASSUME IndInv, Tick PROVE IndInv'
<1>0. /\ Types /\ RetriesRight /\ NewTokensRight /\ NewTokenNeedsProof
      /\ ClientsRight /\ ConnsRight
  BY DEF IndInv
<1>1. /\ now < MaxTime /\ now' = now + 1
      /\ UNCHANGED <<config, start, life, conns, client, retries, new_tokens>>
  BY DEF Tick
<1>2. now' \in Times /\ \A x \in Times : x <= now => x <= now'
  BY <1>0, <1>1, AddressValidationAssumption DEF Times, Types
<1>3. Types'
  BY <1>0, <1>1, <1>2, Zenon DEF Types, ConnectionsOf
<1>4. ASSUME NEW t, t.born \in Times, MadeRight(t) PROVE MadeRight(t)'
  BY <1>1, <1>2, <1>4, Zenon DEF MadeRight, Made
<1>5. RetriesRight'
  <2>1. \A r \in retries : r.token.born \in Times
    BY <1>0, TokenFields DEF Types
  <2> QED
    BY <1>0, <1>1, <1>4, <2>1 DEF RetriesRight
<1>6. NewTokensRight' /\ NewTokenNeedsProof'
  <2>1. \A t \in new_tokens : t.born \in Times
    BY <1>0, TokenFields DEF Types
  <2> QED
    BY <1>0, <1>1, <1>4, <2>1 DEF NewTokensRight, NewTokenNeedsProof
<1>7. ClientsRight'
  BY <1>0, <1>1, Zenon DEF ClientsRight
<1>8. ConnsRight'
  BY <1>0, <1>1 DEF ConnsRight, LetIn, Secret
<1> QED
  BY <1>3, <1>5, <1>6, <1>7, <1>8 DEF IndInv

\* The connections of a process that are left are as they were.
LEMMA FewerConns ==
    ASSUME Types, NEW S \in SUBSET conns
    PROVE  /\ IsFiniteSet(S) /\ S \subseteq Connections
           /\ \A p \in Procs : Cardinality({k \in S : k.proc = p}) <= MaxConnections
<1>1. IsFiniteSet(conns) /\ conns \subseteq Connections
  BY DEF Types
<1>2. IsFiniteSet(S)
  BY <1>1, FS_Subset
<1>3. ASSUME NEW p \in Procs PROVE Cardinality({k \in S : k.proc = p}) <= MaxConnections
  <2> DEFINE T == {k \in S : k.proc = p}
  <2>1. IsFiniteSet(ConnectionsOf(p)) /\ T \in SUBSET ConnectionsOf(p)
    BY <1>1, FS_Subset DEF ConnectionsOf
  <2> HIDE DEF T
  <2>2. IsFiniteSet(T) /\ Cardinality(T) <= Cardinality(ConnectionsOf(p))
    BY <2>1, FS_Subset
  <2>3. Cardinality(T) \in Nat /\ Cardinality(ConnectionsOf(p)) \in Nat
    BY <2>1, <2>2, FS_CardinalityType
  <2>4. Cardinality(ConnectionsOf(p)) <= MaxConnections
    BY DEF Types
  <2> QED
    BY <2>2, <2>3, <2>4, AddressValidationAssumption DEF T
<1> QED
  BY <1>1, <1>2, <1>3

\* A process is restarted.
LEMMA RestartInv == ASSUME IndInv, NEW p \in Procs, Restart(p) PROVE IndInv'
<1>0. /\ Types /\ RetriesRight /\ NewTokensRight /\ NewTokenNeedsProof
      /\ ClientsRight /\ ConnsRight
  BY DEF IndInv
<1>1. /\ life[p] < MaxRestarts
      /\ life' = [life EXCEPT ![p] = life[p] + 1]
      /\ start' = [start EXCEPT ![p] = now]
      /\ conns' = conns \ ConnectionsOf(p)
      /\ UNCHANGED <<config, now, client, retries, new_tokens>>
  BY DEF Restart
<1>2. life \in [Procs -> 0..MaxRestarts] /\ start \in [Procs -> Times] /\ now \in Times
  BY <1>0 DEF Types
<1>3. /\ life' \in [Procs -> 0..MaxRestarts] /\ life'[p] = life[p] + 1
      /\ \A q \in Procs \ {p} : life'[q] = life[q]
  <2>1. life[p] + 1 \in 0..MaxRestarts
    BY <1>1, <1>2, AddressValidationAssumption
  <2> QED
    BY <1>1, <1>2, <2>1
<1>4. /\ start' \in [Procs -> Times] /\ start'[p] = now
      /\ \A q \in Procs \ {p} : start'[q] = start[q]
  BY <1>1, <1>2, Zenon
<1>5. Types'
  <2>1. conns' \in SUBSET conns
    BY <1>1
  <2>2. /\ IsFiniteSet(conns') /\ conns' \subseteq Connections
        /\ \A q \in Procs : Cardinality({k \in conns' : k.proc = q}) <= MaxConnections
    <3> HIDE <1>1
    <3> QED
      BY <1>0, <2>1, FewerConns
  <2>3. \A q \in Procs : start'[q] <= now'
    <3>1. now <= now
      BY <1>2, AddressValidationAssumption DEF Times
    <3> QED
      BY <1>0, <1>1, <1>4, <3>1 DEF Types
  <2> QED
    BY <1>0, <1>1, <1>3, <1>4, <2>2, <2>3 DEF Types, ConnectionsOf
<1>6. ASSUME NEW t, t.by \in Lives, MadeRight(t) PROVE MadeRight(t)'
  <2>1. PICK q \in Procs, n \in 0..MaxRestarts : t.by = <<q, n>>
    BY <1>6 DEF Lives
  <2>2. n <= life[q]
    BY <1>6, <2>1 DEF MadeRight
  <2>3. n <= life'[q] /\ (q = p => n # life'[q])
    <3>1. life[q] \in Nat /\ life[p] \in Nat /\ n \in Nat
      BY <1>2
    <3> QED
      BY <1>3, <2>2, <3>1
  <2>4. ASSUME NEW x \in Procs, Made(t, x)'
        PROVE  start'[x] <= t.born /\ t.ts = t.born - start'[x]
    <3>1. x = q /\ n = life'[x]
      BY <2>1, <2>4 DEF Made
    <3>2. x # p
      BY <2>3, <3>1
    <3>3. Made(t, x)
      BY <1>3, <2>4, <3>2 DEF Made
    <3> QED
      BY <1>4, <1>6, <3>2, <3>3 DEF MadeRight
  <2>5. t.by[1] = q /\ t.by[2] = n
    BY <2>1
  <2> QED
    BY <1>1, <1>6, <2>3, <2>4, <2>5 DEF MadeRight
<1>7. RetriesRight'
  <2>1. \A r \in retries : r.token.by \in Lives
    BY <1>0, TokenFields, Zenon DEF Types
  <2> QED
    BY <1>0, <1>1, <1>6, <2>1, Zenon DEF RetriesRight
<1>8. NewTokensRight' /\ NewTokenNeedsProof'
  <2>1. \A t \in new_tokens : t.by \in Lives
    BY <1>0, TokenFields, Zenon DEF Types
  <2> QED
    BY <1>0, <1>1, <1>6, <2>1, Zenon DEF NewTokensRight, NewTokenNeedsProof
<1>9. ClientsRight'
  BY <1>0, <1>1, Zenon DEF ClientsRight
<1>10. ConnsRight'
  <2>1. \A k \in conns' : k \in conns /\ k.proc \in Procs /\ k.proc # p
    BY <1>0, <1>1 DEF ConnectionsOf, Types, Connections
  <2>2. \A k \in conns' : Secret(k.proc)' = Secret(k.proc)
    BY <1>1, <1>3, <2>1, Zenon DEF Secret
  <2>3. \A k \in conns' : LetIn(k) => LetIn(k)'
    BY <1>1 DEF LetIn
  <2> QED
    BY <1>0, <1>1, <2>1, <2>2, <2>3 DEF ConnsRight
<1> QED
  BY <1>5, <1>7, <1>8, <1>9, <1>10 DEF IndInv

\* A connection ends.
LEMMA EndsInv == ASSUME IndInv, NEW k \in conns, ConnectionEnds(k) PROVE IndInv'
<1>0. /\ Types /\ RetriesRight /\ NewTokensRight /\ NewTokenNeedsProof
      /\ ClientsRight /\ ConnsRight
  BY DEF IndInv
<1>1. /\ conns' \in SUBSET conns
      /\ UNCHANGED <<config, now, start, life, client, retries, new_tokens>>
  BY DEF ConnectionEnds
<1>2. Types'
  <2>1. /\ IsFiniteSet(conns') /\ conns' \subseteq Connections
        /\ \A q \in Procs : Cardinality({x \in conns' : x.proc = q}) <= MaxConnections
    BY <1>0, <1>1, FewerConns
  <2> QED
    BY <1>0, <1>1, <2>1 DEF Types, ConnectionsOf
<1>3. \A t : MadeRight(t) => MadeRight(t)'
  BY <1>1, Zenon DEF MadeRight, Made
<1>4. RetriesRight' /\ NewTokensRight' /\ NewTokenNeedsProof' /\ ClientsRight'
  BY <1>0, <1>1, <1>3, Zenon DEF RetriesRight, NewTokensRight, NewTokenNeedsProof, ClientsRight
<1>5. ConnsRight'
  BY <1>0, <1>1 DEF ConnsRight, LetIn, Secret
<1> QED
  BY <1>2, <1>4, <1>5 DEF IndInv

\* A connection completes its handshake, and may give the client a token.
LEMMA CompletedInv == ASSUME IndInv, NEW k \in conns, HandshakeCompleted(k) PROVE IndInv'
<1>0. /\ Types /\ RetriesRight /\ NewTokensRight /\ NewTokenNeedsProof
      /\ ClientsRight /\ ConnsRight
  BY DEF IndInv
<1> DEFINE submitted == k.new_token_submitted \/ submit_new_token(k)
           done == [k EXCEPT !.completed = TRUE, !.new_token_submitted = submitted]
           t == generate_new_token(k.proc, k.remote_addr)
<1>1. /\ conns' = (conns \ {k}) \cup {done}
      /\ new_tokens' = IF submit_new_token(k) THEN new_tokens \cup {t} ELSE new_tokens
      /\ UNCHANGED <<config, now, start, life, client, retries>>
  BY DEF HandshakeCompleted
<1>2. k \in Connections /\ submitted \in BOOLEAN
  BY <1>0 DEF Types
<1> HIDE DEF submitted
<1>3. /\ done \in Connections /\ done.proc = k.proc /\ done.c = k.c /\ done.remote_addr = k.remote_addr
      /\ done.token = k.token /\ done.original_dcid = k.original_dcid /\ done.scid = k.scid
      /\ done.retry_scid = k.retry_scid /\ done.routes = k.routes
  BY <1>2, Zenon DEF Connections
<1> HIDE DEF done
<1>4. k.proc \in Procs /\ k.c \in Attempts /\ k.remote_addr \in Addrs
  BY <1>2 DEF Connections
<1>5. /\ t.key = Secret(k.proc) /\ t.ts = timestamp(k.proc) /\ t.born = now
      /\ t.by = <<k.proc, life[k.proc]>> /\ t.addr = k.remote_addr
  BY Zenon DEF generate_new_token
<1>6. /\ t.key \in Secrets /\ t.ts \in Times /\ t.born \in Times /\ t.by \in Lives
      /\ MadeRight(t)
  <2> HIDE DEF t
  <2> QED
    BY <1>0, <1>4, <1>5, MintFacts
<1>7. t \in NewTokens
  BY <1>4, <1>5, <1>6, Zenon DEF NewTokens, generate_new_token
<1> HIDE DEF t
<1>8. \A q \in Procs : Cardinality(ConnectionsOf(q)') <= MaxConnections
  <2> SUFFICES ASSUME NEW q \in Procs PROVE Cardinality(ConnectionsOf(q)') <= MaxConnections
    OBVIOUS
  <2>1. IsFiniteSet(ConnectionsOf(q)) /\ Cardinality(ConnectionsOf(q)) <= MaxConnections
    BY <1>0, FS_Subset DEF Types, ConnectionsOf
  <2>2. CASE q # k.proc
    <3>1. ConnectionsOf(q)' = ConnectionsOf(q)
      BY <1>1, <1>3, <2>2 DEF ConnectionsOf
    <3> QED
      BY <2>1, <3>1
  <2>3. CASE q = k.proc
    <3> DEFINE S == ConnectionsOf(q) \ {k}
    <3>1. ConnectionsOf(q)' = S \cup {done} /\ k \in ConnectionsOf(q)
      BY <1>1, <1>3, <2>3 DEF ConnectionsOf
    <3>2. IsFiniteSet(S) /\ Cardinality(S) = Cardinality(ConnectionsOf(q)) - 1
      BY <2>1, <3>1, FS_RemoveElement
    <3>3. Cardinality(S) \in Nat /\ Cardinality(ConnectionsOf(q)) \in Nat
      BY <2>1, <3>2, FS_CardinalityType
    <3> HIDE DEF S
    <3>4. Cardinality(S \cup {done}) = IF done \in S THEN Cardinality(S) ELSE Cardinality(S) + 1
      BY <3>2, FS_AddElement, Zenon
    <3>5. Cardinality(S \cup {done}) <= MaxConnections
      BY <2>1, <3>2, <3>3, <3>4, AddressValidationAssumption
    <3> QED
      BY <3>1, <3>5
  <2> QED
    BY <2>2, <2>3
<1>9. Types'
  <2>1. IsFiniteSet(conns')
    <3>1. IsFiniteSet(conns \ {k})
      BY <1>0, FS_RemoveElement DEF Types
    <3> QED
      BY <1>1, <3>1, FS_AddElement
  <2>2. conns' \subseteq Connections /\ new_tokens' \subseteq NewTokens
    BY <1>0, <1>1, <1>3, <1>7, Zenon DEF Types
  <2> QED
    BY <1>0, <1>1, <1>8, <2>1, <2>2 DEF Types
<1>10. \A x : MadeRight(x) => MadeRight(x)'
  BY <1>1, Zenon DEF MadeRight, Made
<1>11. RetriesRight' /\ NewTokensRight'
  BY <1>0, <1>1, <1>6, <1>10, Zenon DEF RetriesRight, NewTokensRight
<1>12. NewTokenNeedsProof'
  <2>1. ASSUME k.token # None
        PROVE  \E r \in retries : r.token.addr = t.addr /\ r.token.key = t.key /\ r.token.born <= t.born
    <3>1. k.token.addr = t.addr /\ k.token.key = t.key
      BY <1>0, <1>5, <2>1, Zenon DEF ConnsRight
    <3>2. LetIn(k) /\ client[k.c].started
      BY <1>0, Zenon DEF ConnsRight
    <3>3. CASE k.token \in new_tokens
      <4>1. PICK r \in retries : /\ r.token.addr = k.token.addr /\ r.token.key = k.token.key
                                 /\ r.token.born <= k.token.born
        BY <1>0, <3>3, Zenon DEF NewTokenNeedsProof
      <4>2. k.token.born <= now /\ k.token.born \in Times /\ r.token.born \in Times /\ now \in Times
        BY <1>0, <3>3, TokenFields, Zenon DEF NewTokensRight, MadeRight, Types
      <4>3. r.token.born <= t.born
        BY <1>5, <4>1, <4>2, AddressValidationAssumption DEF Times
      <4> QED
        BY <3>1, <4>1, <4>3, Zenon
    <3>4. CASE client[k.c].retry # None /\ k.token = client[k.c].retry.token
      <4>1. client[k.c].retry \in retries
        BY <1>0, <1>4, <3>2, <3>4, Zenon DEF ClientsRight
      <4>2. k.token.born <= now
        BY <1>0, <3>4, <4>1 DEF RetriesRight, MadeRight
      <4> QED
        BY <1>5, <3>1, <3>4, <4>1, <4>2
    <3> QED
      BY <2>1, <3>2, <3>3, <3>4, Zenon DEF LetIn
  <2>2. submit_new_token(k) => k.token # None
    BY DEF submit_new_token
  <2> QED
    BY <1>0, <1>1, <2>1, <2>2, Zenon DEF NewTokenNeedsProof
<1>13. ClientsRight'
  <2>1. new_tokens \subseteq new_tokens'
    BY <1>1, Zenon
  <2> QED
    BY <1>0, <1>1, <2>1 DEF ClientsRight
<1>14. ConnsRight'
  <2> SUFFICES ASSUME NEW x \in conns'
               PROVE  /\ client'[x.c].started
                      /\ x.original_dcid = FirstDcid(x.c)
                      /\ LetIn(x)'
                      /\ x.token # None => x.token.addr = x.remote_addr /\ x.token.key = Secret(x.proc)'
    BY DEF ConnsRight
  <2>1. new_tokens \subseteq new_tokens'
    BY <1>1, Zenon
  <2>2. \A y : LetIn(y) => LetIn(y)'
    BY <1>1, <2>1 DEF LetIn
  <2>3. \A q : Secret(q)' = Secret(q)
    BY <1>1, Zenon DEF Secret
  <2>4. CASE x \in conns
    BY <1>0, <1>1, <2>2, <2>3, <2>4, Zenon DEF ConnsRight
  <2>5. CASE x = done
    <3>1. LetIn(k) => LetIn(done)
      BY <1>3, Zenon DEF LetIn
    <3> QED
      BY <1>0, <1>1, <1>3, <2>2, <2>3, <2>5, <3>1, Zenon DEF ConnsRight
  <2> QED
    BY <1>1, <2>4, <2>5
<1> QED
  BY <1>9, <1>11, <1>12, <1>13, <1>14 DEF IndInv

\* The connection that is made for an Initial.
LEMMA ConnectionFacts ==
    ASSUME IndInv, NEW p \in Procs, NEW c \in Attempts, NEW i \in Initials(c),
           NEW k, k = Connection(p, i)
    PROVE  /\ k \in Connections /\ k.proc = p /\ k.c = c /\ k.remote_addr = i.from
           /\ k.token = from_packet(i.token) /\ k.original_dcid = FirstDcid(c)
           /\ k.routes = {FirstDcid(c), k.scid} /\ LetIn(k)
           /\ \/ FirstFlight(c, i) /\ k.scid = GeneratedScid(c)
              \/ AnswersRetry(c, i) /\ k.scid = i.dcid
<1>0. Types /\ ClientsRight
  BY Zenon DEF IndInv
<1>1. /\ i.c = c /\ (FirstFlight(c, i) \/ AnswersRetry(c, i)) /\ i.from \in Addrs
      /\ client[c].started
  BY <1>0, PacketFacts, FlightTokens
<1>2. FirstDcid(c) \in Dcids /\ GeneratedScid(c) \in Dcids
  <2>1. 0 \in 0..(MaxRetries + 1) /\ MaxRetries + 1 \in 0..(MaxRetries + 1)
    BY AddressValidationAssumption
  <2> QED
    BY <2>1 DEF FirstDcid, GeneratedScid, Dcids
<1> DEFINE token == from_packet(i.token)
           retried == token.kind = "retry"
           odcid == IF retried THEN token.odcid ELSE i.dcid
           scid == IF retried THEN i.dcid ELSE GeneratedScid(i.c)
<1>3. k = [proc |-> p, c |-> i.c, remote_addr |-> i.from, token |-> token,
           original_dcid |-> odcid, scid |-> scid,
           retry_scid |-> IF retried THEN scid ELSE None,
           routes |-> {odcid, scid}, completed |-> FALSE, new_token_submitted |-> FALSE]
  BY Zenon DEF Connection, Built
<1>4. CASE FirstFlight(c, i)
  <2>1. /\ token = None \/ (token = client[c].token /\ token \in new_tokens /\ token \in NewTokens)
        /\ i.dcid = FirstDcid(c)
    BY <1>0, <1>4, FlightTokens, Zenon DEF FirstFlight
  <2>2. ~retried
    BY <2>1, Present, Zenon
  <2>3. odcid = FirstDcid(c) /\ scid = GeneratedScid(c)
    BY <1>1, <2>1, <2>2, Zenon
  <2> HIDE DEF token, odcid, scid, retried
  <2>4. /\ k.proc = p /\ k.c = c /\ k.remote_addr = i.from /\ k.token = token
        /\ k.original_dcid = FirstDcid(c) /\ k.scid = GeneratedScid(c) /\ k.retry_scid = None
        /\ k.routes = {FirstDcid(c), GeneratedScid(c)}
    BY <1>1, <1>3, <2>2, <2>3
  <2>5. k \in Connections
    BY <1>1, <1>2, <1>3, <2>1, <2>2, <2>3 DEF Connections
  <2>6. LetIn(k)
    BY <2>1, <2>4, Zenon DEF LetIn
  <2> QED
    BY <1>4, <2>4, <2>5, <2>6, Zenon DEF token
<1>5. CASE AnswersRetry(c, i)
  <2> DEFINE r == client[c].retry
  <2>1. /\ token = i.token /\ token \in RetryTokens /\ r \in retries /\ r \in Retries
        /\ token = r.token /\ i.dcid = r.scid /\ r.odcid = FirstDcid(c) /\ r # None
    BY <1>0, <1>5, FlightTokens, Zenon DEF AnswersRetry
  <2>2. retried
    BY <2>1, Present, Zenon
  <2>3. odcid = FirstDcid(c) /\ scid = r.scid
    BY <2>1, <2>2, Zenon DEF IndInv, RetriesRight
  <2>4. r.scid \in Dcids
    BY <2>1, TokenFields, Zenon
  <2> HIDE DEF token, odcid, scid, retried
  <2>5. /\ k.proc = p /\ k.c = c /\ k.remote_addr = i.from /\ k.token = token
        /\ k.original_dcid = FirstDcid(c) /\ k.scid = r.scid /\ k.retry_scid = r.scid
        /\ k.routes = {FirstDcid(c), r.scid}
    BY <1>1, <1>3, <2>2, <2>3
  <2>6. k \in Connections
    BY <1>1, <1>2, <1>3, <2>1, <2>2, <2>3, <2>4 DEF Connections
  <2>7. LetIn(k)
    BY <2>1, <2>5 DEF LetIn
  <2> QED
    BY <1>5, <2>1, <2>5, <2>6, <2>7, Zenon DEF token
<1> QED
  BY <1>1, <1>4, <1>5, Zenon

\* A connection of process p keeps the routes that its token gave it when a packet
\* that is not routed makes another one, k.
LEMMA KeepsRoutes ==
    ASSUME IndInv, NEW p \in Procs, NEW c \in Attempts, NEW i \in Initials(c), ~Routed(p, i.dcid),
           NEW k, k = Connection(p, i), NEW o \in conns, o.proc = p,
           NEW new, new = [o EXCEPT !.routes = @ \ k.routes]
    PROVE  /\ new \in Connections /\ new.proc = p /\ new.c = o.c /\ new.remote_addr = o.remote_addr
           /\ new.token = o.token /\ new.original_dcid = o.original_dcid /\ new.scid = o.scid
           /\ new.retry_scid = o.retry_scid
           /\ LetIn(new)
<1>0. Types /\ ClientsRight /\ ConnsRight /\ RetriesRight
  BY DEF IndInv
<1>1. o \in Connections /\ o.c \in Attempts
  BY <1>0 DEF Types, Connections
<1>2. /\ new \in Connections /\ new.proc = p /\ new.c = o.c /\ new.remote_addr = o.remote_addr
      /\ new.token = o.token /\ new.original_dcid = o.original_dcid /\ new.scid = o.scid
      /\ new.retry_scid = o.retry_scid /\ new.routes = o.routes \ k.routes
  <2>1. o.routes \ k.routes \in SUBSET Dcids
    BY <1>1 DEF Connections
  <2> QED
    BY <1>1, <2>1 DEF Connections
<1>3. /\ k.routes = {FirstDcid(c), k.scid}
      /\ \/ FirstFlight(c, i) /\ k.scid = GeneratedScid(c)
         \/ AnswersRetry(c, i) /\ k.scid = i.dcid
  BY ConnectionFacts
<1>4. i.dcid \notin o.routes
  BY DEF Routed, ConnectionsOf
<1>5. client[o.c].started /\ LetIn(o)
  BY <1>0 DEF ConnsRight
<1>6. client[c].started
  BY PacketFacts
<1>7. AnswersRetry(c, i) => \E n \in 1..MaxRetries : i.dcid = RetryScid(c, n)
  <2> SUFFICES ASSUME AnswersRetry(c, i) PROVE \E n \in 1..MaxRetries : i.dcid = RetryScid(c, n)
    OBVIOUS
  <2>1. client[c].retry \in retries /\ client[c].retry.odcid = FirstDcid(c) /\ i.dcid = client[c].retry.scid
    BY <1>0, FlightTokens DEF AnswersRetry
  <2>2. PICK e \in Attempts, n \in 1..MaxRetries :
          client[c].retry.odcid = FirstDcid(e) /\ client[c].retry.scid = RetryScid(e, n)
    BY <1>0, <2>1 DEF RetriesRight
  <2> QED
    BY <2>1, <2>2 DEF FirstDcid
<1>8. CASE o.token = None /\ o.retry_scid = None
  BY <1>2, <1>8 DEF LetIn
<1>9. CASE /\ o.token \in new_tokens /\ o.token = client[o.c].token /\ o.retry_scid = None
           /\ o.scid = GeneratedScid(o.c) /\ {FirstDcid(o.c), o.scid} \subseteq o.routes
  <2>1. c # o.c
    <3> SUFFICES ASSUME c = o.c PROVE FALSE
      OBVIOUS
    <3>1. ~FirstFlight(c, i)
      BY <1>4, <1>9 DEF FirstFlight
    <3>2. client[c].token = None
      BY <1>0, <1>3, <3>1, FlightTokens
    <3>3. o.token # None
      BY <1>0, <1>9, Present DEF Types
    <3> QED
      BY <1>9, <3>2, <3>3
  <2>2. FirstDcid(o.c) \notin k.routes /\ GeneratedScid(o.c) \notin k.routes
    BY <1>3, <1>7, <2>1 DEF FirstDcid, GeneratedScid, RetryScid
  <2> QED
    BY <1>2, <1>9, <2>2 DEF LetIn
<1>10. CASE /\ client[o.c].retry # None /\ o.token = client[o.c].retry.token
            /\ o.scid = client[o.c].retry.scid /\ o.retry_scid = o.scid /\ o.scid \in o.routes
  <2>1. PICK n \in 1..MaxRetries : o.scid = RetryScid(o.c, n)
    <3>1. client[o.c].retry \in retries /\ client[o.c].retry.odcid = FirstDcid(o.c)
      BY <1>0, <1>1, <1>5, <1>10 DEF ClientsRight
    <3>2. PICK e \in Attempts, n \in 1..MaxRetries :
            client[o.c].retry.odcid = FirstDcid(e) /\ client[o.c].retry.scid = RetryScid(e, n)
      BY <1>0, <3>1 DEF RetriesRight
    <3> QED
      BY <1>10, <3>1, <3>2 DEF FirstDcid
  <2>2. n # 0 /\ n # MaxRetries + 1
    BY AddressValidationAssumption
  <2>3. o.scid # FirstDcid(c) /\ o.scid # GeneratedScid(c)
    BY <2>1, <2>2 DEF RetryScid, FirstDcid, GeneratedScid
  <2>4. o.scid \notin k.routes
    BY <1>3, <1>4, <1>10, <2>3
  <2> QED
    BY <1>2, <1>10, <2>4 DEF LetIn
<1> QED
  BY <1>2, <1>5, <1>8, <1>9, <1>10 DEF LetIn

\* The number of connections of p when one more is made.
LEMMA OneMore ==
    ASSUME Types, NEW p \in Procs, NEW k \in Connections, k.proc = p,
           Cardinality(ConnectionsOf(p)) < MaxConnections, conns' = Registered(k)
    PROVE  /\ IsFiniteSet(conns')
           /\ \A q \in Procs : Cardinality(ConnectionsOf(q)') <= MaxConnections
<1>0. IsFiniteSet(conns) /\ conns \subseteq Connections
  BY DEF Types
<1> DEFINE Moved(o) == IF o.proc = p THEN [o EXCEPT !.routes = @ \ k.routes] ELSE o
<1>1. conns' = {k} \cup {Moved(o) : o \in conns}
  BY DEF Registered
<1>2. \A o \in conns : Moved(o).proc = o.proc
  BY <1>0 DEF Connections
<1> HIDE DEF Moved
<1>3. ASSUME NEW S, IsFiniteSet(S)
      PROVE  /\ IsFiniteSet({k} \cup {Moved(o) : o \in S})
             /\ Cardinality({k} \cup {Moved(o) : o \in S}) <= Cardinality(S) + 1
  <2> DEFINE T == {Moved(o) : o \in S}
             f == [o \in S |-> Moved(o)]
  <2>1. f \in Surjection(S, T)
    BY DEF Surjection
  <2>2. IsFiniteSet(T) /\ Cardinality(T) <= Cardinality(S)
    BY <1>3, <2>1, FS_Surjection
  <2>3. Cardinality(T) \in Nat /\ Cardinality(S) \in Nat
    BY <1>3, <2>2, FS_CardinalityType
  <2> HIDE DEF T
  <2>4. /\ IsFiniteSet(T \cup {k})
        /\ Cardinality(T \cup {k}) = IF k \in T THEN Cardinality(T) ELSE Cardinality(T) + 1
    BY <2>2, FS_AddElement
  <2>5. Cardinality(T \cup {k}) <= Cardinality(S) + 1
    BY <2>2, <2>3, <2>4
  <2>6. {k} \cup T = T \cup {k}
    OBVIOUS
  <2> QED
    BY <2>4, <2>5, <2>6 DEF T
<1>4. IsFiniteSet(conns')
  BY <1>0, <1>1, <1>3
<1>5. ASSUME NEW q \in Procs PROVE Cardinality(ConnectionsOf(q)') <= MaxConnections
  <2>1. IsFiniteSet(ConnectionsOf(q)) /\ Cardinality(ConnectionsOf(q)) <= MaxConnections
    BY <1>0, FS_Subset DEF Types, ConnectionsOf
  <2>2. CASE q = p
    <3>1. ConnectionsOf(q)' = {k} \cup {Moved(o) : o \in ConnectionsOf(q)}
      BY <1>1, <1>2, <2>2 DEF ConnectionsOf
    <3>2. /\ IsFiniteSet(ConnectionsOf(q)')
          /\ Cardinality(ConnectionsOf(q)') <= Cardinality(ConnectionsOf(q)) + 1
      BY <1>3, <2>1, <3>1
    <3>3. Cardinality(ConnectionsOf(q)) \in Nat /\ Cardinality(ConnectionsOf(q)') \in Nat
      BY <2>1, <3>2, FS_CardinalityType
    <3> QED
      BY <2>2, <3>2, <3>3, AddressValidationAssumption
  <2>3. CASE q # p
    <3>1. \A o \in conns : o.proc = q => Moved(o) = o
      BY <2>3 DEF Moved
    <3>2. ConnectionsOf(q)' = ConnectionsOf(q)
      BY <1>1, <1>2, <2>3, <3>1 DEF ConnectionsOf
    <3> QED
      BY <2>1, <3>2
  <2> QED
    BY <2>2, <2>3
<1> QED
  BY <1>4, <1>5

\* A connection is made.
LEMMA RegisterInv ==
    ASSUME IndInv, NEW p \in Procs, NEW c \in Attempts, NEW i \in Initials(c), ~Routed(p, i.dcid),
           TokenValid(p, i), ~Dropped(p, i), conns' = Registered(Connection(p, i)),
           UNCHANGED <<config, now, start, life, client, retries, new_tokens>>
    PROVE  IndInv'
<1>0. /\ Types /\ RetriesRight /\ NewTokensRight /\ NewTokenNeedsProof
      /\ ClientsRight /\ ConnsRight
  BY DEF IndInv
<1>1. PICK k : k = Connection(p, i)
  BY Zenon
<1>2. /\ k \in Connections /\ k.proc = p /\ k.c = c /\ k.remote_addr = i.from
      /\ k.token = from_packet(i.token) /\ k.original_dcid = FirstDcid(c) /\ LetIn(k)
  BY <1>1, ConnectionFacts
<1>3. \A x \in conns' :
        \/ x = k
        \/ x \in conns
        \/ \E o \in conns : o.proc = p /\ x = [o EXCEPT !.routes = @ \ k.routes]
  BY <1>1, <1>2 DEF Registered
<1>4. Cardinality(ConnectionsOf(p)) < MaxConnections
  <2>1. IsFiniteSet(ConnectionsOf(p))
    BY <1>0, FS_Subset DEF Types, ConnectionsOf
  <2>2. Cardinality(ConnectionsOf(p)) \in Nat
    BY <2>1, FS_CardinalityType, Zenon
  <2> QED
    BY <2>2, AddressValidationAssumption DEF Dropped
<1>5. Types'
  <2>1. /\ IsFiniteSet(conns')
        /\ \A q \in Procs : Cardinality(ConnectionsOf(q)') <= MaxConnections
    BY <1>0, <1>1, <1>2, <1>4, OneMore, Zenon
  <2>2. conns' \subseteq Connections
    BY <1>0, <1>1, <1>2, <1>3, KeepsRoutes DEF Types
  <2> QED
    BY <1>0, <2>1, <2>2 DEF Types
<1>6. \A t : MadeRight(t) => MadeRight(t)'
  BY DEF MadeRight, Made
<1>7. RetriesRight' /\ NewTokensRight' /\ NewTokenNeedsProof' /\ ClientsRight'
  BY <1>0, <1>6, Zenon DEF RetriesRight, NewTokensRight, NewTokenNeedsProof, ClientsRight
<1>8. ConnsRight'
  <2> SUFFICES ASSUME NEW x \in conns'
               PROVE  /\ client[x.c].started
                      /\ x.original_dcid = FirstDcid(x.c)
                      /\ LetIn(x)
                      /\ x.token # None => x.token.addr = x.remote_addr /\ x.token.key = Secret(x.proc)
    BY Zenon DEF ConnsRight, LetIn, Secret
  <2>1. CASE x = k
    <3>1. client[c].started
      BY PacketFacts, Zenon
    <3>2. k.token # None => k.token.addr = k.remote_addr /\ k.token.key = Secret(p)
      BY <1>2, ValidFacts
    <3> QED
      BY <1>2, <2>1, <3>1, <3>2, Zenon
  <2>2. CASE x \in conns
    BY <1>0, <2>2, Zenon DEF ConnsRight
  <2>3. ASSUME NEW o \in conns, o.proc = p, x = [o EXCEPT !.routes = @ \ k.routes]
        PROVE  /\ client[x.c].started
               /\ x.original_dcid = FirstDcid(x.c)
               /\ LetIn(x)
               /\ x.token # None => x.token.addr = x.remote_addr /\ x.token.key = Secret(x.proc)
    <3>1. /\ x.proc = p /\ x.c = o.c /\ x.remote_addr = o.remote_addr
          /\ x.token = o.token /\ x.original_dcid = o.original_dcid
          /\ LetIn(x)
      BY <1>1, <2>3, KeepsRoutes
    <3> QED
      BY <1>0, <2>3, <3>1 DEF ConnsRight
  <2> QED
    BY <1>3, <2>1, <2>2, <2>3
<1> QED
  BY <1>5, <1>7, <1>8 DEF IndInv

\* What handle_new_connection does with a packet of attempt c: it is refused, asked
\* for a Retry, or makes a connection.
LEMMA ServerReadsCases ==
    ASSUME NEW p \in Procs, NEW c \in Attempts, NEW i \in Initials(c) \cup Others(c), ServerReads(p, i)
    PROVE  /\ UNCHANGED <<config, now, start, life, new_tokens>>
           /\ \/ \E answer : Hears(c, answer) /\ UNCHANGED <<conns, retries>>
              \/ i \in Initials(c) /\ from_packet(i.token) = None /\ send_retry(p, i)
              \/ /\ i \in Initials(c) /\ ~Routed(p, i.dcid) /\ TokenValid(p, i) /\ ~Dropped(p, i)
                 /\ conns' = Registered(Connection(p, i)) /\ UNCHANGED <<client, retries>>
<1>1. i.c = c
  BY PacketFacts
<1>2. /\ UNCHANGED <<config, now, start, life, new_tokens>> /\ ~Routed(p, i.dcid)
      /\ handle_new_connection(p, i)
  BY Zenon DEF ServerReads
<1>3. CASE send_version_negotiation(i) \/ send_invalid_token_close(i)
  BY <1>1, <1>2, <1>3 DEF send_version_negotiation, send_invalid_token_close
<1>4. CASE ~send_version_negotiation(i) /\ ~send_invalid_token_close(i)
  <2>1. /\ accept_initial_packet(i)
        /\ \/ AsksRetryFirst(i) /\ send_retry(p, i)
           \/ AsksRetryLate(i) /\ send_retry(p, i)
           \/ /\ TokenValid(p, i) /\ ~Dropped(p, i)
              /\ conns' = Registered(Connection(p, i)) /\ UNCHANGED <<client, retries>>
    BY <1>2, <1>4 DEF handle_new_connection
  <2>2. i \in Initials(c)
    BY <2>1, PacketFacts, Zenon DEF accept_initial_packet, accept_initial
  <2> QED
    BY <1>2, <2>1, <2>2 DEF AsksRetryFirst, AsksRetryLate
<1> QED
  BY <1>3, <1>4, Zenon

\* A server that has just been set up satisfies the invariant.
LEMMA InitInv == ASSUME Init PROVE IndInv
<1> USE DEF Init
<1>1. IsFiniteSet({}) /\ Cardinality({}) = 0
  BY FS_EmptySet
<1>2. Types
  <2>1. \A p \in Procs : ConnectionsOf(p) = {}
    BY DEF ConnectionsOf
  <2>2. 0 \in Times /\ 0 \in 0..MaxRestarts
    BY AddressValidationAssumption DEF Times
  <2>3. \A p \in Procs : start[p] <= now /\ Cardinality(ConnectionsOf(p)) <= MaxConnections
    BY <1>1, <2>1, AddressValidationAssumption
  <2>4. start \in [Procs -> Times] /\ life \in [Procs -> 0..MaxRestarts] /\ now \in Times
    BY <2>2
  <2>5. client \in [Attempts -> StartedClients \cup {NotStarted}]
    BY Zenon
  <2> QED
    BY <1>1, <2>3, <2>4, <2>5 DEF Types
<1>3. RetriesRight /\ NewTokensRight /\ NewTokenNeedsProof /\ ConnsRight
  BY DEF RetriesRight, NewTokensRight, NewTokenNeedsProof, ConnsRight
<1>4. ClientsRight
  BY DEF ClientsRight, NotStarted
<1> QED
  BY <1>2, <1>3, <1>4 DEF IndInv

\* Every step keeps the invariant.
LEMMA NextInv == ASSUME IndInv, [Next]_vars PROVE IndInv'
<1>1. ASSUME NEW c \in Attempts, ClientStarts(c) \/ ClientGetsRetry(c) PROVE IndInv'
  BY <1>1, ClientStartsInv, ClientGetsRetryInv, Zenon
<1>2. ASSUME NEW p \in Procs, NEW c \in Attempts, NEW i \in Initials(c) \cup Others(c), ServerReads(p, i)
      PROVE  IndInv'
  <2>1. UNCHANGED <<config, now, start, life, new_tokens>>
    BY <1>2, ServerReadsCases, Zenon
  <2>2. client[c].started
    BY PacketFacts
  <2>3. ASSUME NEW answer, Hears(c, answer), UNCHANGED <<conns, retries>> PROVE IndInv'
    BY <2>1, <2>2, <2>3, HearsInv
  <2>4. CASE i \in Initials(c) /\ from_packet(i.token) = None /\ send_retry(p, i)
    BY <2>1, <2>4, SendRetryInv, Zenon
  <2>5. CASE /\ i \in Initials(c) /\ ~Routed(p, i.dcid) /\ TokenValid(p, i) /\ ~Dropped(p, i)
             /\ conns' = Registered(Connection(p, i)) /\ UNCHANGED <<client, retries>>
    BY <2>1, <2>5, RegisterInv
  <2> QED
    BY <1>2, <2>3, <2>4, <2>5, ServerReadsCases, Zenon
<1>3. ASSUME NEW k \in conns, HandshakeCompleted(k) \/ ConnectionEnds(k) PROVE IndInv'
  BY <1>3, CompletedInv, EndsInv, Zenon
<1>4. CASE UNCHANGED vars
  <2>1. UNCHANGED <<config, now, start, life, conns, client, retries, new_tokens>>
    BY <1>4 DEF vars
  <2>2. client' \in [Attempts -> StartedClients \cup {NotStarted}]
    BY <2>1, Zenon DEF IndInv, Types
  <2>3. \A c \in Attempts : client'[c].started =>
               /\ client'[c].token \in new_tokens \cup {None, Foreign}
               /\ client'[c].retry # None =>
                   /\ client'[c].retry \in retries
                   /\ client'[c].retry.odcid = FirstDcid(c)
                   /\ client'[c].token = None
    BY <2>1 DEF IndInv, ClientsRight
  <2> QED
    BY <2>1, <2>2, <2>3, ClientInv
<1> QED
  BY <1>1, <1>2, <1>3, <1>4, RestartInv, TickInv DEF Next

-----------------------------------------------------------------------------
(* What the tokens are worth.                                              *)

\* The invariant holds throughout.
THEOREM TokensInductive == Spec => []IndInv
BY InitInv, NextInv, PTL DEF Spec

\* The types, and no process holds more than MAX_CONNECTIONS.
THEOREM ValidationTypeCorrect == Spec => []TypeOK
<1>1. IndInv => TypeOK
  <2> SUFFICES ASSUME Types PROVE TypeOK
    BY Zenon DEF IndInv
  <2>1. \A k \in conns : k.proc \in Procs /\ k.c \in Attempts /\ k.remote_addr \in Addrs
    BY Zenon DEF Types, Connections
  <2>2. \A r \in retries : r.token.kind = "retry" /\ r.token.ts \in Times /\ r.token.addr \in Addrs
    BY TokenFields, Present, Zenon DEF Types
  <2>3. \A t \in new_tokens : t.kind = "new_token" /\ t.ts \in Times /\ t.addr \in Addrs
    BY TokenFields, Present DEF Types
  <2> QED
    BY <2>1, <2>2, <2>3, Zenon DEF Types, TypeOK
<1> QED
  BY <1>1, TokensInductive, PTL

\* A token that comes back in time, from the address it was sent to, to the process
\* that made it is never answered with INVALID_TOKEN by handle_new_connection.
THEOREM FreshTokensAccepted == Spec => []FreshTokenAccepted
BY TokensInductive, FreshAccepted, PTL

\* The original_dcid and retry_scid that handle_new_connection announces are what
\* the client compares with, whichever Retry it took.
THEOREM ClientAlwaysAgrees == Spec => []ClientAgrees
<1>1. IndInv => ClientAgrees
  <2> SUFFICES ASSUME IndInv, NEW k \in conns
               PROVE  /\ k.original_dcid = FirstDcid(k.c)
                      /\ k.retry_scid = None => k.token.kind # "retry"
                      /\ k.retry_scid # None =>
                           /\ client[k.c].retry # None
                           /\ k.retry_scid = client[k.c].retry.scid
                           /\ k.scid = k.retry_scid
    BY DEF ClientAgrees
  <2>1. k.original_dcid = FirstDcid(k.c) /\ LetIn(k)
    BY DEF IndInv, ConnsRight
  <2>2. k.scid \in Dcids /\ new_tokens \subseteq NewTokens
    BY DEF IndInv, Types, Connections
  <2>3. k.scid # None
    BY <2>2, Present DEF Dcids
  <2> QED
    BY <2>1, <2>2, <2>3, Present, Zenon DEF LetIn
<1> QED
  BY <1>1, TokensInductive, PTL

\* submit_new_token gives tokens only to addresses that a Retry has proved, under the
\* secret of the same process or of all.
THEOREM NewTokensNeedProof == Spec => []NewTokenNeedsProof
<1>1. IndInv => NewTokenNeedsProof
  BY DEF IndInv
<1> QED
  BY <1>1, TokensInductive, PTL

\* A connection that a token has let in is routed by its CID until it ends.
LEMMA LetInRouted ==
    ASSUME IndInv, NEW o \in conns, o.token # None
    PROVE  Routed(o.proc, o.scid)
<1>1. LetIn(o)
  BY DEF IndInv, ConnsRight
<1>2. o.scid \in o.routes
  BY <1>1 DEF LetIn
<1> QED
  BY <1>2, Zenon DEF Routed, ConnectionsOf

\* What a step may let in by a token.
LEMMA ValidNext ==
    ASSUME IndInv, Next, NEW k \in conns', k.token # None, ~Routed(k.proc, k.scid)
    PROVE  /\ k.token.addr = k.remote_addr
           /\ Made(k.token, k.proc) => now - k.token.born < Timeout
<1>0. Types
  BY DEF IndInv
<1>1. k \notin conns
  BY LetInRouted
<1>2. ASSUME NEW o \in conns, HandshakeCompleted(o) PROVE FALSE
  <2>1. k = [o EXCEPT !.completed = TRUE, !.new_token_submitted = @ \/ submit_new_token(o)]
    BY <1>1, <1>2 DEF HandshakeCompleted
  <2>2. o \in Connections
    BY <1>0 DEF Types
  <2>3. k.token = o.token /\ k.proc = o.proc /\ k.scid = o.scid
    BY <2>1, <2>2, Zenon DEF Connections
  <2> QED
    BY <2>3, LetInRouted
<1>3. ASSUME NEW p \in Procs, NEW c \in Attempts, NEW i \in Initials(c), ~Routed(p, i.dcid),
             TokenValid(p, i), conns' = Registered(Connection(p, i))
      PROVE  /\ k.token.addr = k.remote_addr
             /\ Made(k.token, k.proc) => now - k.token.born < Timeout
  <2>1. PICK new : new = Connection(p, i)
    BY Zenon
  <2>2. new.proc = p /\ new.remote_addr = i.from /\ new.token = from_packet(i.token)
    BY <2>1, ConnectionFacts
  <2>3. \/ k = new
        \/ \E o \in conns : o.proc = p /\ k = [o EXCEPT !.routes = @ \ new.routes]
    BY <1>1, <1>3, <2>1, <2>2 DEF Registered
  <2>4. ASSUME NEW o \in conns, o.proc = p, k = [o EXCEPT !.routes = @ \ new.routes] PROVE FALSE
    <3>1. k.token = o.token /\ k.proc = o.proc /\ k.scid = o.scid
      BY <1>3, <2>1, <2>4, KeepsRoutes
    <3> QED
      BY <3>1, LetInRouted
  <2>5. k = new
    BY <2>3, <2>4
  <2> QED
    BY <1>3, <2>2, <2>5, ValidFacts
<1>4. ASSUME NEW p \in Procs, NEW c \in Attempts, NEW i \in Initials(c) \cup Others(c), ServerReads(p, i)
      PROVE  /\ k.token.addr = k.remote_addr
             /\ Made(k.token, k.proc) => now - k.token.born < Timeout
  BY <1>1, <1>3, <1>4, ServerReadsCases, Zenon DEF send_retry
<1>5. \A c \in Attempts : ClientStarts(c) \/ ClientGetsRetry(c) => conns' = conns
  BY DEF ClientStarts, ClientGetsRetry
<1>6. \A o \in conns : ConnectionEnds(o) => conns' \subseteq conns
  BY DEF ConnectionEnds
<1>7. \A p \in Procs : Restart(p) => conns' \subseteq conns
  BY DEF Restart
<1>8. Tick => conns' = conns
  BY DEF Tick
<1> QED
  BY <1>1, <1>2, <1>4, <1>5, <1>6, <1>7, <1>8, Zenon DEF Next

\* Whoever verify_retry_token or verify_new_token lets in is at the address the token
\* was sent to, less than retry_token_timeout after the process made it.
THEOREM AlwaysValidatedInTime == Spec => ValidatedInTime
<1>1. IndInv /\ [Next]_vars =>
        [\A k \in conns' :
            k.token # None /\ ~Routed(k.proc, k.scid) =>
                /\ k.token.addr = k.remote_addr
                /\ Made(k.token, k.proc) => now - k.token.born < Timeout]_vars
  BY ValidNext
<1> QED
  BY <1>1, TokensInductive, PTL DEF Spec, ValidatedInTime
=============================================================================
