---------------------------- MODULE ServerRoutes ----------------------------
(***************************************************************************)
(* Who gets a datagram: the routing of src/tokio-ngtcp2/src/server.rs.     *)
(*                                                                         *)
(* Server owns the connections that are shaking hands and routes by its    *)
(* own cid_map and addr_map; accept moves a finished connection into an    *)
(* AcceptedConnection handle.  Server and all handles read the same        *)
(* sockets, on different tasks, and pass on what is not theirs through     *)
(* SharedRoutes.  A lock protects SharedRoutes, so what one task does      *)
(* under it is one step; the await of send_packets is not under the lock,  *)
(* and splits flush in three (sending).                                    *)
(*                                                                         *)
(* A connection is named by its key, <<client, kind>>: the kind is "s" if  *)
(* the Initial had no token and "r" if it answered a Retry.  Its own CIDs  *)
(* are <<client, kind, i>>: 0 is the server's SCID, the others are issued  *)
(* by ngtcp2.  <<client, "o", 0>> is the client's original DCID.  The      *)
(* network may lose, duplicate and delay: a datagram to any CID a client   *)
(* ever learnt (known) may be read at any time, any number of times.       *)
(***************************************************************************)
EXTENDS Naturals, FiniteSets

CONSTANTS Clients,        \* connection attempts
          Addrs,          \* peer addresses
          AddrOf,         \* the address of each client
          ScidLen,        \* ServerConfig::with_scid_len: 0, or any other length
          Retry,          \* "always" (with_retry), "split" (asked for by ngtcp2), "never"
          MaxIssued,      \* bound: CIDs ngtcp2 issues for one connection
          MaxConnections, \* MAX_CONNECTIONS
          MaxTaken,       \* MAX_TAKEN_CIDS
          MaxQueued       \* MAX_QUEUED_DATAGRAMS

ASSUME ServerRoutesAssumption ==
    /\ AddrOf \in [Clients -> Addrs]
    /\ ScidLen \in Nat /\ Retry \in {"always", "split", "never"}
    /\ MaxIssued \in Nat /\ MaxConnections \in Nat
    /\ MaxTaken \in Nat \ {0} /\ MaxQueued \in Nat \ {0}

VARIABLES
    \* Where a connection is ("none", "server", "handle", "gone") and what ngtcp2
    \* says of it ("handshake", "completed", "closed").
    owner, status,
    \* Number of CIDs ngtcp2 has issued, indices of the active ones, issued_cids
    \* not yet polled and retired_cids not yet polled.
    count, active, issued, retired,
    \* Server: routes, the CIDs it no longer routes, and its place in accept.
    cid_map, addr_map, taken_cids, at,
    \* SharedRoutes.
    shared_cid_map, shared_addr_map, senders, shared_taken_cids, queued,
    \* Handles whose flush is at the await ("sending") or past it ("sent").
    flushing,
    \* The CIDs clients have learnt, and the datagram the last step read if it did
    \* not go to the connection it was sent to: by whom, and who got it.
    known, astray

conn == <<owner, status, count, active, issued, retired>>
server == <<cid_map, addr_map, taken_cids>>
shared == <<shared_cid_map, shared_addr_map, senders, shared_taken_cids, queued>>
vars == <<conn, server, at, shared, flushing, known, astray>>

Kinds == (IF Retry = "always" THEN {} ELSE {"s"}) \cup (IF Retry = "never" THEN {} ELSE {"r"})
Keys == Clients \X Kinds
Cid(k, i) == <<k[1], k[2], i>>
Cids(k, I) == {Cid(k, i) : i \in I}
OriginalDcid(c) == <<c, "o", 0>>
NoCid == <<"empty", "empty", 0>>
AllCids == {OriginalDcid(c) : c \in Clients} \cup UNION {Cids(k, 0..MaxIssued) : k \in Keys}

NoKey == <<"none", "none">>
Reset == <<"reset", "reset">>
ServerTask == <<"server", "server">>
Live(k) == owner[k] \in {"server", "handle"} /\ status[k] # "closed"

\* A connection with an empty SCID has no CIDs that a packet could carry.
ZeroLength(k) == ScidLen = 0 /\ k[2] = "s"

\* Datagram d was sent to connection k.
SentTo(d, k) ==
    \/ d.dcid[1] = k[1] /\ d.dcid[2] \in {"o", k[2]}
    \/ d.dcid = NoCid /\ ZeroLength(k) /\ d.from = AddrOf[k[1]]

Nothing == [by |-> NoKey]
Read(by, d, to) ==
    astray' = IF to \in Keys /\ SentTo(d, to) THEN Nothing
              ELSE [by |-> by, dcid |-> d.dcid, from |-> d.from, to |-> to]

\* The datagrams that may arrive.  Only an Initial carries an original DCID; a
\* peer of a connection with an empty SCID leaves the DCID empty.
Datagrams ==
    {[long |-> l, dcid |-> d, from |-> AddrOf[d[1]]] : l \in BOOLEAN, d \in known}
    \cup {[long |-> l, dcid |-> NoCid, from |-> AddrOf[k[1]]] :
            l \in BOOLEAN, k \in {x \in Keys : ZeroLength(x) /\ owner[x] # "none"}}
Arrives(d) == d.dcid[2] = "o" => d.long

Init ==
    /\ owner = [k \in Keys |-> "none"]
    /\ status = [k \in Keys |-> "handshake"]
    /\ count = [k \in Keys |-> 0]
    /\ active = [k \in Keys |-> {}]
    /\ issued = [k \in Keys |-> {}]
    /\ retired = [k \in Keys |-> {}]
    /\ cid_map = [d \in AllCids |-> NoKey]
    /\ addr_map = [a \in Addrs |-> NoKey]
    /\ taken_cids = {}
    /\ at = "top"
    /\ shared_cid_map = [d \in AllCids |-> NoKey]
    /\ shared_addr_map = [a \in Addrs |-> NoKey]
    /\ senders = {}
    /\ shared_taken_cids = {}
    /\ queued = [k \in Keys |-> 0]
    /\ flushing = [k \in Keys |-> "no"]
    /\ known = {OriginalDcid(c) : c \in Clients}
    /\ astray = Nothing

-----------------------------------------------------------------------------
(* Routing tables.                                                         *)

Looked(map, x) == IF x \in DOMAIN map THEN map[x] ELSE NoKey

\* register_issued_cids, of Server and of SharedRoutes.
Registered(map, k, I) == [d \in DOMAIN map |-> IF d \in Cids(k, I) THEN k ELSE map[d]]

\* The map part of remove_retired_cids and retire_cids.
Unregistered(map, k, I) ==
    [d \in DOMAIN map |-> IF d \in Cids(k, I) /\ map[d] = k THEN NoKey ELSE map[d]]

\* retain(|_, key| key != conn_key)
Without(map, k) == [x \in DOMAIN map |-> IF map[x] = k THEN NoKey ELSE map[x]]

Least(m, n) == IF m <= n THEN m ELSE n

\* Fault: CIDs that are no longer routed are not remembered.
RememberedNothing(taken, D) == {taken}

\* remember_taken_cid, once for every CID of D.  When there are too many, the
\* oldest are forgotten; which those are is left open.
Remembered(taken, D) ==
    IF Cardinality(taken \cup D) <= MaxTaken THEN {taken \cup D}
    ELSE {T \in SUBSET (taken \cup D) : Cardinality(T) = MaxTaken}

is_taken_cid(d) == d \in taken_cids \/ d \in shared_taken_cids

-----------------------------------------------------------------------------
(* ngtcp2: one call of read_pkt, write_pkt or handle_expiry.               *)

\* The call may move the connection on to s, issue the CIDs N and learn from the
\* peer that it has retired R.
Progress(k, s, N, R) ==
    /\ \/ s = status[k]
       \/ status[k] = "handshake" /\ s = "completed"
       \/ s = "closed"
    /\ N = {} \/ (N = {count[k] + 1} /\ count[k] < MaxIssued /\ ~ZeroLength(k))
    /\ \A i \in R : Cid(k, i) \in known /\ active[k] # {i}
    /\ status' = [status EXCEPT ![k] = s]
    /\ count' = [count EXCEPT ![k] = @ + Cardinality(N)]
    /\ active' = [active EXCEPT ![k] = (@ \cup N) \ R]

Statuses == {"handshake", "completed", "closed"}
New(k) == {{}, {count[k] + 1}}
Gone(k) == {{}} \cup {{i} : i \in active[k]}

\* The packets sent carry NEW_CONNECTION_ID for every active CID not acknowledged.
Sent(k) == known' = known \cup Cids(k, active'[k])

-----------------------------------------------------------------------------
(* Server                                                                  *)

\* The top of accept's loop: remove_closed_connections, then take_connection for
\* some connection that has completed its handshake, if there is one.
Closed == {k \in Keys : owner[k] = "server" /\ status[k] = "closed"}
Completed == {k \in Keys : owner[k] = "server" /\ status[k] = "completed"}

\* Fault: the routes of a connection that leaves the server stay.
WithoutNothing(map, K) == map

WithoutAll(map, K) == [x \in DOMAIN map |-> IF map[x] \in K THEN NoKey ELSE map[x]]

take_connection(k) ==
    LET taken == {d \in AllCids : cid_map[d] = k}
    IN  /\ owner' = [x \in Keys |-> IF x = k THEN "handle"
                                    ELSE IF x \in Closed THEN "gone" ELSE owner[x]]
        /\ shared_cid_map' = [d \in AllCids |-> IF d \in taken THEN k ELSE shared_cid_map[d]]
        /\ shared_addr_map' = [a \in Addrs |-> IF addr_map[a] = k THEN k ELSE shared_addr_map[a]]
        /\ senders' = senders \cup {k}
        /\ taken_cids' \in Remembered(taken_cids, taken)
        /\ cid_map' = WithoutAll(cid_map, Closed \cup {k})
        /\ addr_map' = WithoutAll(addr_map, Closed \cup {k})
        /\ UNCHANGED <<at, shared_taken_cids, queued>>

AcceptTop ==
    /\ at = "top"
    /\ \/ \E k \in Completed : take_connection(k)
       \/ /\ Completed = {}
          /\ owner' = [x \in Keys |-> IF x \in Closed THEN "gone" ELSE owner[x]]
          /\ cid_map' = WithoutAll(cid_map, Closed)
          /\ addr_map' = WithoutAll(addr_map, Closed)
          /\ at' = "select"
          /\ UNCHANGED <<taken_cids, shared>>
    /\ astray' = Nothing
    /\ UNCHANGED <<status, count, active, issued, retired, flushing, known>>

\* handle_existing_connection with handle_conn_error, and the body of
\* handle_timers: the CIDs are registered and unregistered before anything is
\* sent.  remove says that the error, or a CONNECTION_CLOSE that could not be
\* written, drops the connection.
ServerConnectionStep(k, remove) ==
    \E s \in Statuses : \E N \in New(k) : \E R \in Gone(k) :
        /\ Progress(k, s, N, R)
        /\ owner' = [owner EXCEPT ![k] = IF remove THEN "gone" ELSE "server"]
        /\ LET routed == Unregistered(Registered(cid_map, k, N), k, R)
           IN  cid_map' = IF remove THEN Without(routed, k) ELSE routed
        /\ addr_map' = IF remove THEN Without(addr_map, k) ELSE addr_map
        /\ taken_cids' \in Remembered(taken_cids, Cids(k, R))
        /\ UNCHANGED <<issued, retired, shared, flushing>>

\* Fault: nothing is passed on to the handles.
shared_resolve_nothing(d) == NoKey

\* Fault: no fallback to the address.
shared_resolve_by_cid(d) == Looked(shared_cid_map, d.dcid)

\* SharedRoutes::resolve
shared_resolve(d) ==
    LET k == Looked(shared_cid_map, d.dcid)
    IN  IF k = NoKey THEN shared_addr_map[d.from] ELSE k

\* Fault: a queue without a limit.
deliver_unbounded(k) ==
    /\ queued' = [queued EXCEPT ![k] = @ + 1]
    /\ UNCHANGED <<shared_cid_map, shared_addr_map, senders, shared_taken_cids>>

\* SharedRoutes::deliver, and the removal of the route when it fails.
deliver(k) ==
    IF k \in senders
    THEN /\ queued' = [queued EXCEPT ![k] = Least(@ + 1, MaxQueued)]
         /\ UNCHANGED <<shared_cid_map, shared_addr_map, senders, shared_taken_cids>>
    ELSE /\ shared_cid_map' = Without(shared_cid_map, k)
         /\ shared_addr_map' = Without(shared_addr_map, k)
         /\ UNCHANGED <<senders, shared_taken_cids, queued>>

\* handle_new_connection from accept_initial_packet on, once the token has been
\* looked at: the connection k is made and its routes are registered, then the
\* answer is sent.
CreateConnection(k, d) ==
    \E N \in New(k) :
        /\ owner[k] = "none"   \* bound: one connection per key
        /\ N = {} \/ (count[k] < MaxIssued /\ ~ZeroLength(k))
        /\ LET scids == IF ZeroLength(k) THEN {} ELSE {0} \cup N
           IN  /\ active' = [active EXCEPT ![k] = scids]
               /\ count' = [count EXCEPT ![k] = @ + Cardinality(N)]
               /\ cid_map' = [Registered(cid_map, k, scids) EXCEPT ![OriginalDcid(k[1])] = k]
               /\ addr_map' = IF ZeroLength(k) THEN [addr_map EXCEPT ![d.from] = k] ELSE addr_map
        /\ owner' = [owner EXCEPT ![k] = "server"]
        /\ Sent(k)
        /\ UNCHANGED <<status, issued, retired, taken_cids, shared, flushing>>

Full == Cardinality({k \in Keys : owner[k] = "server"}) >= MaxConnections

SendRetry(c) ==
    /\ known' = known \cup {Cid(<<c, "r">>, 0)}
    /\ UNCHANGED <<conn, server, shared, flushing>>

Dropped == UNCHANGED <<conn, server, shared, flushing, known>>

\* handle_new_connection: an Initial without a token, one that answers a Retry, or
\* a packet that is neither (or has a bad token, or is refused by ngtcp2).
handle_new_connection(d) ==
    LET c == d.dcid[1]
    IN  \/ /\ d.dcid = OriginalDcid(c)
           /\ Retry = "always" \/ (Retry = "split" /\ ~Full)
           /\ SendRetry(c)
           /\ Read(ServerTask, d, NoKey)
        \/ /\ d.dcid = OriginalDcid(c)
           /\ Retry # "always" /\ ~Full
           /\ CreateConnection(<<c, "s">>, d)
           /\ Read(ServerTask, d, <<c, "s">>)
        \/ /\ d.dcid = Cid(<<c, "r">>, 0)
           /\ ~Full
           /\ CreateConnection(<<c, "r">>, d)
           /\ Read(ServerTask, d, <<c, "r">>)
        \/ /\ Dropped
           /\ Read(ServerTask, d, NoKey)

ServerReads(d) ==
    LET direct == Looked(cid_map, d.dcid)
        k      == IF direct = NoKey /\ (~d.long \/ d.dcid = NoCid) THEN addr_map[d.from] ELSE direct
        h      == shared_resolve(d)
        Got(to) == Read(ServerTask, d, to)
    IN  /\ at = "select" /\ at' = "top"
        /\ Arrives(d)
        /\ \/ /\ k # NoKey
              /\ \E remove \in BOOLEAN : ServerConnectionStep(k, remove)
              /\ Sent(k)
              /\ Got(k)
           \/ /\ k = NoKey /\ h # NoKey
              /\ deliver(h)
              /\ Got(h)
              /\ UNCHANGED <<conn, server, flushing, known>>
           \/ /\ k = NoKey /\ h = NoKey /\ d.long
              /\ handle_new_connection(d)
           \/ /\ k = NoKey /\ h = NoKey /\ ~d.long
              /\ Got(NoKey) \/ (~is_taken_cid(d.dcid) /\ d.dcid # NoCid /\ Got(Reset))
              /\ Dropped

\* handle_timers: handle_expiry for every connection that is due; nothing is sent.
ServerTimer(k) ==
    /\ at \in {"select", "timers"} /\ at' = "timers"
    /\ owner[k] = "server"
    /\ \E remove \in BOOLEAN : ServerConnectionStep(k, remove)
    /\ astray' = Nothing
    /\ UNCHANGED known

ServerTimersDone ==
    /\ at = "timers" /\ at' = "top"
    /\ astray' = Nothing
    /\ UNCHANGED <<conn, server, shared, flushing, known>>

-----------------------------------------------------------------------------
(* AcceptedConnection                                                      *)

\* A call of ngtcp2 by the handle k: what it issues and retires waits in the
\* connection until sync_routes polls it.
HandleProgress(k) ==
    \E s \in Statuses : \E N \in New(k) : \E R \in Gone(k) :
        /\ Progress(k, s, N, R)
        /\ issued' = [issued EXCEPT ![k] = @ \cup N]
        /\ retired' = [retired EXCEPT ![k] = @ \cup R]
        /\ UNCHANGED owner

\* Fault: the retired CIDs are removed before the issued ones are registered.
sync_routes_retired_first(k, I, R) ==
    /\ shared_cid_map' = Registered(Unregistered(shared_cid_map, k, R), k, I)
    /\ shared_taken_cids' \in Remembered(shared_taken_cids, Cids(k, R))
    /\ UNCHANGED <<shared_addr_map, senders>>

\* sync_routes: the issued CIDs are registered, then the retired ones removed and
\* remembered.  I and R are what poll_issued_cids and poll_retired_cids return.
sync_routes(k, I, R) ==
    /\ shared_cid_map' = Unregistered(Registered(shared_cid_map, k, I), k, R)
    /\ shared_taken_cids' \in Remembered(shared_taken_cids, Cids(k, R))
    /\ UNCHANGED <<shared_addr_map, senders>>

\* Reading a datagram (handle_datagram) ends in sync_routes, in the same step: no
\* await and nothing sent in between.
HandleReads(k) ==
    \E s \in Statuses : \E N \in New(k) : \E R \in Gone(k) :
        /\ Progress(k, s, N, R)
        /\ sync_routes(k, issued[k] \cup N, retired[k] \cup R)
        /\ issued' = [issued EXCEPT ![k] = {}]
        /\ retired' = [retired EXCEPT ![k] = {}]
        /\ UNCHANGED owner

\* At the select of recv_event, or between two calls of the application.
Idle(k) == owner[k] = "handle" /\ flushing[k] = "no"

\* recv_event takes a datagram from its queue.
HandleReadsQueue(k) ==
    /\ Idle(k) /\ status[k] # "closed" /\ queued[k] > 0
    /\ queued' = [queued EXCEPT ![k] = @ - 1]
    /\ HandleReads(k)
    /\ astray' = Nothing
    /\ UNCHANGED <<server, at, flushing, known>>

\* Fault: the handle keeps whatever it reads.
ForAnotherNever(k, h) == FALSE

\* The datagram resolves to h, another accepted connection.
ForAnother(k, h) == h # NoKey /\ h # k

\* recv_event reads the socket: handle_received_datagram.
HandleReadsSocket(k, d) ==
    LET h == shared_resolve(d)
        passOn == ForAnother(k, h)
    IN  /\ Idle(k) /\ status[k] # "closed"
        /\ Arrives(d)
        /\ \/ /\ passOn
              /\ deliver(h)
              /\ UNCHANGED conn
           \/ /\ ~passOn
              /\ HandleReads(k)
              /\ UNCHANGED queued
        /\ Read(k, d, IF passOn THEN h ELSE k)
        /\ UNCHANGED <<server, at, flushing, known>>

\* flush, first part: flush_to_packets writes packets, or fails and is over.
HandleFlush(k, fails) ==
    /\ Idle(k) /\ status[k] # "closed"
    /\ HandleProgress(k)
    /\ flushing' = [flushing EXCEPT ![k] = IF fails THEN "no" ELSE "sending"]
    /\ astray' = Nothing
    /\ UNCHANGED <<server, at, shared, known>>

\* The await of send_packets: the packets go out.
HandleSends(k) ==
    /\ flushing[k] = "sending"
    /\ flushing' = [flushing EXCEPT ![k] = "sent"]
    /\ known' = known \cup Cids(k, active[k])
    /\ astray' = Nothing
    /\ UNCHANGED <<conn, server, at, shared>>

\* ... and the application may drop the future there, which ends the call.
HandleCancelled(k) ==
    /\ flushing[k] = "sending"
    /\ flushing' = [flushing EXCEPT ![k] = "no"]
    /\ astray' = Nothing
    /\ UNCHANGED <<conn, server, at, shared, known>>

\* The last part: sync_routes.
HandleSyncs(k) ==
    /\ flushing[k] = "sent"
    /\ flushing' = [flushing EXCEPT ![k] = "no"]
    /\ sync_routes(k, issued[k], retired[k])
    /\ issued' = [issued EXCEPT ![k] = {}]
    /\ retired' = [retired EXCEPT ![k] = {}]
    /\ astray' = Nothing
    /\ UNCHANGED <<owner, status, count, active, server, at, queued, known>>

\* send_datagram writes and sends packets of its own and does not call sync_routes;
\* so does the timer, which sends nothing; close enters the closing period.
HandleDatagram(k) ==
    /\ Idle(k) /\ status[k] # "closed"
    /\ HandleProgress(k)
    /\ Sent(k)
    /\ astray' = Nothing
    /\ UNCHANGED <<server, at, shared, flushing>>

HandleTimer(k) ==
    /\ Idle(k) /\ status[k] # "closed"
    /\ HandleProgress(k)
    /\ astray' = Nothing
    /\ UNCHANGED <<server, at, shared, flushing, known>>

HandleClose(k) ==
    /\ Idle(k)
    /\ status' = [status EXCEPT ![k] = "closed"]
    /\ astray' = Nothing
    /\ UNCHANGED <<owner, count, active, issued, retired, server, at, shared, flushing, known>>

\* Drop for AcceptedConnection, at any await or between calls.
HandleDrop(k) ==
    /\ owner[k] = "handle" /\ flushing[k] # "sent"
    /\ owner' = [owner EXCEPT ![k] = "gone"]
    /\ flushing' = [flushing EXCEPT ![k] = "no"]
    /\ shared_cid_map' = Without(shared_cid_map, k)
    /\ shared_addr_map' = Without(shared_addr_map, k)
    /\ senders' = senders \ {k}
    /\ queued' = [queued EXCEPT ![k] = 0]
    /\ astray' = Nothing
    /\ UNCHANGED <<status, count, active, issued, retired, server, at, shared_taken_cids, known>>

-----------------------------------------------------------------------------

HandleStep(k) ==
    \/ HandleReadsQueue(k)
    \/ \E d \in Datagrams : HandleReadsSocket(k, d)
    \/ \E fails \in BOOLEAN : HandleFlush(k, fails)
    \/ HandleSends(k)
    \/ HandleCancelled(k)
    \/ HandleSyncs(k)
    \/ HandleDatagram(k)
    \/ HandleTimer(k)
    \/ HandleClose(k)
    \/ HandleDrop(k)

Next ==
    \/ AcceptTop
    \/ \E d \in Datagrams : ServerReads(d)
    \/ \E k \in Keys : ServerTimer(k)
    \/ ServerTimersDone
    \/ \E k \in Keys : HandleStep(k)

Spec == Init /\ [][Next]_vars

-----------------------------------------------------------------------------
(* Properties                                                              *)

\* Types of the connections, of both routing tables and of the queues.  The
\* taken_cids sets stay within MAX_TAKEN_CIDS, the queues within
\* MAX_QUEUED_DATAGRAMS, the server's connections within MAX_CONNECTIONS.
TypeOK ==
    /\ owner \in [Keys -> {"none", "server", "handle", "gone"}]
    /\ status \in [Keys -> Statuses]
    /\ count \in [Keys -> 0..MaxIssued]
    /\ active \in [Keys -> SUBSET (0..MaxIssued)]
    /\ issued \in [Keys -> SUBSET (0..MaxIssued)]
    /\ retired \in [Keys -> SUBSET (0..MaxIssued)]
    /\ cid_map \in [AllCids -> Keys \cup {NoKey}]
    /\ addr_map \in [Addrs -> Keys \cup {NoKey}]
    /\ shared_cid_map \in [AllCids -> Keys \cup {NoKey}]
    /\ shared_addr_map \in [Addrs -> Keys \cup {NoKey}]
    /\ \A t \in {taken_cids, shared_taken_cids} :
        t \subseteq AllCids /\ Cardinality(t) <= MaxTaken
    /\ at \in {"top", "select", "timers"}
    /\ senders \subseteq Keys
    /\ queued \in [Keys -> 0..MaxQueued]
    /\ flushing \in [Keys -> {"no", "sending", "sent"}]
    /\ known \subseteq AllCids
    /\ Cardinality({k \in Keys : owner[k] = "server"}) <= MaxConnections

\* A route never outlives its connection: the server's tables lead to connections
\* the server owns, the shared ones to handles that are alive and have a queue, so
\* deliver never fails and no datagram is passed to nobody.
NoDanglingRoutes ==
    /\ \A d \in AllCids :
        /\ cid_map[d] # NoKey => owner[cid_map[d]] = "server"
        /\ shared_cid_map[d] # NoKey => shared_cid_map[d] \in senders
    /\ \A a \in Addrs :
        /\ addr_map[a] # NoKey => owner[addr_map[a]] = "server"
        /\ shared_addr_map[a] # NoKey => shared_addr_map[a] \in senders
    /\ \A k \in Keys : owner[k] = "handle" <=> k \in senders

\* The tables follow ngtcp2: apart from what sync_routes has still to poll, exactly
\* the active CIDs of a connection are routed to it, through the hand-over by
\* accept and any order of issuing and retiring.
RoutesFollowActiveCids ==
    \A k \in Keys : \A i \in 0..MaxIssued :
        /\ owner[k] = "server" => (cid_map[Cid(k, i)] = k <=> i \in active[k])
        /\ owner[k] = "handle" =>
            (i \in active[k] <=> (shared_cid_map[Cid(k, i)] = k \/ i \in issued[k]) /\ i \notin retired[k])

\* The datagram that went astray was sent to connection k, which is alive, and to a
\* CID of it that is active (or empty).
ForLive(k) ==
    /\ astray # Nothing
    /\ Live(k) /\ SentTo(astray, k)
    /\ astray.dcid = NoCid \/ (astray.dcid[2] # "o" /\ astray.dcid[3] \in active[k])

\* What Server::accept reads gets to the connection it is for, wherever that is;
\* only a CID that the handle has issued and not yet synced is not found, and a
\* connection with an empty CID that is still shaking hands gets the short header
\* packets of the handles with the same peer address.  In particular no other live
\* CID is answered with a Stateless Reset.
ServerReadsReachOwner ==
    \A k \in Keys :
        ForLive(k) /\ astray.by = ServerTask =>
            /\ owner[k] = "handle"
            /\ \/ astray.dcid[3] \in issued[k]
               \/ ZeroLength(astray.to) /\ owner[astray.to] # "handle"

\* What a handle reads gets to any other accepted connection it is for, unless its
\* CID has not been synced.
HandleReadsReachHandle ==
    \A k \in Keys :
        ForLive(k) /\ astray.by \in Keys /\ owner[k] = "handle" =>
            astray.dcid[3] \in issued[k]

\* A late packet to a CID that the peer has retired is not answered with a Stateless
\* Reset either, whether Server or the handle saw it retired, before or after the
\* hand-over; unless it was never synced, or MAX_TAKEN_CIDS were taken and it may
\* have been forgotten.
RetiredCidNotReset ==
    \A k \in Keys :
        astray # Nothing /\ Live(k) /\ SentTo(astray, k) /\ astray.to = Reset
        /\ astray.dcid[3] \notin active[k] \cup issued[k] =>
            MaxTaken \in {Cardinality(taken_cids), Cardinality(shared_taken_cids)}

\* server.rs, doc of register_issued_cids: CIDs must be registered with every read
\* and write, or a live connection is stopped by a Stateless Reset; so none is ever
\* sent for a CID of a live connection.
NoResetForLiveConnection == \A k \in Keys : ForLive(k) => astray.to # Reset

\* server.rs, doc of SharedRoutes: whichever of Server and the handles reads a
\* datagram, it gets to its owner.
EveryReaderReachesOwner ==
    \A k \in Keys :
        ForLive(k) => astray.dcid[3] \in issued[k]
=============================================================================
