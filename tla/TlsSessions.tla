---------------------------- MODULE TlsSessions -----------------------------
(***************************************************************************)
(* TLS contexts, TLS sessions and the construction of connections          *)
(* (src/ngtcp2/src/crypto.rs, the constructors, ticket and 0-RTT code of   *)
(* src/ngtcp2/src/conn.rs), as connect_inner of client.rs and Server of    *)
(* server.rs use them: what every constructor leaves behind when one of    *)
(* its steps fails, the identity a client session checks, and 0-RTT from   *)
(* the ticket of one connection to the data of the next.                   *)
(*                                                                         *)
(* heap holds the objects aws-lc and ngtcp2 have allocated (and the boxes  *)
(* they point into), each with the connection it belongs to.  A TlsContext *)
(* stands for the reference that the Rust value of that name has to its    *)
(* SSL_CTX; an SSL has one too.  The limit of a server connection stands   *)
(* for the transport parameters that bound what a client may send in       *)
(* 0-RTT.                                                                  *)
(***************************************************************************)
EXTENDS Naturals, Sequences

CONSTANTS Conns,    \* connection attempts that may exist at a time
          DnsNames, IpNames,  \* server names the application passes
          Limits    \* transport parameters a server connection is given

ASSUME TlsSessionsAssumption ==
    /\ DnsNames \cap IpNames = {}
    /\ {"none", "invalid"} \cap (DnsNames \cup IpNames) = {}
    /\ Limits \subseteq Nat \ {0}

VARIABLES
    heap,       \* allocated objects, pairs of a kind and their connection
    ctx,        \* the server's TlsContext: its state, accept_early_data
    client,     \* TlsSession and Connection of each client
    server,     \* TlsSession and Connection of each server connection
    jar         \* the SessionTicket the application keeps, if any

vars == <<heap, ctx, client, server, jar>>

Names == DnsNames \cup IpNames
Invalid == "invalid"    \* empty, a wildcard, too long, or with a NUL
NoTicket == [early |-> FALSE, context |-> 0]
NoSession == [session |-> NoTicket, params |-> 0]

\* What the TLS library checks: SNI, the DNS name, and the IP address (from
\* peer_ip, when the connection is made).
NoIdentity == [sni |-> "none", host |-> "none", peer_ip |-> "none", ip |-> "none"]

NoClient == [st |-> "none", id |-> NoIdentity, name |-> "none", ticket |-> NoSession,
             attempted |-> FALSE, early |-> "none", sent |-> 0, completed |-> FALSE,
             events |-> <<>>, slot |-> NoTicket]
NoServer == [st |-> "none", limit |-> 0, context |-> 0, early |-> "none",
             completed |-> FALSE, received |-> FALSE]

Init ==
    /\ heap = {}
    /\ ctx = [st |-> "none", early |-> FALSE]
    /\ client = [k \in Conns |-> NoClient]
    /\ server = [k \in Conns |-> NoServer]
    /\ jar = {}
-----------------------------------------------------------------------------
(* Constructors.  Each is the sequence of its fallible calls; a call        *)
(* allocates objects (gives) and, when it fails, the error path releases    *)
(* some by hand (undo).  What a Rust value already owns is dropped with it. *)

Step(gives, undo) == [gives |-> gives, undo |-> undo]

\* What is allocated after step f failed; f = 0: none did.
Left(steps, f) ==
    LET ran == IF f = 0 THEN Len(steps) ELSE f - 1
    IN  (UNION {steps[i].gives : i \in 1..ran}) \ (IF f = 0 THEN {} ELSE steps[f].undo)

\* TlsContext::new_client_with_options: SSL_CTX_new, configure_client_context,
\* SSL_CTX_set_alpn_protos; from then on the TlsContext owns the SSL_CTX.
new_client_with_options ==
    << Step({"SSL_CTX"}, {}), Step({}, {"SSL_CTX"}), Step({"TlsContext"}, {"SSL_CTX"}) >>

\* TlsContext::new_server: SSL_CTX_new, configure_server_context, the
\* certificate's path and file, the key's path and file, the ALPN list.  A path
\* that is no C string returns with `?`.
new_server ==
    << Step({"SSL_CTX"}, {}), Step({}, {"SSL_CTX"}),
       Step({}, {}), Step({}, {"SSL_CTX"}),
       Step({}, {}), Step({}, {"SSL_CTX"}),
       Step({"alpn_data", "TlsContext"}, {}) >>

PathSteps == {3, 5}

\* create_session: SSL_new, and for a client SSL_set_ex_data with the ticket slot.
create_session(role) ==
    IF role = "client" THEN << Step({"SSL"}, {}), Step({"slot"}, {"SSL"}) >>
                       ELSE << Step({"SSL"}, {}) >>

\* Fault: the connection is not deleted when the parameters cannot be set.
finish_new_forgets(early) ==
    << Step({"ngtcp2_conn"}, {}), Step({}, {"ngtcp2_conn"}), Step({}, {}) >>
    \o (IF early THEN << Step({}, {"ngtcp2_conn"}), Step({}, {"ngtcp2_conn"}) >> ELSE <<>>)

\* ngtcp2_conn_client_new or _server_new, then finish_new: the local transport
\* parameters are encoded and given to TLS, and, if the session accepts early
\* data, the 0-RTT parameters are encoded and given to it as its context.
finish_new(early) ==
    << Step({"ngtcp2_conn"}, {}), Step({}, {"ngtcp2_conn"}), Step({}, {"ngtcp2_conn"}) >>
    \o (IF early THEN << Step({}, {"ngtcp2_conn"}), Step({}, {"ngtcp2_conn"}) >> ELSE <<>>)

\* The boxes a Connection owns besides, in the heap once it is built.
Boxes == {"user_data", "conn_ref"}

Of(kinds, side, k) == {<<kind, side, k>> : kind \in kinds}

\* The objects of client k, of server connection k.
Objects(side, k) == {o \in heap : o[2] = side /\ o[3] = k}

Lost == "lost"      \* the owner of objects nothing refers to

\* What has a reference to the SSL_CTX of client k, or to the server's: the
\* TlsContext, and every SSL that SSL_new made from it.
Users(side, k) ==
    IF side = "ctx" THEN {<<"TlsContext", "ctx", 0>>} \cup {<<"SSL", "server", j>> : j \in Conns}
                    ELSE Of({"TlsContext", "SSL"}, side, k)

\* aws-lc frees an SSL_CTX with the last reference to it.
Released(h) ==
    {o \in h : o[1] = "SSL_CTX" /\ o[2] # Lost => Users(o[2], o[3]) \cap h # {}}
-----------------------------------------------------------------------------
(* The client's session.                                                   *)

\* connect_inner: the context and the session.  A context that was built is
\* dropped when the session cannot be.
CreateClient(k) ==
    /\ client[k].st = "none" /\ server[k].st = "none"
    /\ \/ \E f \in 1..Len(new_client_with_options) :
            /\ heap' = heap \cup Of(Left(new_client_with_options, f), Lost, k)
            /\ UNCHANGED client
       \/ \E f \in 1..Len(create_session("client")) :
            /\ heap' = heap \cup Of(Left(create_session("client"), f), Lost, k)
            /\ UNCHANGED client
       \/ /\ heap' = heap \cup Of(Left(new_client_with_options, 0)
                                   \cup Left(create_session("client"), 0), "client", k)
          /\ client' = [client EXCEPT ![k].st = "session"]
    /\ UNCHANGED <<ctx, server, jar>>

\* Fault: the DNS name of an earlier call stays when the name is an address.
set_server_name_keeps_host(id, name, f) ==
    LET ip  == name \in IpNames
        sni == [id EXCEPT !.sni = IF ip THEN "none" ELSE name]
    IN  IF name = Invalid \/ f = 1 THEN id
        ELSE IF f = 2 THEN sni
        ELSE [sni EXCEPT !.host = IF ip THEN @ ELSE name,
                         !.peer_ip = IF ip THEN name ELSE "none"]

\* TlsSession::set_server_name, with SSL_set_tlsext_host_name (f = 1) or
\* SSL_set1_host (f = 2) failing: invalid names are refused before anything
\* changes, SNI is set first and peer_ip last.
set_server_name(id, name, f) ==
    LET ip  == name \in IpNames
        sni == [id EXCEPT !.sni = IF ip THEN "none" ELSE name]
    IN  IF name = Invalid \/ f = 1 THEN id
        ELSE IF f = 2 THEN sni
        ELSE [sni EXCEPT !.host = IF ip THEN "none" ELSE name,
                         !.peer_ip = IF ip THEN name ELSE "none"]

SetServerName(k) ==
    /\ client[k].st = "session"
    /\ \E name \in Names \cup {Invalid}, f \in 0..2 :
         client' = [client EXCEPT ![k].id = set_server_name(@, name, f)]
    /\ UNCHANGED <<heap, ctx, server, jar>>

configure_peer_ip_verification(id) ==
    [id EXCEPT !.ip = IF id.peer_ip = "none" THEN @ ELSE id.peer_ip]

\* The session, the context and all they own are dropped.
Dropped(k) == heap \ Objects("client", k)

\* client_new and client_new_with_0rtt fail: parameters with original_dcid, the
\* session of a ticket that TLS does not take, the name, the address, a step of
\* finish_new, or (with a ticket) the 0-RTT parameters, when the connection
\* exists already and is dropped as a whole.
ClientNewFails(k) ==
    /\ client[k].st = "session"
    /\ \/ heap' = Dropped(k)
       \/ \E f \in 1..Len(finish_new(FALSE)) :
            heap' = Dropped(k) \cup Of(Left(finish_new(FALSE), f), Lost, k)
    /\ client' = [client EXCEPT ![k] = NoClient]
    /\ UNCHANGED <<ctx, server, jar>>

\* TlsSession::set_session: 0-RTT is enabled if the ticket allows it.
set_session(t) == t.session.early

\* They succeed: with a ticket, early_data_attempted is what set_session said.
ClientNew(k) ==
    /\ client[k].st = "session"
    /\ \E name \in Names, t \in jar \cup {NoSession} :
         client' = [client EXCEPT
             ![k].st = "built", ![k].name = name, ![k].ticket = t,
             ![k].id = configure_peer_ip_verification(set_server_name(@, name, 0)),
             ![k].attempted = set_session(t)]
    /\ heap' = heap \cup Of(Left(finish_new(FALSE), 0) \cup Boxes, "client", k)
    /\ UNCHANGED <<ctx, server, jar>>
-----------------------------------------------------------------------------
(* The server.                                                             *)

\* Server::bind: new_server and set_accept_early_data.
NewServerContext ==
    /\ ctx.st = "none"
    /\ \/ \E f \in 1..(Len(new_server) - 1) :
            /\ heap' = heap \cup Of(Left(new_server, f), Lost, IF f \in PathSteps THEN "path" ELSE "other")
            /\ UNCHANGED ctx
       \/ \E early \in BOOLEAN :
            /\ ctx' = [st |-> "live", early |-> early]
            /\ heap' = heap \cup Of(Left(new_server, 0), "ctx", 0)
    /\ UNCHANGED <<client, server, jar>>

\* The TlsContext is in an Arc that the Server and its connections share.
Holders == {k \in Conns : server[k].st # "none"}

\* Fault: TlsContext::drop runs with the Server.
ContextReleasedEarly(holders) == ctx.st # "live"

ContextReleased(holders) == ctx.st # "live" /\ holders = {}

\* The application drops the Server.
DropServer ==
    /\ ctx.st = "live"
    /\ ctx' = [ctx EXCEPT !.st = "dropped"]
    /\ UNCHANGED <<heap, client, server, jar>>

\* TlsContext::drop frees the list the ALPN callback reads, which has no other
\* owner, and its reference to the SSL_CTX.  The application may bind again.
DropContext ==
    /\ ctx.st = "dropped"
    /\ ContextReleased(Holders)
    /\ heap' = Released(heap \ Of({"alpn_data", "TlsContext"}, "ctx", 0))
    /\ ctx' = [st |-> "none", early |-> FALSE]
    /\ UNCHANGED <<client, server, jar>>

\* Fault: the context of 0-RTT is not set.
early_data_context_unset(limit) == 0

\* What finish_new gives to set_quic_early_data_context.
early_data_context(limit) == IF ctx.early THEN limit ELSE 0

\* aws-lc: 0-RTT is accepted only if the ticket's context is the connection's
\* (and may be refused for reasons of its own).
EarlyAnswers(k, context) ==
    IF ~client[k].attempted THEN {"none"}
    ELSE IF ctx.early /\ client[k].ticket.session.context = context
         THEN {"accepted", "rejected"} ELSE {"rejected"}

\* handle_new_connection for the ClientHello of k: create_session, server_new
\* and the read that follows.  On failure nothing is kept.
ServerNew(k) ==
    /\ ctx.st = "live" /\ client[k].st = "conn" /\ server[k].st = "none"
    /\ ~client[k].completed /\ client[k].early # "rejected"
    /\ \/ \E f \in 1..Len(create_session("server")) :
            /\ heap' = heap \cup Of(Left(create_session("server"), f), Lost, k)
            /\ UNCHANGED server
       \/ \E f \in 1..Len(finish_new(ctx.early)) :
            /\ heap' = heap \cup Of(Left(finish_new(ctx.early), f), Lost, k)
            /\ UNCHANGED server
       \/ \E limit \in Limits : \E answer \in EarlyAnswers(k, early_data_context(limit)) :
            /\ server' = [server EXCEPT ![k] =
                 [NoServer EXCEPT !.st = "conn", !.limit = limit, !.early = answer,
                                  !.context = early_data_context(limit)]]
            /\ heap' = heap \cup Of(Left(create_session("server"), 0)
                                     \cup Left(finish_new(ctx.early), 0) \cup Boxes, "server", k)
    /\ UNCHANGED <<ctx, client, jar>>

\* drain_events: 0-RTT data that arrives while the session is in early data.
EarlyDataArrives(k) ==
    /\ server[k].st = "conn" /\ server[k].early = "accepted"
    /\ client[k].sent > 0
    /\ ~server[k].completed
    /\ server' = [server EXCEPT ![k].received = TRUE]
    /\ UNCHANGED <<heap, ctx, client, jar>>

ServerCompletes(k) ==
    /\ server[k].st = "conn" /\ ~server[k].completed
    /\ client[k].completed
    /\ server' = [server EXCEPT ![k].completed = TRUE]
    /\ UNCHANGED <<heap, ctx, client, jar>>
-----------------------------------------------------------------------------
(* The client's connection.                                                *)

\* The first flush writes the ClientHello; the identity is checked later, and
\* nothing sets it any more.
SendHello(k) ==
    /\ client[k].st = "built"
    /\ client' = [client EXCEPT ![k].st = "conn", ![k].id = NoIdentity, ![k].name = "none",
                                ![k].early = IF client[k].attempted THEN "offered" ELSE "none"]
    /\ UNCHANGED <<heap, ctx, server, jar>>

\* 0-RTT data, up to the parameters of the ticket.
EarlyWrite(k) ==
    /\ client[k].st = "conn" /\ client[k].early = "offered"
    /\ client[k].sent < client[k].ticket.params
    /\ client' = [client EXCEPT ![k].sent = @ + 1]
    /\ UNCHANGED <<heap, ctx, server, jar>>

\* ngtcp2_conn_tls_early_data_rejected does nothing the second time; the first
\* time its callback raises the event.
tls_early_data_rejected(events) ==
    IF \E i \in DOMAIN events : events[i] = "EarlyDataRejected" THEN events
    ELSE Append(events, "EarlyDataRejected")

\* aws-lc reports the rejection in the middle of the handshake (it need not).
EarlyDataRejected(k) ==
    /\ client[k].st = "conn" /\ client[k].early = "offered"
    /\ server[k].early = "rejected" /\ server[k].st = "conn"
    /\ client' = [client EXCEPT ![k].early = "rejected", ![k].events = tls_early_data_rejected(@)]
    /\ UNCHANGED <<heap, ctx, server, jar>>

\* Fault: completion is announced before the rejection.
handshake_completed_first(c, answer) ==
    LET done == Append(c.events, "HandshakeCompleted")
    IN  IF c.attempted /\ answer # "accepted" THEN tls_early_data_rejected(done) ELSE done

\* The events after handshake_completed_callback, when the server's answer to
\* 0-RTT was answer.
handshake_completed(c, answer) ==
    LET known == IF c.attempted /\ answer # "accepted"
                 THEN tls_early_data_rejected(c.events) ELSE c.events
    IN  Append(known, "HandshakeCompleted")

ClientCompletes(k) ==
    /\ client[k].st = "conn" /\ ~client[k].completed
    /\ server[k].st = "conn"
    /\ client' = [client EXCEPT ![k].completed = TRUE,
                                ![k].early = server[k].early,
                                ![k].events = handshake_completed(client[k], server[k].early)]
    /\ UNCHANGED <<heap, ctx, server, jar>>

\* A NewSessionTicket arrives: new_session_callback stores it, over an earlier
\* one.
NewSessionTicket(k) ==
    /\ client[k].st = "conn" /\ client[k].completed
    /\ server[k].st = "conn" /\ server[k].completed
    /\ client' = [client EXCEPT ![k].slot = [early |-> ctx.early, context |-> server[k].context]]
    /\ UNCHANGED <<heap, ctx, server, jar>>

\* encode_0rtt_transport_params: those the server sent.
ticket_params(k) == server[k].limit

\* take_session_ticket: the slot is emptied before the encoding may fail.
TakeSessionTicket(k) ==
    /\ client[k].st = "conn" /\ client[k].completed
    /\ client[k].slot # NoTicket
    /\ server[k].limit # 0
    /\ client' = [client EXCEPT ![k].slot = NoTicket]
    /\ \/ UNCHANGED jar
       \/ jar' = {[session |-> client[k].slot, params |-> ticket_params(k)]}
    /\ UNCHANGED <<heap, ctx, server>>
-----------------------------------------------------------------------------
(* Drop.  Connection::drop deletes the ngtcp2_conn, then the fields go in   *)
(* the order of their declaration; TlsSession::drop frees the SSL before    *)
(* the slot.                                                                *)

\* ClientConnection declares _tls_ctx before conn, so a client's TlsContext goes
\* first.  Before there is a connection, the locals of connect_inner go in the
\* reverse order, the session and then the context.  ServerConnection declares conn
\* before its Arc of the TlsContext (Holders).
DropOrder(side, k) ==
    IF side = "client" /\ <<"conn_ref", side, k>> \in heap
    THEN <<"TlsContext", "ngtcp2_conn", "user_data", "SSL", "slot", "conn_ref">>
    ELSE <<"ngtcp2_conn", "user_data", "SSL", "slot", "conn_ref", "TlsContext">>

\* One object of a connection that is being dropped is freed, and the SSL_CTX with
\* it if nothing else refers to it.
Free(side, k) ==
    LET order == DropOrder(side, k)
        left  == {i \in DOMAIN order : <<order[i], side, k>> \in heap}
    IN  Released(heap \ {<<order[i], side, k>> : i \in {j \in left : \A m \in left : j <= m}})

DropClient(k) ==
    /\ client[k].st \in {"session", "built", "conn", "dropping"}
    /\ heap' = Free("client", k)
    /\ client' = [client EXCEPT ![k] =
         IF Objects("client", k) = {} THEN NoClient ELSE [NoClient EXCEPT !.st = "dropping"]]
    /\ UNCHANGED <<ctx, server, jar>>

DropServerConnection(k) ==
    /\ server[k].st \in {"conn", "dropping"}
    /\ heap' = Free("server", k)
    /\ server' = [server EXCEPT ![k] =
         IF Objects("server", k) = {} THEN NoServer ELSE [NoServer EXCEPT !.st = "dropping"]]
    /\ UNCHANGED <<ctx, client, jar>>
-----------------------------------------------------------------------------
Next ==
    \/ NewServerContext \/ DropServer \/ DropContext
    \/ \E k \in Conns :
         \/ CreateClient(k) \/ SetServerName(k) \/ ClientNew(k) \/ ClientNewFails(k)
         \/ ServerNew(k) \/ EarlyDataArrives(k) \/ ServerCompletes(k)
         \/ SendHello(k) \/ EarlyWrite(k) \/ EarlyDataRejected(k) \/ ClientCompletes(k)
         \/ NewSessionTicket(k) \/ TakeSessionTicket(k)
         \/ DropClient(k) \/ DropServerConnection(k)

Spec == Init /\ [][Next]_vars
-----------------------------------------------------------------------------
(* Properties                                                              *)

Identities == [sni : Names \cup {"none"}, host : Names \cup {"none"},
               peer_ip : IpNames \cup {"none"}, ip : IpNames \cup {"none"}]
Sessions == [early : BOOLEAN, context : Limits \cup {0}]
Tickets == [session : Sessions, params : Limits \cup {0}]

\* The state is well formed; a session never holds a name that is not one.
TypeOK ==
    /\ ctx \in [st : {"none", "live", "dropped"}, early : BOOLEAN]
    /\ client \in [Conns ->
         [st : {"none", "session", "built", "conn", "dropping"}, id : Identities,
          name : Names \cup {"none"}, ticket : Tickets, attempted : BOOLEAN,
          early : {"none", "offered", "accepted", "rejected"}, sent : Nat,
          completed : BOOLEAN, events : Seq({"EarlyDataRejected", "HandshakeCompleted"}),
          slot : Sessions]]
    /\ server \in [Conns ->
         [st : {"none", "conn", "dropping"}, limit : Limits \cup {0}, context : Limits \cup {0},
          early : {"none", "accepted", "rejected"}, completed : BOOLEAN, received : BOOLEAN]]
    /\ jar \subseteq Tickets

\* Whichever step of a constructor fails, nothing it allocated is left without an
\* owner, except the SSL_CTX of a server whose certificate or key path is not a C
\* string; and what an owner held is freed when it is gone.
NothingLeaked ==
    \A o \in heap :
        /\ o[2] = Lost => o[1] = "SSL_CTX" /\ o[3] = "path"
        /\ o[2] = "client" => client[o[3]].st # "none"
        /\ o[2] = "server" => server[o[3]].st # "none"
        /\ o[2] = "ctx" => ctx.st # "none"

\* Nothing is freed while something that may call into it lives: the ngtcp2_conn
\* calls back with user_data and drives the SSL, which finds the connection
\* through conn_ref and stores tickets in slot.  An SSL uses its SSL_CTX, although a
\* client drops its TlsContext before the connection, and the SSL of a server the
\* ALPN list too, although the application may have dropped the Server.
NothingFreedInUse ==
    \A k \in Conns :
        /\ \A side \in {"client", "server"} :
             <<"ngtcp2_conn", side, k>> \in heap
                 => Of({"user_data", "SSL", "conn_ref"}, side, k) \subseteq heap
        /\ <<"SSL", "client", k>> \in heap
             => Of({"slot", "SSL_CTX"}, "client", k) \subseteq heap
        /\ <<"SSL", "server", k>> \in heap
             => Of({"alpn_data", "SSL_CTX"}, "ctx", 0) \subseteq heap

\* A connection checks the server's certificate against the name it was made for
\* and nothing else, whatever names the session was given before, also by calls
\* that failed half way: a DNS name is sent as SNI and compared, an address is
\* compared and not sent.
IdentityIsLastName ==
    \A k \in Conns : client[k].st = "built" =>
        LET id == client[k].id
        IN  IF client[k].name \in IpNames
            THEN id.sni = "none" /\ id.host = "none" /\ id.ip = client[k].name
            ELSE id.sni = client[k].name /\ id.host = client[k].name /\ id.ip = "none"

\* 0-RTT data that a server accepts is within the limits of that connection,
\* although the client went by those of an earlier one: with other limits the
\* early data context differs and TLS refuses.
EarlyDataWithinLimits ==
    \A k \in Conns :
        server[k].early = "accepted" => client[k].sent <= server[k].limit

\* The application learns that its 0-RTT data was thrown away exactly when it was,
\* once, and before it learns that the handshake is complete, whether or not TLS
\* reported the rejection on its own.
RejectionReported ==
    \A k \in Conns : client[k].st = "conn" =>
        client[k].events =
            (IF client[k].early = "rejected" THEN <<"EarlyDataRejected">> ELSE <<>>)
            \o (IF client[k].completed THEN <<"HandshakeCompleted">> ELSE <<>>)
=============================================================================
