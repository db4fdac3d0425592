-------------------------- MODULE ConnectionPaths ---------------------------
(***************************************************************************)
(* The paths of a connection: which addresses ngtcp2 uses, which sockets   *)
(* and addresses ClientConnection (client.rs) and AcceptedConnection       *)
(* (server.rs) keep for it, and where the CONNECTION_CLOSE goes.  Extends  *)
(* ConnectionEvents: a path changes inside the calls modelled there, and   *)
(* the tokio layer hears of it from the PathValidated events it drains.    *)
(*                                                                         *)
(* A path is this side's address (me) and the peer's.  The server has the  *)
(* addresses "primary" and, if it is configured, "preferred".              *)
(***************************************************************************)
EXTENDS ConnectionEvents

CONSTANTS Versions,     \* QUIC versions of the connection
          ClientAddrs,  \* addresses of the client's sockets, of FirstAddr at first
          FirstAddr,
          MaxMoves      \* bound: changes of the client's address

ASSUME ConnectionPathsAssumption ==
    /\ Versions \subseteq {"v1", "v2"} /\ MaxMoves \in Nat
    /\ FirstAddr \in ClientAddrs

VARIABLES
    version,
    path,       \* external: ngtcp2's current path
    pv,         \* external: the path it validates, if any
    back,       \* external: where it returns to when that fails (server)
    offer,      \* external: the server's preferred_address is not used yet
    labels,     \* what each event says of a path
    moves,      \* how often the client changed its address
    socket,     \* the address of self.socket (client)
    local_addr, remote_addr,    \* self.local_addr, self.remote_addr
    out         \* the CONNECTION_CLOSE that is being sent, if any

net == <<path, pv, back, offer, moves>>
addrs == <<socket, local_addr, remote_addr>>
pvars == <<vars, net, addrs, version, labels, out>>

None == [me |-> "none", peer |-> "none"]
Other == [ok |-> FALSE, peer |-> "none"]
NoClose == [buffer |-> <<>>, datagrams |-> <<>>]
ServerAddrs == {"primary", "preferred"}

PathsInit ==
    /\ Init
    /\ version \in Versions
    /\ path = IF role = "client" THEN [me |-> FirstAddr, peer |-> "primary"]
                                  ELSE [me |-> "primary", peer |-> FirstAddr]
    /\ pv = None /\ back = None
    /\ offer \in (IF role = "client" THEN BOOLEAN ELSE {FALSE})
    /\ labels = <<>> /\ moves = 0
    /\ socket = path.me /\ local_addr = path.me /\ remote_addr = path.peer
    /\ out = NoClose
-----------------------------------------------------------------------------
(* What a call of ngtcp2 may do to the paths, and the labels of the events  *)
(* it raised.                                                               *)

News == produced' - produced

\* The last of the new events is labelled l.
Labelled(l) == labels' = labels \o [i \in 1..News |-> IF i = News THEN l ELSE Other]

PathsQuiet == Labelled(Other) /\ UNCHANGED net

\* A PATH_RESPONSE arrives; path_validation_callback raises PathValidated.  The
\* client moves to the preferred address now; the other paths are in use already.
Validated ==
    /\ Running /\ News > 0 /\ pv # None
    /\ path' = pv /\ pv' = None
    /\ Labelled([ok |-> TRUE, peer |-> pv.peer])
    /\ UNCHANGED <<back, offer, moves>>

\* select_preferred_addr_callback: the preferred address is chosen if it is of the
\* family of the local one.
select_preferred_addr(same_family) == same_family

\* The handshake is confirmed on a client: the preferred address is validated.
PreferredOffered ==
    /\ Running /\ News > 0 /\ offer /\ pv = None
    /\ offer' = FALSE
    /\ \E same_family \in BOOLEAN :
         pv' = IF select_preferred_addr(same_family) THEN [path EXCEPT !.peer = "preferred"] ELSE None
    /\ Labelled(Other)
    /\ UNCHANGED <<path, back, moves>>

\* The server reads a packet from a new path (the client migrated, was rebound, or
\* goes to the preferred address): ngtcp2 uses the path and validates it.
PeerMoves ==
    /\ Running /\ role = "handle" /\ moves < MaxMoves
    /\ \E p \in [me : ServerAddrs, peer : ClientAddrs] :
         /\ p # path
         /\ path' = p /\ pv' = p
         /\ back' = IF pv = None THEN path ELSE back
    /\ moves' = moves + 1
    /\ Labelled(Other)
    /\ UNCHANGED offer

\* The validation times out in a write.  A server returns to the path it had; a
\* client that migrated at once has none to return to.
ValidationFails ==
    /\ Running /\ News > 0 /\ pv # None
    /\ path' = IF role = "handle" THEN back ELSE path
    /\ pv' = None
    /\ Labelled([ok |-> FALSE, peer |-> pv.peer])
    /\ UNCHANGED <<back, offer, moves>>

PathsRead == PathsQuiet \/ Validated \/ PreferredOffered \/ PeerMoves
PathsWrite == PathsQuiet \/ ValidationFails
-----------------------------------------------------------------------------
(* What the tokio layer keeps.                                             *)

\* The last of some places in a queue.
LastOf(places) == CHOOSE i \in places : \A j \in places : j <= i

\* Fault: the events of paths that failed count too.
drained_addr_any(addr, cbs) ==
    LET moved == {i \in DOMAIN cbs : labels'[cbs[i]] # Other}
    IN  IF moved = {} THEN addr ELSE labels'[cbs[LastOf(moved)]].peer

\* remote_addr after drain_events: the peer of the last path that was validated.
drained_addr(addr, cbs) ==
    LET moved == {i \in DOMAIN cbs : labels'[cbs[i]].ok}
    IN  IF moved = {} THEN addr ELSE labels'[cbs[LastOf(moved)]].peer

\* The events a call leaves for drain_events.
Pending == callbacks \o [i \in 1..News |-> produced + i]

Drains ==
    /\ remote_addr' = drained_addr(remote_addr, Pending)
    /\ UNCHANGED <<socket, local_addr>>

\* flush: the client takes over the current path once packets were written; the
\* handle's flush_to_packets drains the events.
FlushedAddr(ok) ==
    /\ remote_addr' = IF role = "handle" THEN drained_addr(remote_addr, Pending)
                      ELSE IF ok THEN path'.peer ELSE remote_addr
    /\ UNCHANGED <<socket, local_addr>>

\* Fault: the socket is replaced although ngtcp2 refuses to migrate.
bound_socket_always(ok, new) == new

\* migrate: the new socket is dropped if ngtcp2 refuses.
bound_socket(ok, new) == IF ok THEN new ELSE socket

MigrationRefused == UNCHANGED <<conn, tokio, labels, path, pv, remote_addr>>

\* The new path is used at once, and validated; the flush up to its await.
MigrationStarts(new) ==
    /\ quic = "open" /\ pv.peer # "preferred"
    /\ path' = [me |-> new, peer |-> remote_addr]
    /\ pv' = path'
    /\ \E w \in Writes :
         /\ Flushed(w)
         /\ remote_addr' = IF w.ok THEN path'.peer ELSE remote_addr
    /\ Labelled(Other)
    /\ UNCHANGED <<closed, pc, ret>>

\* migrate: bind, initiate_immediate_migration (which ngtcp2 refuses before the
\* handshake is confirmed, without an unused connection id, or while it validates
\* the preferred address), the new socket, the flush.
Migrate ==
    /\ pc = "app" /\ role = "client" /\ moves < MaxMoves
    /\ moves' = moves + 1
    /\ \E new \in ClientAddrs \ {socket}, ok \in BOOLEAN :
         /\ socket' = bound_socket(ok, new) /\ local_addr' = socket'
         /\ \/ MigrationRefused /\ ~ok
            \/ MigrationStarts(new) /\ ok
    /\ UNCHANGED <<back, offer, delivered, local, role, version, out>>
-----------------------------------------------------------------------------
(* CONNECTION_CLOSE                                                        *)

\* ngtcp2: before the handshake is confirmed the close goes into packets of every
\* key it has, one after the other.
CloseBuffers == {<<"short">>, <<"handshake", "short">>, <<"initial", "handshake">>}

\* The two type bits of a long header.
type_bits(type) ==
    IF version = "v1" THEN (CASE type = "initial" -> 0 [] type = "handshake" -> 2)
                      ELSE (CASE type = "initial" -> 1 [] type = "handshake" -> 3)

\* split_packets: a short header, or the type that Retry has in version 1, extends
\* to the end of the buffer; a token is looked for only where version 1 has
\* Initial, so that elsewhere the packet is cut at the length of its token.
split_packets(buffer) ==
    LET from[i \in 1..(Len(buffer) + 1)] ==
            IF i > Len(buffer) THEN <<>>
            ELSE IF buffer[i] = "short" THEN << SubSeq(buffer, i, Len(buffer)) >>
            ELSE IF type_bits(buffer[i]) = 3 THEN << SubSeq(buffer, i, Len(buffer)) >>
            ELSE IF buffer[i] = "initial" /\ type_bits(buffer[i]) # 0 THEN << <<"part">>, <<"part">> >>
            ELSE << <<buffer[i]>> >> \o from[i + 1]
    IN  from[1]

\* close and close_packets, to local_addr and remote_addr.
PathsClose ==
    /\ Close
    /\ \E buffer \in CloseBuffers :
         out' = [buffer |-> buffer, datagrams |-> split_packets(buffer)]
    /\ UNCHANGED <<net, addrs, version, labels>>

PathsCloseSent ==
    /\ CloseSent \/ CloseCancelled
    /\ out' = NoClose
    /\ UNCHANGED <<net, addrs, version, labels>>
-----------------------------------------------------------------------------
Silent == UNCHANGED <<net, addrs, labels>>
Kept == UNCHANGED <<version, out>>

PathsConnectFlush == ConnectFlush /\ PathsWrite /\ FlushedAddr(pc' # "dead") /\ Kept
PathsLoopFlush == LoopFlush /\ PathsWrite /\ FlushedAddr(pc' = "send") /\ Kept
PathsFlush == \E w \in Writes : FlushCall(w) /\ PathsWrite /\ FlushedAddr(w.ok) /\ Kept
PathsSendDatagram == SendDatagram /\ PathsWrite /\ UNCHANGED addrs /\ Kept
PathsSent == Sent /\ PathsQuiet /\ Drains /\ Kept
PathsReadPacket == ReadPacket /\ PathsRead /\ Drains /\ Kept
PathsTimer == Timer /\ PathsQuiet /\ Drains /\ Kept

PathsDrive ==
    \/ PathsConnectFlush \/ PathsLoopFlush \/ PathsSent
    \/ (RecvEvent \/ LoopReturn) /\ Silent /\ Kept

PathsNext ==
    \/ PathsDrive \/ PathsReadPacket \/ PathsTimer
    \/ (ConnectFails \/ SocketError \/ Cancelled) /\ Silent /\ Kept
    \/ PathsFlush \/ PathsSendDatagram \/ Migrate
    \/ PathsClose \/ PathsCloseSent

PathsSpec == PathsInit /\ [][PathsNext]_pvars

\* As FairSpec of ConnectionEvents.
PathsFairSpec ==
    /\ PathsSpec
    /\ WF_pvars(PathsDrive) /\ SF_pvars(PathsSent) /\ SF_pvars(PathsTimer)
    /\ WF_pvars(PathsCloseSent)
-----------------------------------------------------------------------------
(* Properties                                                              *)

\* ClientConnection has one socket, and sends every packet from it: the address
\* ngtcp2 writes packets for, those of a path validation included, and the local
\* address given with every packet read, are those of that socket, also after a
\* migration that failed half way or was cancelled.
ClientSendsFromPath ==
    role = "client" =>
        /\ local_addr = socket /\ path.me = socket
        /\ pv # None => pv.me = socket

\* remote_addr, to which a CONNECTION_CLOSE is sent and a client migrates, is the
\* peer's address on the current path; on a server it is the last one that was
\* validated: neither a validation that failed nor the order in which events are
\* drained makes it stale.
RemoteAddrIsCurrent ==
    remote_addr = IF role = "handle" /\ pv # None THEN back.peer ELSE path.peer

\* streams.rs, comment of close_packets: the packets of a CONNECTION_CLOSE are sent
\* one by one, as the peer may have dropped the keys of the first and drops its
\* datagram then.  Of version 1 split_packets cuts off every packet; of version 2 it
\* does not.
CloseInOwnDatagrams ==
    pc = "close" => out.datagrams = [i \in 1..Len(out.buffer) |-> <<out.buffer[i]>>]

\* docs/quic.md: the server answers from the address, primary or preferred, at
\* which the client's packets arrive; the CONNECTION_CLOSE of close too.
CloseFromArrivalAddress ==
    pc = "close" /\ pv = None => local_addr = path.me

\* The state is well formed, that of ConnectionEvents too: a client's addresses are sockets it has bound, a
\* server's are its own two.
PathsTypeOK ==
    LET mine == IF role = "client" THEN ClientAddrs ELSE ServerAddrs
        peers == IF role = "client" THEN ServerAddrs ELSE ClientAddrs
    IN  /\ TypeOK
        /\ path \in [me : mine, peer : peers]
        /\ pv \in [me : mine, peer : peers] \cup {None}
        /\ local_addr \in mine /\ remote_addr \in peers
        /\ labels \in Seq([ok : BOOLEAN, peer : peers \cup {"none"}]) /\ Len(labels) = produced
        /\ moves \in 0..MaxMoves /\ offer \in BOOLEAN
=============================================================================
