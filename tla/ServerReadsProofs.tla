-------------------------- MODULE ServerReadsProofs --------------------------
(***************************************************************************)
(* Whom the server's reads reach, for any number of clients, addresses,    *)
(* CIDs and connections: what a datagram is read as follows from the       *)
(* invariant of the routing tables in the state before the read.           *)
(***************************************************************************)
EXTENDS ServerRoutesProofs

-----------------------------------------------------------------------------
(* Connections with an empty CID, which only their address tells apart.    *)

\* ServerConfig::with_scid_len: connections with an empty CID do not share an address.
AddressesDiffer == ScidLen = 0 => \A c, e \in Clients : AddrOf[c] = AddrOf[e] => c = e

\* Then the address of such a connection leads to it.
AddressRouted ==
    AddressesDiffer =>
    \A k \in Keys : ZeroLength(k) =>
        /\ owner[k] = "server" => addr_map[AddrOf[k[1]]] = k
        /\ owner[k] = "handle" => shared_addr_map[AddrOf[k[1]]] = k


\* Two connections with an empty CID have the same address only if they are one.
LEMMA OneForAddress ==
    ASSUME AddressesDiffer, NEW k \in Keys, NEW l \in Keys, ZeroLength(k), ZeroLength(l),
           AddrOf[k[1]] = AddrOf[l[1]]
    PROVE  k = l
BY KeyFacts, Zenon DEF AddressesDiffer, ZeroLength

\* What a step of the server on its connection x leaves alone.
LEMMA ServerStepEffect ==
    ASSUME Types, Bookkeeping, NEW x \in Keys, NEW remove \in BOOLEAN, ServerConnectionStep(x, remove)
    PROVE  /\ \A l \in Keys \ {x} : owner'[l] = owner[l] /\ active'[l] = active[l]
           /\ owner'[x] \in {"gone", "server"}
           /\ owner'[x] = "server" => addr_map' = addr_map
           /\ \A a \in Addrs : addr_map[a] # x => addr_map'[a] = addr_map[a]
           /\ UNCHANGED <<issued, shared_addr_map>>
<1>1. PICK s \in Statuses, N \in New(x), R \in Gone(x) :
        /\ Progress(x, s, N, R)
        /\ owner' = [owner EXCEPT ![x] = IF remove THEN "gone" ELSE "server"]
        /\ addr_map' = IF remove THEN Without(addr_map, x) ELSE addr_map
        /\ UNCHANGED <<issued, retired, shared, flushing>>
  BY Zenon DEF ServerConnectionStep
<1>2. \A l \in Keys \ {x} : active'[l] = active[l]
  BY <1>1, ProgressFacts, Zenon
<1>3. owner \in [Keys -> {"none", "server", "handle", "gone"}]
  BY Zenon DEF Types
<1>4. addr_map \in [Addrs -> Keys \cup {NoKey}]
  BY Zenon DEF Types
<1>5. /\ \A l \in Keys \ {x} : owner'[l] = owner[l]
      /\ owner'[x] = IF remove THEN "gone" ELSE "server"
  BY <1>1, <1>3, Zenon
<1>6. \A a \in Addrs : addr_map[a] # x => addr_map'[a] = addr_map[a]
  BY <1>1, <1>4, WithoutFacts
<1>7. UNCHANGED <<issued, shared_addr_map>>
  BY <1>1, Zenon DEF shared
<1> QED
  BY <1>1, <1>2, <1>5, <1>6, <1>7

\* What the steps of the handle x other than its drop leave alone.
LEMMA HandleEffect ==
    ASSUME Types, NoDanglingRoutes, NEW x \in Keys, HandleStep(x), ~HandleDrop(x)
    PROVE  UNCHANGED <<owner, addr_map, shared_addr_map>>
<1>1. ASSUME NEW d \in Datagrams, HandleReadsSocket(x, d)
      PROVE  UNCHANGED <<owner, addr_map, shared_addr_map>>
  <2>1. CASE ForAnother(x, shared_resolve(d))
    <3>1. deliver(shared_resolve(d)) /\ UNCHANGED <<conn, server>>
      BY <1>1, <2>1, Zenon DEF HandleReadsSocket
    <3>2. shared_resolve(d) \in senders
      BY <2>1, DatagramFacts, ResolveFacts, Zenon DEF ForAnother
    <3> QED
      BY <3>1, <3>2, Zenon DEF deliver, conn, server
  <2>2. CASE ~ForAnother(x, shared_resolve(d))
    BY <1>1, <2>2, Zenon DEF HandleReadsSocket, HandleReads, sync_routes, server
  <2> QED
    BY <2>1, <2>2, Zenon
<1>2. CASE HandleReadsQueue(x)
  BY <1>2, Zenon DEF HandleReadsQueue, HandleReads, sync_routes, server
<1>3. CASE (\E fails \in BOOLEAN : HandleFlush(x, fails)) \/ HandleDatagram(x) \/ HandleTimer(x)
  BY <1>3, Zenon DEF HandleFlush, HandleDatagram, HandleTimer, HandleProgress, server, shared
<1>4. CASE HandleSends(x) \/ HandleCancelled(x) \/ HandleClose(x)
  BY <1>4, Zenon DEF HandleSends, HandleCancelled, HandleClose, conn, server, shared
<1>5. CASE HandleSyncs(x)
  BY <1>5, Zenon DEF HandleSyncs, sync_routes, server
<1> QED
  BY <1>1, <1>2, <1>3, <1>4, <1>5, Zenon DEF HandleStep

\* Its address leads to a connection with an empty CID as long as it lives, from
\* CreateConnection through the hand-over to its removal.
LEMMA AddressRoutedNext == ASSUME IndInv, AddressRouted, [Next]_vars PROVE AddressRouted'
<1>0. Types /\ NoDanglingRoutes /\ RoutesBelong /\ Bookkeeping
  BY Zenon DEF IndInv
<1> SUFFICES ASSUME AddressesDiffer, NEW k \in Keys, ZeroLength(k)
             PROVE  /\ owner'[k] = "server" => addr_map'[AddrOf[k[1]]] = k
                    /\ owner'[k] = "handle" => shared_addr_map'[AddrOf[k[1]]] = k
  BY Zenon DEF AddressRouted, AddressesDiffer, ZeroLength
<1> DEFINE a == AddrOf[k[1]]
<1>1. a \in Addrs
  BY KeyFacts, ServerRoutesAssumption, Zenon
<1>2. /\ owner[k] = "server" => addr_map[a] = k
      /\ owner[k] = "handle" => shared_addr_map[a] = k
  BY Zenon DEF AddressRouted
<1>3. \A l \in Keys : addr_map[a] = l \/ shared_addr_map[a] = l => l = k
  <2> SUFFICES ASSUME NEW l \in Keys, addr_map[a] = l \/ shared_addr_map[a] = l PROVE l = k
    BY Zenon
  <2>1. ZeroLength(l) /\ AddrOf[l[1]] = a
    BY <1>0, <1>1, Zenon DEF RoutesBelong
  <2> QED
    BY <2>1, OneForAddress, Zenon
<1>4. addr_map \in [Addrs -> Keys \cup {NoKey}] /\ shared_addr_map \in [Addrs -> Keys \cup {NoKey}]
      /\ k # NoKey
  BY <1>0, KeyFacts, Zenon DEF Types
<1> HIDE DEF a
<1>5. CASE AcceptTop
  <2>1. ASSUME NEW x \in Completed, take_connection(x)
        PROVE  /\ owner'[k] = "server" => addr_map'[a] = k
               /\ owner'[k] = "handle" => shared_addr_map'[a] = k
    <3>1. /\ owner'[k] = IF k = x THEN "handle" ELSE IF k \in Closed THEN "gone" ELSE owner[k]
          /\ shared_addr_map'[a] = IF addr_map[a] = x THEN x ELSE shared_addr_map[a]
          /\ addr_map' = WithoutAll(addr_map, Closed \cup {x})
      BY <1>1, <2>1, Zenon DEF take_connection
    <3>2. addr_map'[a] = IF addr_map[a] \in Closed \cup {x} THEN NoKey ELSE addr_map[a]
      BY <1>1, <1>4, <3>1, WithoutFacts
    <3>3. x \in Keys /\ owner[x] = "server"
      BY Zenon DEF Completed
    <3> QED
      BY <1>2, <1>3, <3>1, <3>2, <3>3, Zenon
  <2>2. CASE /\ owner' = [x \in Keys |-> IF x \in Closed THEN "gone" ELSE owner[x]]
             /\ addr_map' = WithoutAll(addr_map, Closed)
             /\ UNCHANGED shared
    <3>1. addr_map'[a] = IF addr_map[a] \in Closed THEN NoKey ELSE addr_map[a]
      BY <1>1, <1>4, <2>2, WithoutFacts
    <3>2. shared_addr_map' = shared_addr_map
      BY <2>2, Zenon DEF shared
    <3>3. owner'[k] = IF k \in Closed THEN "gone" ELSE owner[k]
      BY <2>2, Zenon
    <3> QED
      BY <1>2, <3>1, <3>2, <3>3, Zenon DEF a
  <2> QED
    BY <1>5, <2>1, <2>2, Zenon DEF AcceptTop, a
<1>6. ASSUME NEW x \in Keys, NEW remove \in BOOLEAN, ServerConnectionStep(x, remove), owner[x] = "server"
      PROVE  /\ owner'[k] = "server" => addr_map'[a] = k
             /\ owner'[k] = "handle" => shared_addr_map'[a] = k
  <2>1. /\ \A l \in Keys \ {x} : owner'[l] = owner[l]
        /\ owner'[x] \in {"gone", "server"}
        /\ owner'[x] = "server" => addr_map' = addr_map
        /\ addr_map[a] # x => addr_map'[a] = addr_map[a]
        /\ shared_addr_map' = shared_addr_map
    BY <1>0, <1>1, <1>6, ServerStepEffect, Zenon
  <2>2. CASE k = x
    BY <1>2, <1>6, <2>1, <2>2, Zenon
  <2>3. CASE k # x
    BY <1>2, <2>1, <2>3, Zenon
  <2> QED
    BY <2>2, <2>3, Zenon
<1>7. ASSUME NEW d \in Datagrams, ServerReads(d)
      PROVE  /\ owner'[k] = "server" => addr_map'[a] = k
             /\ owner'[k] = "handle" => shared_addr_map'[a] = k
  <2>1. CASE /\ Direct(d) \in Keys /\ owner[Direct(d)] = "server"
             /\ \E remove \in BOOLEAN : ServerConnectionStep(Direct(d), remove)
    BY <1>6, <2>1, Zenon
  <2>2. CASE /\ shared_resolve(d) \in senders /\ deliver(shared_resolve(d))
             /\ UNCHANGED <<conn, server, flushing, known>>
    <3>1. UNCHANGED <<owner, addr_map, shared_addr_map>>
      BY <2>2, Zenon DEF deliver, conn, server
    <3> QED
      BY <1>2, <3>1, Zenon
  <2>3. ASSUME NEW x \in Keys, d.from = AddrOf[x[1]], CreateConnection(x, d)
        PROVE  /\ owner'[k] = "server" => addr_map'[a] = k
               /\ owner'[k] = "handle" => shared_addr_map'[a] = k
    <3>1. /\ owner' = [owner EXCEPT ![x] = "server"] /\ owner[x] = "none"
          /\ addr_map' = IF ZeroLength(x) THEN [addr_map EXCEPT ![d.from] = x] ELSE addr_map
          /\ shared_addr_map' = shared_addr_map
      BY <2>3, Zenon DEF CreateConnection, shared
    <3>2. CASE k = x
      <4>1. d.from = a /\ addr_map' = [addr_map EXCEPT ![d.from] = x]
        BY <2>3, <3>1, <3>2, Zenon DEF a
      <4>2. owner'[k] = "server"
        BY <1>0, <3>1, <3>2, Zenon DEF Types
      <4> QED
        BY <1>1, <1>4, <3>2, <4>1, <4>2, Zenon
    <3>3. CASE k # x
      <4>1. owner'[k] = owner[k]
        BY <1>0, <3>1, <3>3, Zenon DEF Types
      <4>2. ZeroLength(x) => d.from # a
        BY <2>3, <3>3, OneForAddress, Zenon DEF a
      <4>3. addr_map'[a] = addr_map[a]
        BY <1>1, <1>4, <3>1, <4>2, Zenon
      <4> QED
        BY <1>2, <3>1, <4>1, <4>3, Zenon
    <3> QED
      BY <3>2, <3>3, Zenon
  <2>4. CASE UNCHANGED <<conn, server, shared, flushing>>
    <3>1. UNCHANGED <<owner, addr_map, shared_addr_map>>
      BY <2>4, Zenon DEF conn, server, shared
    <3> QED
      BY <1>2, <3>1, Zenon
  <2> QED
    BY <1>0, <1>7, <2>1, <2>2, <2>3, <2>4, ServerReadsCases, Zenon
<1>8. ASSUME NEW x \in Keys, HandleStep(x)
      PROVE  /\ owner'[k] = "server" => addr_map'[a] = k
             /\ owner'[k] = "handle" => shared_addr_map'[a] = k
  <2>1. CASE HandleDrop(x)
    <3>1. /\ owner[x] = "handle" /\ owner' = [owner EXCEPT ![x] = "gone"]
          /\ shared_addr_map' = Without(shared_addr_map, x)
          /\ addr_map' = addr_map
      BY <2>1, Zenon DEF HandleDrop, server
    <3>2. owner'[x] = "gone" /\ \A l \in Keys \ {x} : owner'[l] = owner[l]
      BY <1>0, <3>1, Zenon DEF Types
    <3>3. shared_addr_map'[a] = IF shared_addr_map[a] = x THEN NoKey ELSE shared_addr_map[a]
      BY <1>1, <1>4, <3>1, WithoutFacts
    <3> QED
      BY <1>2, <3>1, <3>2, <3>3, Zenon
  <2>2. CASE ~HandleDrop(x)
    <3>1. UNCHANGED <<owner, addr_map, shared_addr_map>>
      BY <1>0, <1>8, <2>2, HandleEffect, Zenon
    <3> QED
      BY <1>2, <3>1, Zenon
  <2> QED
    BY <2>1, <2>2, Zenon
<1>9. CASE ServerTimersDone \/ UNCHANGED vars
  <2>1. UNCHANGED <<owner, addr_map, shared_addr_map>>
    BY <1>9, Zenon DEF ServerTimersDone, vars, conn, server, shared
  <2> QED
    BY <1>2, <2>1, Zenon DEF a
<1>10. /\ owner'[k] = "server" => addr_map'[a] = k
       /\ owner'[k] = "handle" => shared_addr_map'[a] = k
  <2>1. CASE \E x \in Keys : ServerTimer(x)
    BY <1>6, <2>1, Zenon DEF ServerTimer
  <2> QED
    BY <1>5, <1>7, <1>8, <1>9, <2>1, Zenon DEF Next, a
<1> QED
  BY <1>10, Zenon DEF a

-----------------------------------------------------------------------------
(* What becomes of the datagrams that are read.                            *)

\* The datagram d, sent to connection k, names it in one of three ways.
LEMMA TargetFacts ==
    ASSUME Types, NEW d \in Datagrams, NEW k \in Keys, SentTo(d, k)
    PROVE  \/ d.dcid[2] = "o"
           \/ \E i \in 0..MaxIssued : d.dcid = Cid(k, i) /\ d.dcid[3] = i /\ d.dcid \in known
           \/ d.dcid = NoCid /\ ZeroLength(k) /\ d.from = AddrOf[k[1]]
<1>1. CASE d.dcid = NoCid
  <2>1. d.dcid[2] \notin {"o", k[2]}
    BY <1>1, KeyFacts DEF NoCid
  <2> QED
    BY <1>1, <2>1, Zenon DEF SentTo
<1>2. CASE d.dcid # NoCid
  <2>1. d.dcid \in known /\ d.dcid \in AllCids
    BY <1>2, DatagramFacts, Zenon
  <2>2. d.dcid[1] = k[1] /\ d.dcid[2] \in {"o", k[2]}
    BY <1>2, Zenon DEF SentTo
  <2>3. ASSUME NEW c \in Clients, d.dcid = OriginalDcid(c) PROVE d.dcid[2] = "o"
    BY <2>3 DEF OriginalDcid
  <2>4. ASSUME NEW l \in Keys, NEW i \in 0..MaxIssued, d.dcid = Cid(l, i)
        PROVE  d.dcid[2] = "o" \/ (d.dcid = Cid(k, i) /\ d.dcid[3] = i)
    <3>1. d.dcid[1] = l[1] /\ d.dcid[2] = l[2] /\ d.dcid[3] = i
      BY <2>4, CidFacts
    <3>2. CASE d.dcid[2] = k[2]
      <4>1. l = k
        BY <2>2, <3>1, <3>2, KeyFacts, Zenon
      <4> QED
        BY <2>4, <3>1, <4>1, Zenon
    <3> QED
      BY <2>2, <3>2, Zenon
  <2> QED
    BY <2>1, <2>3, <2>4, CidFacts
<1> QED
  BY <1>1, <1>2, Zenon

\* What is recorded of a datagram that is read.
LEMMA ReadFacts ==
    ASSUME NEW by, NEW d, NEW to, Read(by, d, to), astray' # Nothing, NEW k
    PROVE  /\ astray'.by = by /\ astray'.dcid = d.dcid /\ astray'.from = d.from /\ astray'.to = to
           /\ ~(to \in Keys /\ SentTo(d, to))
           /\ SentTo(astray, k)' <=> SentTo(d, k)
<1>1. /\ astray' = [by |-> by, dcid |-> d.dcid, from |-> d.from, to |-> to]
      /\ ~(to \in Keys /\ SentTo(d, to))
  BY Zenon DEF Read
<1>2. astray'.by = by /\ astray'.dcid = d.dcid /\ astray'.from = d.from /\ astray'.to = to
  BY <1>1, Zenon
<1> QED
  BY <1>1, <1>2, Zenon DEF SentTo, ZeroLength

\* A CID that the server routes is found by it, one that a handle has registered
\* is found in SharedRoutes.
LEMMA FoundByCid ==
    ASSUME IndInv, NEW d \in Datagrams, NEW k \in Keys, NEW i \in 0..MaxIssued, d.dcid = Cid(k, i)
    PROVE  /\ cid_map[Cid(k, i)] = k => Direct(d) = k
           /\ shared_cid_map[Cid(k, i)] = k => shared_resolve(d) = k
           /\ Direct(d) \in Keys /\ Direct(d) # k => ZeroLength(Direct(d))
<1>0. Types /\ RoutesBelong
  BY Zenon DEF IndInv
<1>1. Cid(k, i) \in AllCids /\ k # NoKey /\ d.from \in Addrs /\ NoKey \notin Keys
  BY <1>0, CidFacts, KeyFacts, DatagramFacts, Zenon
<1>2. Looked(cid_map, d.dcid) = cid_map[Cid(k, i)] /\ Looked(shared_cid_map, d.dcid) = shared_cid_map[Cid(k, i)]
  BY <1>0, <1>1 DEF Looked, Types
<1>3. cid_map[Cid(k, i)] \in {k, NoKey}
  BY <1>0, Zenon DEF RoutesBelong
<1>4. Direct(d) \in {k, NoKey, addr_map[d.from]}
  BY <1>2, <1>3, Zenon DEF Direct
<1>5. Direct(d) \in Keys /\ Direct(d) # k => ZeroLength(Direct(d))
  BY <1>0, <1>1, <1>4, Zenon DEF RoutesBelong
<1> QED
  BY <1>1, <1>2, <1>5 DEF Direct, shared_resolve

\* A packet without a CID is found by its address, and only so.
LEMMA FoundByAddress ==
    ASSUME IndInv, NEW d \in Datagrams, d.dcid = NoCid
    PROVE  /\ Direct(d) = addr_map[d.from] /\ shared_resolve(d) = shared_addr_map[d.from]
           /\ Direct(d) \in Keys => SentTo(d, Direct(d))
           /\ shared_resolve(d) \in Keys => SentTo(d, shared_resolve(d))
<1>0. Types /\ RoutesBelong
  BY Zenon DEF IndInv
<1>1. d.from \in Addrs /\ NoCid \notin AllCids
  BY <1>0, DatagramFacts, CidFacts, Zenon
<1>2. Looked(cid_map, d.dcid) = NoKey /\ Looked(shared_cid_map, d.dcid) = NoKey
  BY <1>0, <1>1, Zenon DEF Looked, Types
<1>3. Direct(d) = addr_map[d.from] /\ shared_resolve(d) = shared_addr_map[d.from]
  BY <1>2, Zenon DEF Direct, shared_resolve
<1> QED
  BY <1>0, <1>1, <1>3, Zenon DEF RoutesBelong, SentTo

\* Of the steps only ServerReads and HandleReadsSocket record a datagram.
LEMMA OnlyReads ==
    ASSUME [Next]_vars
    PROVE  \/ astray' = Nothing
           \/ UNCHANGED vars
           \/ \E d \in Datagrams : ServerReads(d)
           \/ \E k \in Keys : \E d \in Datagrams : HandleReadsSocket(k, d)
<1>1. AcceptTop => astray' = Nothing
  BY Zenon DEF AcceptTop
<1>2. \A k \in Keys : ServerTimer(k) => astray' = Nothing
  BY Zenon DEF ServerTimer
<1>3. ServerTimersDone => astray' = Nothing
  BY Zenon DEF ServerTimersDone
<1>4. \A k \in Keys : HandleStep(k) => astray' = Nothing \/ \E d \in Datagrams : HandleReadsSocket(k, d)
  BY Zenon DEF HandleStep, HandleReadsQueue, HandleFlush, HandleSends, HandleCancelled, HandleSyncs,
         HandleDatagram, HandleTimer, HandleClose, HandleDrop
<1> QED
  BY <1>1, <1>2, <1>3, <1>4, Zenon DEF Next

\* A datagram that Server::accept reads.
LEMMA ServerReadsRight ==
    ASSUME IndInv, AddressesDiffer, AddressRouted, NEW d \in Datagrams, ServerReads(d)
    PROVE  ServerReadsReachOwner'
<1>0. Types /\ NoDanglingRoutes /\ RoutesFollowActiveCids /\ Bookkeeping
  BY Zenon DEF IndInv
<1> SUFFICES ASSUME NEW k \in Keys, ForLive(k)', astray'.by = ServerTask
             PROVE  /\ owner'[k] = "handle"
                    /\ \/ astray'.dcid[3] \in issued'[k]
                       \/ ZeroLength(astray'.to) /\ owner'[astray'.to] # "handle"
  BY Zenon DEF ServerReadsReachOwner, ZeroLength
<1>1. /\ astray' # Nothing /\ owner'[k] \in {"server", "handle"} /\ SentTo(astray, k)'
      /\ astray'.dcid = NoCid \/ (astray'.dcid[2] # "o" /\ astray'.dcid[3] \in active'[k])
      /\ k # NoKey
  BY KeyFacts, Zenon DEF ForLive, Live
<1>2. ASSUME NEW to, Read(ServerTask, d, to)
      PROVE  /\ astray'.dcid = d.dcid /\ astray'.to = to /\ ~(to \in Keys /\ SentTo(d, to))
             /\ \/ \E i \in 0..MaxIssued : d.dcid = Cid(k, i) /\ d.dcid[3] = i /\ i \in active'[k]
                \/ d.dcid = NoCid /\ ZeroLength(k) /\ d.from = AddrOf[k[1]]
  <2>1. /\ astray'.dcid = d.dcid /\ astray'.to = to /\ ~(to \in Keys /\ SentTo(d, to))
        /\ SentTo(d, k)
    BY <1>1, <1>2, ReadFacts, Zenon
  <2>2. d.dcid[2] = "o" => d.dcid # NoCid
    BY DEF NoCid
  <2>3. \A i : d.dcid = Cid(k, i) => d.dcid # NoCid
    BY CidFacts
  <2> QED
    BY <1>0, <1>1, <2>1, <2>2, <2>3, TargetFacts, Zenon
<1>3. /\ owner[k] = "server" /\ d.dcid = NoCid /\ ZeroLength(k) /\ d.from = AddrOf[k[1]] => Direct(d) = k
      /\ owner[k] = "handle" /\ d.dcid = NoCid /\ ZeroLength(k) /\ d.from = AddrOf[k[1]] => shared_resolve(d) = k
  BY FoundByAddress, Zenon DEF AddressRouted
<1>4. ASSUME NEW i \in 0..MaxIssued, d.dcid = Cid(k, i), i \in active[k]
      PROVE  /\ owner[k] = "server" => Direct(d) = k
             /\ owner[k] = "handle" => shared_resolve(d) = k \/ i \in issued[k]
  BY <1>0, <1>4, FoundByCid DEF RoutesFollowActiveCids
<1>5. SentTo(d, k)
  BY <1>1, <1>2, ReadFacts, ServerReadsCases, <1>0, Zenon
<1>6. ASSUME Direct(d) \in Keys, owner[Direct(d)] = "server", NEW remove \in BOOLEAN,
             ServerConnectionStep(Direct(d), remove), Read(ServerTask, d, Direct(d))
      PROVE  /\ owner'[k] = "handle"
             /\ ZeroLength(astray'.to) /\ owner'[astray'.to] # "handle"
  <2>1. /\ \A l \in Keys \ {Direct(d)} : owner'[l] = owner[l] /\ active'[l] = active[l]
        /\ owner'[Direct(d)] \in {"gone", "server"}
    BY <1>0, <1>6, ServerStepEffect, Zenon
  <2>2. k # Direct(d) /\ astray'.to = Direct(d)
    BY <1>2, <1>5, <1>6, Zenon
  <2>3. PICK i \in 0..MaxIssued : d.dcid = Cid(k, i) /\ i \in active'[k]
    BY <1>2, <1>6, FoundByAddress, Zenon
  <2>4. owner[k] = "handle"
    BY <1>1, <1>4, <2>1, <2>2, <2>3, Zenon
  <2>5. ZeroLength(Direct(d))
    BY <1>6, <2>2, <2>3, FoundByCid, Zenon
  <2> QED
    BY <2>1, <2>2, <2>4, <2>5, Zenon
<1>7. ASSUME Direct(d) = NoKey, shared_resolve(d) \in Keys,
             Read(ServerTask, d, shared_resolve(d)), UNCHANGED conn
      PROVE  owner'[k] = "handle" /\ astray'.dcid[3] \in issued'[k]
  <2>1. UNCHANGED <<owner, active, issued>>
    BY <1>7, Zenon DEF conn
  <2>2. PICK i \in 0..MaxIssued : d.dcid = Cid(k, i) /\ d.dcid[3] = i /\ i \in active'[k]
    BY <1>2, <1>7, FoundByAddress, Zenon
  <2>3. shared_resolve(d) # k
    BY <1>2, <1>5, <1>7, Zenon
  <2> QED
    BY <1>1, <1>2, <1>4, <1>7, <2>1, <2>2, <2>3, Zenon
<1>8. ASSUME NEW to, Direct(d) = NoKey, shared_resolve(d) = NoKey, Read(ServerTask, d, to), UNCHANGED conn
      PROVE  owner'[k] = "handle" /\ astray'.dcid[3] \in issued'[k]
  <2>1. UNCHANGED <<owner, active, issued>>
    BY <1>8, Zenon DEF conn
  <2>2. PICK i \in 0..MaxIssued : d.dcid = Cid(k, i) /\ d.dcid[3] = i /\ i \in active'[k]
    BY <1>1, <1>2, <1>3, <1>8, <2>1, Zenon
  <2> QED
    BY <1>1, <1>2, <1>4, <1>8, <2>1, <2>2, Zenon
<1>9. ASSUME NEW x \in Keys, Read(ServerTask, d, x),
             d.dcid = OriginalDcid(x[1]) \/ (d.dcid = Cid(x, 0) /\ x[2] = "r")
      PROVE  FALSE
  <2>1. SentTo(d, x)
    BY <1>9, CidFacts DEF SentTo, OriginalDcid
  <2> QED
    BY <1>2, <1>9, <2>1, Zenon
<1> QED
  BY <1>0, <1>6, <1>7, <1>8, <1>9, ServerReadsCases, Zenon

\* A datagram that a handle reads.
LEMMA HandleReadsRight ==
    ASSUME IndInv, AddressesDiffer, AddressRouted, NEW x \in Keys, NEW d \in Datagrams,
           HandleReadsSocket(x, d)
    PROVE  HandleReadsReachHandle'
<1>0. Types /\ NoDanglingRoutes /\ RoutesFollowActiveCids /\ Bookkeeping
  BY Zenon DEF IndInv
<1> DEFINE h == shared_resolve(d)
           to == IF ForAnother(x, h) THEN h ELSE x
<1> SUFFICES ASSUME NEW k \in Keys, ForLive(k)', owner'[k] = "handle"
             PROVE  astray'.dcid[3] \in issued'[k]
  BY Zenon DEF HandleReadsReachHandle
<1>1. /\ astray' # Nothing /\ SentTo(astray, k)'
      /\ astray'.dcid = NoCid \/ (astray'.dcid[2] # "o" /\ astray'.dcid[3] \in active'[k])
      /\ k # NoKey
  BY KeyFacts, Zenon DEF ForLive, Live
<1>2. Read(x, d, to)
  BY Zenon DEF HandleReadsSocket
<1>3. to \in Keys
  BY <1>0, DatagramFacts, ResolveFacts, Zenon DEF ForAnother
<1> HIDE DEF h, to
<1>4. /\ astray'.dcid = d.dcid /\ SentTo(d, k) /\ ~SentTo(d, to) /\ to # k
  BY <1>1, <1>2, <1>3, ReadFacts, Zenon
<1>5. h # k
  BY <1>1, <1>4, Zenon DEF to, ForAnother
<1>6. /\ owner[k] = "handle" /\ active'[k] = active[k] /\ issued'[k] = issued[k]
  <2>1. CASE ForAnother(x, h)
    BY <2>1, Zenon DEF HandleReadsSocket, h, conn
  <2>2. CASE ~ForAnother(x, h)
    <3>1. HandleReads(x) /\ x # k
      BY <1>4, <2>2, Zenon DEF HandleReadsSocket, h, to
    <3>2. PICK s \in Statuses, N \in New(x), R \in Gone(x) :
            /\ Progress(x, s, N, R)
            /\ issued' = [issued EXCEPT ![x] = {}]
            /\ UNCHANGED owner
      BY <3>1, Zenon DEF HandleReads
    <3>3. active'[k] = active[k]
      BY <1>0, <3>1, <3>2, ProgressFacts, Zenon
    <3>4. issued'[k] = issued[k]
      BY <1>0, <3>1, <3>2, Zenon DEF Types
    <3> QED
      BY <3>2, <3>3, <3>4, Zenon
  <2> QED
    BY <2>1, <2>2, Zenon
<1>7. d.dcid # NoCid
  BY <1>0, <1>4, <1>5, <1>6, TargetFacts, FoundByAddress, CidFacts DEF AddressRouted, h, NoCid
<1>8. PICK i \in 0..MaxIssued : d.dcid = Cid(k, i) /\ d.dcid[3] = i /\ i \in active[k]
  BY <1>0, <1>1, <1>4, <1>6, <1>7, TargetFacts, Zenon
<1>9. shared_cid_map[Cid(k, i)] # k
  BY <1>5, <1>8, FoundByCid, Zenon DEF h
<1> QED
  BY <1>0, <1>4, <1>6, <1>8, <1>9, Zenon DEF RoutesFollowActiveCids

\* A Stateless Reset.
LEMMA ResetRight ==
    ASSUME IndInv, NEW d \in Datagrams, ServerReads(d)
    PROVE  RetiredCidNotReset'
<1>0. Types /\ NoDanglingRoutes /\ RetiredRouted /\ RetiredRemembered
  BY Zenon DEF IndInv
<1> SUFFICES ASSUME NEW k \in Keys, astray' # Nothing, Live(k)', SentTo(astray, k)', astray'.to = Reset,
                    astray'.dcid[3] \notin active'[k] \cup issued'[k]
             PROVE  MaxTaken \in {Cardinality(taken_cids'), Cardinality(shared_taken_cids')}
  BY Zenon DEF RetiredCidNotReset
<1>1. /\ Arrives(d) /\ shared_resolve(d) = NoKey
      /\ ~is_taken_cid(d.dcid) /\ d.dcid # NoCid /\ ~d.long /\ Read(ServerTask, d, Reset)
      /\ UNCHANGED <<conn, server, shared>>
  <2>1. \A t \in Keys \cup {NoKey} : ~Read(ServerTask, d, t)
    <3> SUFFICES ASSUME NEW t \in Keys \cup {NoKey}, Read(ServerTask, d, t) PROVE FALSE
      BY Zenon
    <3>1. astray'.to = t
      BY ReadFacts, Zenon
    <3>2. Reset # NoKey
      BY Zenon DEF Reset, NoKey
    <3> QED
      BY <3>1, <3>2, KeyFacts, Zenon
  <2> QED
    BY <1>0, <2>1, ServerReadsCases, Zenon
<1>2. UNCHANGED <<owner, active, issued, taken_cids, shared_taken_cids>>
  BY <1>1, Zenon DEF conn, server, shared
<1>3. astray'.dcid = d.dcid /\ SentTo(d, k)
  BY <1>1, ReadFacts, Zenon
<1>4. PICK i \in 0..MaxIssued : d.dcid = Cid(k, i) /\ d.dcid[3] = i /\ d.dcid \in known
  BY <1>0, <1>1, <1>3, TargetFacts, Zenon DEF Arrives
<1>5. i \notin active[k] /\ i \notin issued[k] /\ owner[k] \in {"server", "handle"}
  BY <1>2, <1>3, <1>4, Zenon DEF Live
<1>6. shared_cid_map[Cid(k, i)] # k
  BY <1>1, <1>4, FoundByCid, KeyFacts, Zenon
<1>7. i \in retired[k] => owner[k] # "handle"
  BY <1>0, <1>5, <1>6, Zenon DEF RetiredRouted
<1>8. Cid(k, i) \notin taken_cids /\ Cid(k, i) \notin shared_taken_cids
  BY <1>1, <1>4, Zenon DEF is_taken_cid
<1> QED
  BY <1>0, <1>2, <1>4, <1>5, <1>7, <1>8, Zenon DEF RetiredRemembered

\* Every step, a stuttering one included, leaves the three properties true.
LEMMA ReadsNext ==
    ASSUME IndInv, [Next]_vars
    PROVE  /\ RetiredCidNotReset => RetiredCidNotReset'
           /\ AddressesDiffer /\ AddressRouted /\ ServerReadsReachOwner => ServerReadsReachOwner'
           /\ AddressesDiffer /\ AddressRouted /\ HandleReadsReachHandle => HandleReadsReachHandle'
<1>1. CASE astray' = Nothing
  BY <1>1, Zenon DEF RetiredCidNotReset, ServerReadsReachOwner, HandleReadsReachHandle, ForLive
<1>2. CASE UNCHANGED vars
  <2>1. UNCHANGED <<owner, status, active, issued, taken_cids, shared_taken_cids, astray>>
    BY <1>2, Zenon DEF vars, conn, server, shared
  <2> QED
    BY <2>1, Zenon DEF RetiredCidNotReset, ServerReadsReachOwner, HandleReadsReachHandle, ForLive, Live,
                SentTo, ZeroLength
<1>3. ASSUME NEW d \in Datagrams, ServerReads(d)
      PROVE  /\ RetiredCidNotReset'
             /\ AddressesDiffer /\ AddressRouted => ServerReadsReachOwner'
             /\ HandleReadsReachHandle'
  <2>1. astray' = Nothing \/ astray'.by = ServerTask
    <3>1. \E to : Read(ServerTask, d, to)
      <4>1. Types /\ NoDanglingRoutes
        BY Zenon DEF IndInv
      <4> QED
        BY <1>3, <4>1, ServerReadsCases, Zenon
    <3> QED
      BY <3>1, ReadFacts, Zenon
  <2>2. HandleReadsReachHandle'
    BY <2>1, KeyFacts, Zenon DEF HandleReadsReachHandle, ForLive
  <2> QED
    BY <1>3, <2>2, ResetRight, ServerReadsRight, Zenon
<1>4. ASSUME NEW x \in Keys, NEW d \in Datagrams, HandleReadsSocket(x, d)
      PROVE  /\ RetiredCidNotReset'
             /\ ServerReadsReachOwner'
             /\ AddressesDiffer /\ AddressRouted => HandleReadsReachHandle'
  <2>1. \E to \in Keys : Read(x, d, to)
    <3>1. d.from \in Addrs /\ Types /\ NoDanglingRoutes
      BY DatagramFacts, Zenon DEF IndInv
    <3>2. Read(x, d, IF ForAnother(x, shared_resolve(d)) THEN shared_resolve(d) ELSE x)
      BY <1>4, Zenon DEF HandleReadsSocket
    <3> QED
      BY <3>1, <3>2, ResolveFacts, Zenon DEF ForAnother
  <2>2. astray' = Nothing \/ (astray'.by = x /\ astray'.to \in Keys)
    BY <2>1, ReadFacts, Zenon
  <2>3. ServerReadsReachOwner'
    BY <2>2, KeyFacts, Zenon DEF ServerReadsReachOwner, ForLive
  <2>4. RetiredCidNotReset'
    BY <2>2, KeyFacts, Zenon DEF RetiredCidNotReset
  <2> QED
    BY <1>4, <2>3, <2>4, HandleReadsRight, Zenon
<1> QED
  BY <1>1, <1>2, <1>3, <1>4, OnlyReads, Zenon

\* Nothing is astray in a new server, and nobody is routed by address.
LEMMA ReadsInit ==
    Init => AddressRouted /\ RetiredCidNotReset /\ ServerReadsReachOwner /\ HandleReadsReachHandle
BY Zenon DEF Init, AddressRouted, RetiredCidNotReset, ServerReadsReachOwner, HandleReadsReachHandle, ForLive

\* A late packet to a CID that a live connection's peer has retired is not answered
\* with a Stateless Reset: remove_retired_cids, retire_cids and take_connection
\* remember it, as long as fewer than MAX_TAKEN_CIDS are.
THEOREM LatePacketsNotReset == Spec => []RetiredCidNotReset
<1>1. IndInv /\ RetiredCidNotReset /\ [Next]_vars => RetiredCidNotReset'
  BY ReadsNext, Zenon
<1> QED
  BY <1>1, ReadsInit, RoutesInductive, PTL DEF Spec

\* What Server::accept reads gets to the connection it is for; what does not is for
\* a handle, and either sent to a CID that the handle has not synced or taken for a
\* connection with an empty CID.  Connections with an empty CID must not share an
\* address, as ServerConfig::with_scid_len demands.
THEOREM ServerReachesOwner == ASSUME AddressesDiffer PROVE Spec => []ServerReadsReachOwner
<1>1. IndInv /\ AddressRouted /\ [Next]_vars => AddressRouted'
  BY AddressRoutedNext, Zenon
<1>2. IndInv /\ AddressRouted /\ ServerReadsReachOwner /\ [Next]_vars => ServerReadsReachOwner'
  BY ReadsNext, Zenon
<1> QED
  BY <1>1, <1>2, ReadsInit, RoutesInductive, PTL DEF Spec

\* What a handle reads from the shared socket gets to the handle it is for, unless
\* its CID has not been synced; under the same condition on addresses.
THEOREM HandleReachesHandle == ASSUME AddressesDiffer PROVE Spec => []HandleReadsReachHandle
<1>1. IndInv /\ AddressRouted /\ [Next]_vars => AddressRouted'
  BY AddressRoutedNext, Zenon
<1>2. IndInv /\ AddressRouted /\ HandleReadsReachHandle /\ [Next]_vars => HandleReadsReachHandle'
  BY ReadsNext, Zenon
<1> QED
  BY <1>1, <1>2, ReadsInit, RoutesInductive, PTL DEF Spec
=============================================================================
