------------------------- MODULE TlsSessionsProofs --------------------------
(***************************************************************************)
(* Proofs about TlsSessions, for any set of connections, names and limits. *)
(*                                                                         *)
(* The five invariants of the module are not inductive alone.  IndInv adds *)
(* what ties the two ends of a connection together: a server connection    *)
(* holds the context it was made from, so its 0-RTT context still says     *)
(* what the TlsContext accepts; the ticket in a client's slot carries the  *)
(* limit of the server connection it came from; the context of a ticket is *)
(* the limit its parameters were taken with; and a rejection the client    *)
(* has seen was the answer of the server connection it still talks to.     *)
(***************************************************************************)
EXTENDS TlsSessions, SequenceTheorems, TLAPS

\* The identity that IdentityIsLastName asks for.
Checks(id, name) ==
    IF name \in IpNames
    THEN id.sni = "none" /\ id.host = "none" /\ id.ip = name
    ELSE id.sni = name /\ id.host = name /\ id.ip = "none"

\* The events that RejectionReported asks for.
Reported(early, completed) ==
    (IF early = "rejected" THEN <<"EarlyDataRejected">> ELSE <<>>)
    \o (IF completed THEN <<"HandshakeCompleted">> ELSE <<>>)

\* What a ticket promises: its context is what its parameters were taken from.
TicketOK(t) == t.session.context = t.params

\* A client alone.
ClientOK(c) ==
    /\ c.st # "conn" => c.early = "none" /\ c.sent = 0 /\ ~c.completed /\ c.events = <<>>
    /\ c.st \in {"none", "session"} => c.id.ip = "none"
    /\ c.st = "built" => Checks(c.id, c.name)
    /\ TicketOK(c.ticket)
    /\ c.sent <= c.ticket.params
    /\ ~c.completed => c.slot = NoTicket
    /\ c.st = "conn" /\ ~c.completed
         => c.early \in (IF c.attempted THEN {"offered", "rejected"} ELSE {"none"})
    /\ c.completed => c.early # "offered"
    /\ c.st = "conn" => c.events = Reported(c.early, c.completed)

\* A server connection and the context x it was made from.
ServerOK(s, x) ==
    /\ s.st # "none" => x.st # "none"
    /\ s.st # "conn" => s.early = "none" /\ s.limit = 0
    /\ s.st = "conn" => s.limit # 0 /\ s.context = (IF x.early THEN s.limit ELSE 0)

\* The two ends of one connection.
PairOK(c, s) ==
    s.st = "conn" =>
        /\ c.st \in {"none", "conn", "dropping"}
        /\ c.st = "conn" =>
             /\ s.early = "accepted" => c.ticket.params = s.limit
             /\ s.early = "none" <=> ~c.attempted
             /\ c.early = "rejected" /\ ~c.completed => s.early = "rejected"
             /\ c.slot # NoTicket => c.slot.context = s.limit

\* Every object has an owner of the model.
HeapShape ==
    \A o \in heap : /\ o = <<o[1], o[2], o[3]>>
                    /\ o[2] \in {"client", "server"} => o[3] \in Conns
                    /\ o[2] = "ctx" => o[1] \in {"SSL_CTX", "alpn_data", "TlsContext"} /\ o[3] = 0

\* What a client's session and the server's context own.
Held ==
    /\ \A k \in Conns : client[k].st = "session"
                          => Of({"SSL", "slot", "SSL_CTX"}, "client", k) \subseteq heap
    /\ ctx.st # "none" => Of({"alpn_data", "SSL_CTX", "TlsContext"}, "ctx", 0) \subseteq heap

\* Each SSL_CTX in h that has an owner is referred to.
Referenced(h) ==
    \A o \in h : o[1] = "SSL_CTX" /\ o[2] # Lost => \E u \in h : u \in Users(o[2], o[3])

HeapOK == HeapShape /\ NothingLeaked /\ NothingFreedInUse /\ Held /\ Referenced(heap)

EndsOK ==
    /\ \A k \in Conns : ClientOK(client[k]) /\ ServerOK(server[k], ctx) /\ PairOK(client[k], server[k])
    /\ \A t \in jar : TicketOK(t)

IndInv == TypeOK /\ EndsOK /\ HeapOK
-----------------------------------------------------------------------------
(* What the constructors leave behind.                                     *)

\* When no step fails, what the steps gave is left.
LEMMA LeftAll ==
    ASSUME NEW steps, NEW n \in Nat, Len(steps) = n, NEW x
    PROVE  x \in Left(steps, 0) <=> \E i \in 1..n : x \in steps[i].gives
BY DEF Left

\* When step f fails, what the steps before it gave is left, without what it undoes.
LEMMA LeftFailed ==
    ASSUME NEW steps, NEW f \in Nat \ {0}, NEW x
    PROVE  x \in Left(steps, f)
             <=> (\E i \in 1..(f - 1) : x \in steps[i].gives) /\ x \notin steps[f].undo
<1>1. Left(steps, f) = (UNION {steps[i].gives : i \in 1..(f - 1)}) \ steps[f].undo
  BY DEF Left
<1>2. x \in UNION {steps[i].gives : i \in 1..(f - 1)} <=> \E i \in 1..(f - 1) : x \in steps[i].gives
  OBVIOUS
<1> QED
  BY <1>1, <1>2

\* The context of a client: nothing, whatever step fails, or the SSL_CTX and the
\* TlsContext.
LEMMA ClientContextLeft ==
    /\ \A f \in 1..Len(new_client_with_options) : Left(new_client_with_options, f) = {}
    /\ Left(new_client_with_options, 0) = {"SSL_CTX", "TlsContext"}
<1> DEFINE s == new_client_with_options
<1>1. /\ Len(s) = 3
      /\ s[1].gives = {"SSL_CTX"} /\ s[2].gives = {} /\ s[3].gives = {"TlsContext"}
      /\ s[1].undo = {} /\ s[2].undo = {"SSL_CTX"} /\ s[3].undo = {"SSL_CTX"}
  BY DEF new_client_with_options, Step
<1> HIDE DEF s
<1>2. \A x : x \in Left(s, 0) <=> x \in {"SSL_CTX", "TlsContext"}
  <2> TAKE x
  <2>1. x \in Left(s, 0) <=> \E i \in 1..3 : x \in s[i].gives
    BY <1>1, LeftAll, Zenon
  <2> QED
    BY <1>1, <2>1
<1>3. \A f \in 1..3 : \A x : x \notin Left(s, f)
  <2> TAKE f \in 1..3
  <2> TAKE x
  <2>1. x \in Left(s, f) <=> (\E i \in 1..(f - 1) : x \in s[i].gives) /\ x \notin s[f].undo
    BY LeftFailed
  <2>2. f = 1 \/ f = 2 \/ f = 3
    OBVIOUS
  <2> QED
    BY <1>1, <2>1, <2>2
<1> QED
  BY <1>1, <1>2, <1>3 DEF s

\* The server's context: a path that is no C string leaves the SSL_CTX, and no
\* other failing step leaves anything.
LEMMA ServerContextLeft ==
    /\ \A f \in 1..(Len(new_server) - 1) :
         Left(new_server, f) = IF f \in PathSteps THEN {"SSL_CTX"} ELSE {}
    /\ Left(new_server, 0) = {"SSL_CTX", "alpn_data", "TlsContext"}
<1> DEFINE s == new_server
<1>1. /\ Len(s) = 7
      /\ s[1].gives = {"SSL_CTX"} /\ s[7].gives = {"alpn_data", "TlsContext"}
      /\ s[2].gives = {} /\ s[3].gives = {} /\ s[4].gives = {} /\ s[5].gives = {} /\ s[6].gives = {}
      /\ s[1].undo = {} /\ s[3].undo = {} /\ s[5].undo = {}
      /\ s[2].undo = {"SSL_CTX"} /\ s[4].undo = {"SSL_CTX"} /\ s[6].undo = {"SSL_CTX"}
  BY DEF new_server, Step
<1> HIDE DEF s
<1>2. \A x : x \in Left(s, 0) <=> x \in {"SSL_CTX", "alpn_data", "TlsContext"}
  <2> TAKE x
  <2>1. x \in Left(s, 0) <=> \E i \in 1..7 : x \in s[i].gives
    BY <1>1, LeftAll, Zenon
  <2> QED
    BY <1>1, <2>1
<1>3. \A f \in 1..6 : \A x : x \in Left(s, f) <=> f \in PathSteps /\ x = "SSL_CTX"
  <2> TAKE f \in 1..6
  <2> TAKE x
  <2>1. x \in Left(s, f) <=> (\E i \in 1..(f - 1) : x \in s[i].gives) /\ x \notin s[f].undo
    BY LeftFailed
  <2>2. \A i \in 1..(f - 1) : i \in 1..5
    OBVIOUS
  <2>3. (\E i \in 1..(f - 1) : x \in s[i].gives) <=> f # 1 /\ x = "SSL_CTX"
    BY <1>1, <2>2
  <2>4. f = 1 \/ f = 2 \/ f = 3 \/ f = 4 \/ f = 5 \/ f = 6
    OBVIOUS
  <2> QED
    BY <1>1, <2>1, <2>3, <2>4 DEF PathSteps
<1> QED
  BY <1>1, <1>2, <1>3 DEF s

\* A session: nothing, or the SSL, and a client's slot.
LEMMA SessionLeft ==
    ASSUME NEW role \in {"client", "server"}
    PROVE  /\ \A f \in 1..Len(create_session(role)) : Left(create_session(role), f) = {}
           /\ Left(create_session(role), 0)
                = IF role = "client" THEN {"SSL", "slot"} ELSE {"SSL"}
<1> DEFINE s == create_session(role)
<1>1. /\ Len(s) = IF role = "client" THEN 2 ELSE 1
      /\ s[1].gives = {"SSL"} /\ s[1].undo = {}
      /\ role = "client" => s[2].gives = {"slot"} /\ s[2].undo = {"SSL"}
  BY DEF create_session, Step
<1> HIDE DEF s
<1>2. CASE role = "client"
  <2>1. Len(s) = 2
    BY <1>1, <1>2
  <2>2. \A x : x \in Left(s, 0) <=> x \in {"SSL", "slot"}
    <3> TAKE x
    <3>1. x \in Left(s, 0) <=> \E i \in 1..2 : x \in s[i].gives
      BY <2>1, LeftAll, Zenon
    <3> QED
      BY <1>1, <1>2, <3>1
  <2>3. \A f \in 1..2 : \A x : x \notin Left(s, f)
    <3> TAKE f \in 1..2
    <3> TAKE x
    <3>1. x \in Left(s, f) <=> (\E i \in 1..(f - 1) : x \in s[i].gives) /\ x \notin s[f].undo
      BY LeftFailed
    <3>2. f = 1 \/ f = 2
      OBVIOUS
    <3> QED
      BY <1>1, <1>2, <3>1, <3>2
  <2> QED
    BY <1>2, <2>1, <2>2, <2>3 DEF s
<1>3. CASE role = "server"
  <2>1. Len(s) = 1
    BY <1>1, <1>3
  <2>2. \A x : x \in Left(s, 0) <=> x = "SSL"
    <3> TAKE x
    <3>1. x \in Left(s, 0) <=> \E i \in 1..1 : x \in s[i].gives
      BY <2>1, LeftAll, Zenon
    <3> QED
      BY <1>1, <3>1
  <2>3. \A x : x \notin Left(s, 1)
    <3> TAKE x
    <3>1. x \in Left(s, 1) <=> (\E i \in 1..(1 - 1) : x \in s[i].gives) /\ x \notin s[1].undo
      BY LeftFailed
    <3> QED
      BY <3>1
  <2>4. Left(s, 0) = {"SSL"} /\ \A f \in 1..1 : Left(s, f) = {}
    BY <2>2, <2>3
  <2> QED
    BY <1>3, <2>1, <2>4, Zenon DEF s
<1> QED
  BY <1>2, <1>3

\* A connection, with or without 0-RTT: nothing, or the ngtcp2_conn.
LEMMA ConnectionLeft ==
    ASSUME NEW early \in BOOLEAN
    PROVE  /\ \A f \in 1..Len(finish_new(early)) : Left(finish_new(early), f) = {}
           /\ Left(finish_new(early), 0) = {"ngtcp2_conn"}
<1> DEFINE s == finish_new(early)
           n == IF early THEN 5 ELSE 3
<1>1. /\ Len(s) = n
      /\ s[1].gives = {"ngtcp2_conn"} /\ s[1].undo = {}
      /\ \A i \in 2..n : s[i].gives = {} /\ s[i].undo = {"ngtcp2_conn"}
  <2>1. CASE early
    BY <2>1 DEF finish_new, Step
  <2>2. CASE ~early
    BY <2>2 DEF finish_new, Step
  <2> QED
    BY <2>1, <2>2
<1>2. n \in Nat /\ n > 1
  OBVIOUS
<1> HIDE DEF s, n
<1>3. \A x : x \in Left(s, 0) <=> x = "ngtcp2_conn"
  <2> TAKE x
  <2>1. x \in Left(s, 0) <=> \E i \in 1..n : x \in s[i].gives
    BY <1>1, <1>2, LeftAll
  <2>2. \A i \in 1..n : i = 1 \/ i \in 2..n
    BY <1>2
  <2> QED
    BY <1>1, <1>2, <2>1, <2>2
<1>4. \A f \in 1..n : \A x : x \notin Left(s, f)
  <2> TAKE f \in 1..n
  <2> TAKE x
  <2>1. x \in Left(s, f) <=> (\E i \in 1..(f - 1) : x \in s[i].gives) /\ x \notin s[f].undo
    BY <1>2, LeftFailed
  <2>2. CASE f = 1
    BY <2>1, <2>2
  <2>3. CASE f \in 2..n
    <3>1. \A i \in 1..(f - 1) : s[i].gives \subseteq {"ngtcp2_conn"}
      <4> TAKE i \in 1..(f - 1)
      <4>1. i = 1 \/ i \in 2..n
        BY <1>2
      <4> QED
        BY <4>1, <1>1
    <3> QED
      BY <1>1, <2>1, <2>3, <3>1
  <2> QED
    BY <1>2, <2>2, <2>3
<1> QED
  BY <1>1, <1>3, <1>4 DEF s
-----------------------------------------------------------------------------
(* The heap.                                                               *)

\* References are held by TlsContexts and SSLs, those to a client's SSL_CTX by its
\* own.
LEMMA UserFacts ==
    /\ \A side, k : \A u \in Users(side, k) : u[1] \in {"TlsContext", "SSL"}
    /\ \A side, k : side # "ctx" => \A u \in Users(side, k) : u[2] = side /\ u[3] = k
    /\ \A side, k : side # "ctx"
         => <<"TlsContext", side, k>> \in Users(side, k) /\ <<"SSL", side, k>> \in Users(side, k)
    /\ \A k : <<"TlsContext", "ctx", 0>> \in Users("ctx", k)
BY DEF Users, Of

\* Released takes away SSL_CTXs alone, those to which nothing refers.
LEMMA ReleasedFacts ==
    ASSUME NEW h
    PROVE  /\ \A o \in Released(h) : o \in h
           /\ \A o \in h : o[1] # "SSL_CTX" => o \in Released(h)
           /\ \A o \in h : (\E u \in h : u \in Users(o[2], o[3])) => o \in Released(h)
           /\ \A o \in h : o[2] = Lost => o \in Released(h)
           /\ Referenced(Released(h))
<1>1. \A o : o \in Released(h) <=> /\ o \in h
                                   /\ o[1] = "SSL_CTX" /\ o[2] # Lost
                                        => \E u \in h : u \in Users(o[2], o[3])
  BY DEF Released
<1>2. \A o \in h : o[1] # "SSL_CTX" => o \in Released(h)
  BY <1>1
<1>3. ASSUME NEW o \in Released(h), o[1] = "SSL_CTX", o[2] # Lost
      PROVE  \E u \in Released(h) : u \in Users(o[2], o[3])
  <2>1. PICK u \in h : u \in Users(o[2], o[3])
    BY <1>1, <1>3
  <2>2. u[1] # "SSL_CTX"
    BY <2>1, UserFacts
  <2> QED
    BY <1>2, <2>1, <2>2
<1> QED
  BY <1>1, <1>2, <1>3 DEF Referenced

\* The object that Free takes first.
Gone(side, k) ==
    LET order == DropOrder(side, k)
        left  == {i \in DOMAIN order : <<order[i], side, k>> \in heap}
    IN  {<<order[i], side, k>> : i \in {j \in left : \A m \in left : j <= m}}

\* Nothing goes before the ngtcp2_conn but the TlsContext, and the SSL goes before
\* the slot.
LEMMA GoneInOrder ==
    ASSUME NEW side, NEW k
    PROVE  /\ \A o \in Gone(side, k) : o[1] # "SSL_CTX" /\ o[2] = side /\ o[3] = k
           /\ <<"ngtcp2_conn", side, k>> \in heap /\ <<"ngtcp2_conn", side, k>> \notin Gone(side, k)
                => \A kind \in {"user_data", "SSL", "conn_ref"} : <<kind, side, k>> \notin Gone(side, k)
           /\ <<"SSL", side, k>> \in heap /\ <<"SSL", side, k>> \notin Gone(side, k)
                => <<"slot", side, k>> \notin Gone(side, k)
<1> DEFINE order == DropOrder(side, k)
           left == {i \in DOMAIN order : <<order[i], side, k>> \in heap}
           first == {j \in left : \A m \in left : j <= m}
<1>1. \/ /\ DOMAIN order = 1..6
         /\ order[1] = "TlsContext" /\ order[2] = "ngtcp2_conn" /\ order[3] = "user_data"
         /\ order[4] = "SSL" /\ order[5] = "slot" /\ order[6] = "conn_ref"
      \/ /\ DOMAIN order = 1..6
         /\ order[1] = "ngtcp2_conn" /\ order[2] = "user_data" /\ order[3] = "SSL"
         /\ order[4] = "slot" /\ order[5] = "conn_ref" /\ order[6] = "TlsContext"
  BY DEF DropOrder
<1>2. Gone(side, k) = {<<order[i], side, k>> : i \in first}
  BY DEF Gone
<1>3. \A i, j \in 1..6 : order[i] = order[j] => i = j
  BY <1>1
<1>4. \A i \in 1..6 : i \in left <=> <<order[i], side, k>> \in heap
  BY <1>1
<1>5. \A i \in left : i \in 1..6
  BY <1>1
<1>6. \A i \in 1..6 : <<order[i], side, k>> \in Gone(side, k) <=> i \in first
  BY <1>2, <1>3, <1>5, Zenon
<1>7. \A i \in 1..6 : i \in first <=> i \in left /\ \A m \in left : i <= m
  OBVIOUS
<1>8. \A o \in Gone(side, k) : \E i \in 1..6 : o = <<order[i], side, k>>
  BY <1>2, <1>5, Zenon
<1> HIDE DEF left, first, order
<1>9. \A o \in Gone(side, k) : o[1] # "SSL_CTX" /\ o[2] = side /\ o[3] = k
  BY <1>1, <1>8
<1>10. \A i, j \in 1..6 : i < j /\ i \in left => j \notin first
  BY <1>7
<1>11. CASE order[1] = "TlsContext"
  <2>1. /\ <<"ngtcp2_conn", side, k>> \in heap <=> 2 \in left
        /\ <<"user_data", side, k>> \in Gone(side, k) <=> 3 \in first
        /\ <<"SSL", side, k>> \in heap <=> 4 \in left
        /\ <<"SSL", side, k>> \in Gone(side, k) <=> 4 \in first
        /\ <<"slot", side, k>> \in Gone(side, k) <=> 5 \in first
        /\ <<"conn_ref", side, k>> \in Gone(side, k) <=> 6 \in first
    BY <1>1, <1>4, <1>6, <1>11
  <2>2. /\ 2 \in left => 3 \notin first /\ 4 \notin first /\ 6 \notin first
        /\ 4 \in left => 5 \notin first
    BY <1>10
  <2> QED
    BY <1>9, <2>1, <2>2, Zenon
<1>12. CASE order[1] # "TlsContext"
  <2>1. /\ <<"ngtcp2_conn", side, k>> \in heap <=> 1 \in left
        /\ <<"user_data", side, k>> \in Gone(side, k) <=> 2 \in first
        /\ <<"SSL", side, k>> \in heap <=> 3 \in left
        /\ <<"SSL", side, k>> \in Gone(side, k) <=> 3 \in first
        /\ <<"slot", side, k>> \in Gone(side, k) <=> 4 \in first
        /\ <<"conn_ref", side, k>> \in Gone(side, k) <=> 5 \in first
    BY <1>1, <1>4, <1>6, <1>12
  <2>2. /\ 1 \in left => 2 \notin first /\ 3 \notin first /\ 5 \notin first
        /\ 3 \in left => 4 \notin first
    BY <1>10
  <2> QED
    BY <1>9, <2>1, <2>2, Zenon
<1> QED
  BY <1>11, <1>12

\* Freeing one object of a connection keeps what others own, keeps what a
\* ngtcp2_conn or an SSL that stays makes use of, and leaves no SSL_CTX without a
\* reference.
LEMMA FreeInOrder ==
    ASSUME HeapOK, NEW side \in {"client", "server"}, NEW k
    PROVE  /\ \A o \in Free(side, k) : o \in heap
           /\ \A o \in heap : o \in Free(side, k) \/ (o[2] = side /\ o[3] = k)
           /\ <<"ngtcp2_conn", side, k>> \in Free(side, k)
                => \A kind \in {"user_data", "SSL", "conn_ref"} :
                     <<kind, side, k>> \in heap => <<kind, side, k>> \in Free(side, k)
           /\ <<"SSL", side, k>> \in Free(side, k)
                => \A kind \in {"slot", "SSL_CTX"} :
                     <<kind, side, k>> \in heap => <<kind, side, k>> \in Free(side, k)
           /\ Referenced(Free(side, k))
<1> DEFINE h == heap \ Gone(side, k)
<1>1. Free(side, k) = Released(h)
  BY DEF Free, Gone
<1>2. /\ \A o \in Released(h) : o \in h
      /\ \A o \in h : o[1] # "SSL_CTX" => o \in Released(h)
      /\ \A o \in h : (\E u \in h : u \in Users(o[2], o[3])) => o \in Released(h)
      /\ \A o \in h : o[2] = Lost => o \in Released(h)
      /\ Referenced(Released(h))
  BY ReleasedFacts
<1>3. \A o : o \in h <=> o \in heap /\ o \notin Gone(side, k)
  OBVIOUS
<1> HIDE DEF h
<1>4. \A o \in heap : o \in h \/ (o[1] # "SSL_CTX" /\ o[2] = side /\ o[3] = k)
  BY <1>3, GoneInOrder
<1>5. \A o \in Free(side, k) : o \in heap
  BY <1>1, <1>2, <1>3
<1>6. ASSUME NEW o \in heap, ~(o[2] = side /\ o[3] = k)
      PROVE  o \in Released(h)
  <2>1. o \in h
    BY <1>4, <1>6
  <2>2. CASE o[1] # "SSL_CTX" \/ o[2] = Lost
    BY <1>2, <2>1, <2>2
  <2>3. CASE o[1] = "SSL_CTX" /\ o[2] # Lost /\ o[2] = "ctx"
    <3>1. <<"TlsContext", "ctx", 0>> \in heap
      BY <2>3 DEF HeapOK, NothingLeaked, Held, Of
    <3>2. <<"TlsContext", "ctx", 0>> \in h
      BY <1>4, <3>1
    <3> QED
      BY <1>2, <2>1, <2>3, <3>2, UserFacts
  <2>4. CASE o[1] = "SSL_CTX" /\ o[2] # Lost /\ o[2] # "ctx"
    <3>1. PICK u \in heap : u \in Users(o[2], o[3])
      BY <2>4 DEF HeapOK, Referenced
    <3>2. u[2] = o[2] /\ u[3] = o[3]
      BY <2>4, <3>1, UserFacts
    <3>3. u \in h
      BY <1>4, <1>6, <3>1, <3>2
    <3> QED
      BY <1>2, <2>1, <3>1, <3>3
  <2> QED
    BY <2>2, <2>3, <2>4
<1>7. ASSUME <<"ngtcp2_conn", side, k>> \in Released(h), NEW kind \in {"user_data", "SSL", "conn_ref"},
             <<kind, side, k>> \in heap
      PROVE  <<kind, side, k>> \in Released(h)
  <2>1. <<kind, side, k>> \in h
    BY <1>2, <1>3, <1>7, GoneInOrder
  <2>2. kind # "SSL_CTX" /\ <<kind, side, k>>[1] = kind
    OBVIOUS
  <2> QED
    BY <1>2, <2>1, <2>2
<1>8. ASSUME <<"SSL", side, k>> \in Released(h)
      PROVE  \A kind \in {"slot", "SSL_CTX"} :
               <<kind, side, k>> \in heap => <<kind, side, k>> \in Released(h)
  <2>1. <<"SSL", side, k>> \in h
    BY <1>2, <1>8
  <2>2. ASSUME <<"slot", side, k>> \in heap
        PROVE  <<"slot", side, k>> \in Released(h)
    <3>1. <<"slot", side, k>> \in h
      BY <1>3, <2>1, <2>2, GoneInOrder
    <3> QED
      BY <1>2, <3>1
  <2>3. ASSUME <<"SSL_CTX", side, k>> \in heap
        PROVE  <<"SSL_CTX", side, k>> \in Released(h)
    <3>1. <<"SSL_CTX", side, k>> \in h
      BY <1>4, <2>3
    <3>2. <<"SSL", side, k>> \in Users(side, k)
      BY UserFacts
    <3> QED
      BY <1>2, <2>1, <3>1, <3>2
  <2> QED
    BY <2>2, <2>3
<1>9. Referenced(Free(side, k))
  BY <1>1, <1>2
<1> QED
  BY <1>1, <1>5, <1>6, <1>7, <1>8, <1>9

\* NothingFreedInUse of heap h, object by object.
InUse(h) ==
    \A k \in Conns :
        /\ <<"ngtcp2_conn", "client", k>> \in h
             => /\ <<"user_data", "client", k>> \in h /\ <<"SSL", "client", k>> \in h
                /\ <<"conn_ref", "client", k>> \in h
        /\ <<"ngtcp2_conn", "server", k>> \in h
             => /\ <<"user_data", "server", k>> \in h /\ <<"SSL", "server", k>> \in h
                /\ <<"conn_ref", "server", k>> \in h
        /\ <<"SSL", "client", k>> \in h
             => <<"slot", "client", k>> \in h /\ <<"SSL_CTX", "client", k>> \in h
        /\ <<"SSL", "server", k>> \in h
             => <<"alpn_data", "ctx", 0>> \in h /\ <<"SSL_CTX", "ctx", 0>> \in h

\* Both say the same, before a step and after it.
LEMMA InUseIff ==
    /\ NothingFreedInUse <=> InUse(heap)
    /\ NothingFreedInUse' <=> InUse(heap')
<1>1. \A h, side, k : Of({"user_data", "SSL", "conn_ref"}, side, k) \subseteq h
                        <=> /\ <<"user_data", side, k>> \in h /\ <<"SSL", side, k>> \in h
                            /\ <<"conn_ref", side, k>> \in h
  BY DEF Of
<1>2. \A h, side, k : Of({"slot", "SSL_CTX"}, side, k) \subseteq h
                        <=> <<"slot", side, k>> \in h /\ <<"SSL_CTX", side, k>> \in h
  BY DEF Of
<1>3. \A h, side, k : Of({"alpn_data", "SSL_CTX"}, side, k) \subseteq h
                        <=> <<"alpn_data", side, k>> \in h /\ <<"SSL_CTX", side, k>> \in h
  BY DEF Of
<1>4. NothingFreedInUse <=> InUse(heap)
  BY <1>1, <1>2, <1>3, Zenon DEF NothingFreedInUse, InUse
<1>5. NothingFreedInUse' <=> InUse(heap')
  BY <1>1, <1>2, <1>3, Zenon DEF NothingFreedInUse, InUse
<1> QED
  BY <1>4, <1>5

\* An action that allocates and frees nothing keeps the heap in order when no owner
\* disappears, none begins a session and the server's context stays or stays away.
LEMMA HeapSame ==
    ASSUME HeapOK, heap' = heap, ctx.st = "none" <=> ctx'.st = "none",
           \A k \in Conns : /\ client[k].st # "none" => client'[k].st # "none"
                            /\ client'[k].st = "session" => client[k].st = "session"
                            /\ server[k].st # "none" => server'[k].st # "none"
    PROVE  HeapOK'
<1>1. HeapShape'
  BY DEF HeapOK, HeapShape
<1>2. NothingLeaked'
  BY DEF HeapOK, HeapShape, NothingLeaked
<1>3. NothingFreedInUse'
  BY Zenon DEF HeapOK, NothingFreedInUse, Of
<1>4. Held'
  BY DEF HeapOK, Held, Of
<1> QED
  BY <1>1, <1>2, <1>3, <1>4, Zenon DEF HeapOK, Referenced

\* A constructor that fails adds nothing.
LEMMA NothingOf ==
    ASSUME NEW side, NEW k
    PROVE  Of({}, side, k) = {}
BY DEF Of

\* What the heap holds after objects of the given kinds were allocated for an owner.
LEMMA Added ==
    ASSUME NEW K, NEW side, NEW k, heap' = heap \cup Of(K, side, k)
    PROVE  /\ \A o \in heap : o \in heap'
           /\ \A kind \in K : <<kind, side, k>> \in heap'
           /\ \A o \in heap' : \/ o \in heap
                               \/ o = <<o[1], o[2], o[3]>> /\ o[1] \in K /\ o[2] = side /\ o[3] = k
<1>1. \A o : o \in Of(K, side, k) <=> \E kind \in K : o = <<kind, side, k>>
  BY DEF Of
<1>2. \A o \in Of(K, side, k) : o = <<o[1], o[2], o[3]>> /\ o[1] \in K /\ o[2] = side /\ o[3] = k
  BY <1>1
<1> QED
  BY <1>1, <1>2

\* The references to the server's SSL_CTX are of no client.
LEMMA ContextUsers ==
    \A k : \A u \in Users("ctx", k) :
        \/ u = <<"TlsContext", "ctx", 0>>
        \/ \E j \in Conns : u = <<"SSL", "server", j>>
BY DEF Users

\* CreateClient succeeds: the client owns a TlsContext, its SSL_CTX, an SSL and a
\* slot.
LEMMA HeapCreateClient ==
    ASSUME HeapOK, NEW k \in Conns, client[k].st = "none",
           NEW K, \A x : x \in K <=> x \in {"SSL_CTX", "TlsContext", "SSL", "slot"},
           heap' = heap \cup Of(K, "client", k),
           client'[k].st = "session", \A j \in Conns \ {k} : client'[j] = client[j],
           UNCHANGED <<ctx, server>>
    PROVE  HeapOK'
<1>1. /\ \A o \in heap : o \in heap'
      /\ \A kind \in K : <<kind, "client", k>> \in heap'
      /\ \A o \in heap' : \/ o \in heap
                          \/ /\ o = <<o[1], o[2], o[3]>>
                             /\ o[1] \in K /\ o[2] = "client" /\ o[3] = k
  BY Added
<1>3. HeapShape'
  BY <1>1 DEF HeapOK, HeapShape
<1>4. NothingLeaked'
  BY <1>1 DEF HeapOK, HeapShape, NothingLeaked, Lost
<1>5. NothingFreedInUse'
  <2>1. \A side, j : <<"ngtcp2_conn", side, j>> \in heap' => <<"ngtcp2_conn", side, j>> \in heap
    BY <1>1
  <2>2. \A j : /\ <<"SSL", "client", j>> \in heap' => <<"SSL", "client", j>> \in heap \/ j = k
               /\ <<"SSL", "server", j>> \in heap' => <<"SSL", "server", j>> \in heap
    BY <1>1
  <2>3. <<"slot", "client", k>> \in heap' /\ <<"SSL_CTX", "client", k>> \in heap'
    BY <1>1
  <2> QED
    BY <1>1, <2>1, <2>2, <2>3, InUseIff, Zenon DEF HeapOK, InUse
<1>6. Held'
  <2>1. \A kind \in {"SSL", "slot", "SSL_CTX"} : <<kind, "client", k>> \in heap'
    BY <1>1
  <2> QED
    BY <1>1, <2>1 DEF HeapOK, Held, Of
<1>7. Referenced(heap')
  <2>1. <<"TlsContext", "client", k>> \in heap' /\ <<"TlsContext", "client", k>> \in Users("client", k)
    BY <1>1, UserFacts
  <2> QED
    BY <1>1, <2>1 DEF HeapOK, Referenced
<1> QED
  BY <1>3, <1>4, <1>5, <1>6, <1>7 DEF HeapOK

\* ClientNew: the connection and its boxes join what the session owns.
LEMMA HeapClientNew ==
    ASSUME HeapOK, NEW k \in Conns, client[k].st = "session",
           NEW K, \A x : x \in K <=> x \in {"ngtcp2_conn", "user_data", "conn_ref"},
           heap' = heap \cup Of(K, "client", k),
           client'[k].st = "built", \A j \in Conns \ {k} : client'[j] = client[j],
           UNCHANGED <<ctx, server>>
    PROVE  HeapOK'
<1>1. /\ \A o \in heap : o \in heap'
      /\ \A kind \in K : <<kind, "client", k>> \in heap'
      /\ \A o \in heap' : \/ o \in heap
                          \/ /\ o = <<o[1], o[2], o[3]>>
                             /\ o[1] \in K /\ o[2] = "client" /\ o[3] = k
  BY Added
<1>3. HeapShape'
  BY <1>1 DEF HeapOK, HeapShape
<1>4. NothingLeaked'
  BY <1>1 DEF HeapOK, HeapShape, NothingLeaked, Lost
<1>5. NothingFreedInUse'
  <2>1. \A j : /\ <<"ngtcp2_conn", "client", j>> \in heap'
                    => <<"ngtcp2_conn", "client", j>> \in heap \/ j = k
               /\ <<"ngtcp2_conn", "server", j>> \in heap'
                    => <<"ngtcp2_conn", "server", j>> \in heap
    BY <1>1
  <2>2. \A side, j : <<"SSL", side, j>> \in heap' => <<"SSL", side, j>> \in heap
    BY <1>1
  <2>3. <<"user_data", "client", k>> \in heap' /\ <<"conn_ref", "client", k>> \in heap'
    BY <1>1
  <2>4. <<"SSL", "client", k>> \in heap'
    BY <1>1 DEF HeapOK, Held, Of
  <2> QED
    BY <1>1, <2>1, <2>2, <2>3, <2>4, InUseIff, Zenon DEF HeapOK, InUse
<1>6. Held'
  BY <1>1 DEF HeapOK, Held, Of
<1>7. Referenced(heap')
  BY <1>1 DEF HeapOK, Referenced
<1> QED
  BY <1>3, <1>4, <1>5, <1>6, <1>7 DEF HeapOK

\* ServerNew: a connection of the server with its SSL, made from the context.
LEMMA HeapServerNew ==
    ASSUME HeapOK, NEW k \in Conns, ctx.st = "live",
           NEW K, \A x : x \in K <=> x \in {"SSL", "ngtcp2_conn", "user_data", "conn_ref"},
           heap' = heap \cup Of(K, "server", k),
           server'[k].st = "conn", \A j \in Conns \ {k} : server'[j] = server[j],
           UNCHANGED <<ctx, client>>
    PROVE  HeapOK'
<1>1. /\ \A o \in heap : o \in heap'
      /\ \A kind \in K : <<kind, "server", k>> \in heap'
      /\ \A o \in heap' : \/ o \in heap
                          \/ /\ o = <<o[1], o[2], o[3]>>
                             /\ o[1] \in K /\ o[2] = "server" /\ o[3] = k
  BY Added
<1>3. HeapShape'
  BY <1>1 DEF HeapOK, HeapShape
<1>4. NothingLeaked'
  BY <1>1 DEF HeapOK, HeapShape, NothingLeaked, Lost
<1>5. NothingFreedInUse'
  <2>1. \A kind, j : /\ <<kind, "client", j>> \in heap' => <<kind, "client", j>> \in heap
                     /\ <<kind, "server", j>> \in heap'
                          => <<kind, "server", j>> \in heap \/ j = k
    BY <1>1
  <2>2. \A kind \in {"SSL", "user_data", "conn_ref"} : <<kind, "server", k>> \in heap'
    BY <1>1
  <2>3. <<"alpn_data", "ctx", 0>> \in heap' /\ <<"SSL_CTX", "ctx", 0>> \in heap'
    BY <1>1 DEF HeapOK, Held, Of
  <2> QED
    BY <1>1, <2>1, <2>2, <2>3, InUseIff, Zenon DEF HeapOK, InUse
<1>6. Held'
  BY <1>1 DEF HeapOK, Held, Of
<1>7. Referenced(heap')
  BY <1>1 DEF HeapOK, Referenced
<1> QED
  BY <1>3, <1>4, <1>5, <1>6, <1>7 DEF HeapOK

\* NewServerContext succeeds: the context owns its SSL_CTX and the ALPN list.
LEMMA HeapNewContext ==
    ASSUME HeapOK, ctx'.st = "live",
           NEW K, \A x : x \in K <=> x \in {"SSL_CTX", "alpn_data", "TlsContext"}, heap' = heap \cup Of(K, "ctx", 0),
           UNCHANGED <<client, server>>
    PROVE  HeapOK'
<1>1. /\ \A o \in heap : o \in heap'
      /\ \A kind \in K : <<kind, "ctx", 0>> \in heap'
      /\ \A o \in heap' : \/ o \in heap
                          \/ /\ o = <<o[1], o[2], o[3]>>
                             /\ o[1] \in K /\ o[2] = "ctx" /\ o[3] = 0
  BY Added
<1>2. HeapShape'
  BY <1>1 DEF HeapOK, HeapShape
<1>3. NothingLeaked'
  BY <1>1 DEF HeapOK, HeapShape, NothingLeaked, Lost
<1>4. NothingFreedInUse'
  <2>1. \A kind, j : /\ <<kind, "client", j>> \in heap' => <<kind, "client", j>> \in heap
                     /\ <<kind, "server", j>> \in heap' => <<kind, "server", j>> \in heap
    BY <1>1
  <2> QED
    BY <1>1, <2>1, InUseIff, Zenon DEF HeapOK, InUse
<1>5. Held'
  BY <1>1 DEF HeapOK, Held, Of
<1>6. Referenced(heap')
  <2>1. <<"TlsContext", "ctx", 0>> \in heap' /\ <<"TlsContext", "ctx", 0>> \in Users("ctx", 0)
    BY <1>1, UserFacts
  <2> QED
    BY <1>1, <2>1 DEF HeapOK, Referenced
<1> QED
  BY <1>2, <1>3, <1>4, <1>5, <1>6 DEF HeapOK

\* NewServerContext fails on a path: the SSL_CTX stays behind.
LEMMA HeapPathFails ==
    ASSUME HeapOK, NEW K, \A x : x \in K <=> x = "SSL_CTX", heap' = heap \cup Of(K, Lost, "path"),
           UNCHANGED <<ctx, client, server>>
    PROVE  HeapOK'
<1>1. /\ \A o \in heap : o \in heap'
      /\ \A o \in heap' : \/ o \in heap
                          \/ /\ o = <<o[1], o[2], o[3]>>
                             /\ o[1] \in K /\ o[2] = Lost /\ o[3] = "path"
  BY Added
<1>2. HeapShape'
  BY <1>1 DEF HeapOK, HeapShape, Lost
<1>3. NothingLeaked'
  BY <1>1 DEF HeapOK, HeapShape, NothingLeaked, Lost
<1>4. NothingFreedInUse'
  <2>1. \A kind, j : /\ <<kind, "client", j>> \in heap' => <<kind, "client", j>> \in heap
                     /\ <<kind, "server", j>> \in heap' => <<kind, "server", j>> \in heap
    BY <1>1 DEF Lost
  <2> QED
    BY <1>1, <2>1, InUseIff, Zenon DEF HeapOK, InUse
<1>5. Held'
  BY <1>1 DEF HeapOK, Held, Of
<1>6. Referenced(heap')
  BY <1>1 DEF HeapOK, Referenced
<1> QED
  BY <1>2, <1>3, <1>4, <1>5, <1>6 DEF HeapOK

\* DropContext: no connection of the server is left that reads what it frees.
LEMMA HeapDropContext ==
    ASSUME HeapOK, Holders = {}, heap' = Released(heap \ Of({"alpn_data", "TlsContext"}, "ctx", 0)), ctx'.st = "none",
           UNCHANGED <<client, server>>
    PROVE  HeapOK'
<1> DEFINE h == heap \ Of({"alpn_data", "TlsContext"}, "ctx", 0)
<1>1. /\ \A o \in heap' : o \in h
      /\ \A o \in h : o[1] # "SSL_CTX" => o \in heap'
      /\ \A o \in h : (\E u \in h : u \in Users(o[2], o[3])) => o \in heap'
      /\ \A o \in h : o[2] = Lost => o \in heap'
      /\ Referenced(heap')
  BY ReleasedFacts
<1>2. /\ \A o \in heap : o[2] # "ctx" => o \in h
      /\ \A o \in h : o \in heap
      /\ <<"alpn_data", "ctx", 0>> \notin h /\ <<"TlsContext", "ctx", 0>> \notin h
  BY DEF Of
<1> HIDE DEF h
<1>3. \A kind, j : <<kind, "server", j>> \notin heap
  BY DEF HeapOK, HeapShape, NothingLeaked, Holders
<1>4. \A o \in heap' : o \in heap /\ o[2] # "ctx"
  <2> SUFFICES ASSUME NEW o \in heap', o[2] = "ctx"
               PROVE  FALSE
    BY <1>1, <1>2
  <2>1. o = <<"SSL_CTX", "ctx", 0>>
    BY <1>1, <1>2 DEF HeapOK, HeapShape
  <2>2. PICK u \in heap' : u \in Users("ctx", 0)
    BY <1>1, <2>1 DEF Referenced, Lost
  <2>3. u \in heap /\ u # <<"TlsContext", "ctx", 0>>
    BY <1>1, <1>2, <2>2
  <2> QED
    BY <1>3, <2>2, <2>3, ContextUsers
<1>5. \A o \in heap : o[2] # "ctx" => o \in heap'
  <2> SUFFICES ASSUME NEW o \in heap, o[2] # "ctx"
               PROVE  o \in heap'
    OBVIOUS
  <2>1. o \in h
    BY <1>2
  <2>2. CASE o[1] # "SSL_CTX" \/ o[2] = Lost
    BY <1>1, <2>1, <2>2
  <2>3. CASE o[1] = "SSL_CTX" /\ o[2] # Lost
    <3>1. PICK u \in heap : u \in Users(o[2], o[3])
      BY <2>3 DEF HeapOK, Referenced
    <3>2. u \in h
      BY <1>2, <3>1, UserFacts
    <3> QED
      BY <1>1, <2>1, <3>1, <3>2
  <2> QED
    BY <2>2, <2>3
<1>6. HeapShape'
  BY <1>4 DEF HeapOK, HeapShape
<1>7. NothingLeaked'
  BY <1>4 DEF HeapOK, HeapShape, NothingLeaked
<1>8. NothingFreedInUse'
  <2>1. \A kind, j : /\ <<kind, "client", j>> \in heap' <=> <<kind, "client", j>> \in heap
                     /\ <<kind, "server", j>> \notin heap'
    BY <1>3, <1>4, <1>5
  <2> QED
    BY <2>1, InUseIff, Zenon DEF HeapOK, InUse
<1>9. Held'
  BY <1>5 DEF HeapOK, Held, Of
<1> QED
  BY <1>1, <1>6, <1>7, <1>8, <1>9 DEF HeapOK

\* ClientNewFails: all that the client had is dropped.
LEMMA HeapClientGone ==
    ASSUME HeapOK, NEW k \in Conns, heap' = Dropped(k),
           client'[k].st = "none", \A j \in Conns \ {k} : client'[j] = client[j],
           UNCHANGED <<ctx, server>>
    PROVE  HeapOK'
<1>1. /\ \A o \in heap' : o \in heap /\ ~(o[2] = "client" /\ o[3] = k)
      /\ \A o \in heap : (o[2] = "client" /\ o[3] = k) \/ o \in heap'
  BY DEF Dropped, Objects
<1>2. HeapShape'
  BY <1>1 DEF HeapOK, HeapShape
<1>3. NothingLeaked'
  BY <1>1 DEF HeapOK, HeapShape, NothingLeaked
<1>4. NothingFreedInUse'
  <2>1. \A kind, j : /\ <<kind, "client", j>> \in heap' <=> <<kind, "client", j>> \in heap /\ j # k
                     /\ <<kind, "server", j>> \in heap' <=> <<kind, "server", j>> \in heap
                     /\ <<kind, "ctx", j>> \in heap' <=> <<kind, "ctx", j>> \in heap
    BY <1>1
  <2> QED
    BY <2>1, InUseIff, Zenon DEF HeapOK, InUse
<1>5. Held'
  <2>1. \A j \in Conns \ {k} : Of({"SSL", "slot", "SSL_CTX"}, "client", j) \subseteq heap
                                 => Of({"SSL", "slot", "SSL_CTX"}, "client", j) \subseteq heap'
    BY <1>1 DEF Of
  <2>2. Of({"alpn_data", "SSL_CTX", "TlsContext"}, "ctx", 0) \subseteq heap
          => Of({"alpn_data", "SSL_CTX", "TlsContext"}, "ctx", 0) \subseteq heap'
    BY <1>1 DEF Of
  <2> QED
    BY <2>1, <2>2 DEF HeapOK, Held
<1>6. Referenced(heap')
  <2> SUFFICES ASSUME NEW o \in heap', o[1] = "SSL_CTX", o[2] # Lost
               PROVE  \E u \in heap' : u \in Users(o[2], o[3])
    BY DEF Referenced
  <2>1. PICK u \in heap : u \in Users(o[2], o[3])
    BY <1>1 DEF HeapOK, Referenced
  <2>2. CASE o[2] # "ctx"
    BY <1>1, <2>1, <2>2, UserFacts
  <2>3. CASE o[2] = "ctx"
    BY <1>1, <2>1, <2>3, ContextUsers
  <2> QED
    BY <2>2, <2>3
<1> QED
  BY <1>2, <1>3, <1>4, <1>5, <1>6 DEF HeapOK
\* DropClient: one object is freed, in the order of the fields, and the client is
\* gone only when it has none left.
LEMMA HeapFreeClient ==
    ASSUME HeapOK, NEW k \in Conns, heap' = Free("client", k),
           client'[k].st = IF Objects("client", k) = {} THEN "none" ELSE "dropping",
           \A j \in Conns \ {k} : client'[j] = client[j],
           UNCHANGED <<ctx, server>>
    PROVE  HeapOK'
<1>1. /\ \A o \in heap' : o \in heap
      /\ \A o \in heap : o \in heap' \/ (o[2] = "client" /\ o[3] = k)
      /\ <<"ngtcp2_conn", "client", k>> \in heap'
           => \A kind \in {"user_data", "SSL", "conn_ref"} :
                <<kind, "client", k>> \in heap => <<kind, "client", k>> \in heap'
      /\ <<"SSL", "client", k>> \in heap'
           => \A kind \in {"slot", "SSL_CTX"} :
                <<kind, "client", k>> \in heap => <<kind, "client", k>> \in heap'
      /\ Referenced(heap')
  BY FreeInOrder
<1>2. HeapShape'
  BY <1>1 DEF HeapOK, HeapShape
<1>3. NothingLeaked'
  <2>1. \A o \in heap : o[2] = "client" /\ o[3] = k => client'[k].st # "none"
    BY DEF Objects
  <2> QED
    BY <1>1, <2>1 DEF HeapOK, HeapShape, NothingLeaked
<1>4. NothingFreedInUse'
  <2>1. \A kind, j : /\ j # k => (<<kind, "client", j>> \in heap' <=> <<kind, "client", j>> \in heap)
                     /\ <<kind, "server", j>> \in heap' <=> <<kind, "server", j>> \in heap
                     /\ <<kind, "ctx", j>> \in heap' <=> <<kind, "ctx", j>> \in heap
    BY <1>1
  <2>2. <<"SSL", "client", k>> \in heap'
          => <<"slot", "client", k>> \in heap' /\ <<"SSL_CTX", "client", k>> \in heap'
    BY <1>1, InUseIff, Zenon DEF HeapOK, InUse
  <2>3. <<"ngtcp2_conn", "client", k>> \in heap'
          => /\ <<"user_data", "client", k>> \in heap' /\ <<"SSL", "client", k>> \in heap'
             /\ <<"conn_ref", "client", k>> \in heap'
    BY <1>1, InUseIff, Zenon DEF HeapOK, InUse
  <2> QED
    BY <2>1, <2>2, <2>3, InUseIff, Zenon DEF HeapOK, InUse
<1>5. Held'
  <2>1. \A j \in Conns \ {k} : Of({"SSL", "slot", "SSL_CTX"}, "client", j) \subseteq heap
                                 => Of({"SSL", "slot", "SSL_CTX"}, "client", j) \subseteq heap'
    BY <1>1 DEF Of
  <2>2. Of({"alpn_data", "SSL_CTX", "TlsContext"}, "ctx", 0) \subseteq heap
          => Of({"alpn_data", "SSL_CTX", "TlsContext"}, "ctx", 0) \subseteq heap'
    BY <1>1 DEF Of
  <2> QED
    BY <2>1, <2>2 DEF HeapOK, Held
<1> QED
  BY <1>1, <1>2, <1>3, <1>4, <1>5 DEF HeapOK

\* DropServerConnection: likewise; the context it was made from stays.
LEMMA HeapFreeServer ==
    ASSUME HeapOK, NEW k \in Conns, heap' = Free("server", k),
           server'[k].st = IF Objects("server", k) = {} THEN "none" ELSE "dropping",
           \A j \in Conns \ {k} : server'[j] = server[j],
           UNCHANGED <<ctx, client>>
    PROVE  HeapOK'
<1>1. /\ \A o \in heap' : o \in heap
      /\ \A o \in heap : o \in heap' \/ (o[2] = "server" /\ o[3] = k)
      /\ <<"ngtcp2_conn", "server", k>> \in heap'
           => \A kind \in {"user_data", "SSL", "conn_ref"} :
                <<kind, "server", k>> \in heap => <<kind, "server", k>> \in heap'
      /\ Referenced(heap')
  BY FreeInOrder, Zenon
<1>2. HeapShape'
  BY <1>1 DEF HeapOK, HeapShape
<1>3. NothingLeaked'
  <2>1. \A o \in heap : o[2] = "server" /\ o[3] = k => server'[k].st # "none"
    BY DEF Objects
  <2> QED
    BY <1>1, <2>1 DEF HeapOK, HeapShape, NothingLeaked
<1>4. NothingFreedInUse'
  <2>1. \A kind, j : /\ j # k => (<<kind, "server", j>> \in heap' <=> <<kind, "server", j>> \in heap)
                     /\ <<kind, "client", j>> \in heap' <=> <<kind, "client", j>> \in heap
                     /\ <<kind, "ctx", j>> \in heap' <=> <<kind, "ctx", j>> \in heap
    BY <1>1
  <2>2. <<"ngtcp2_conn", "server", k>> \in heap'
          => /\ <<"user_data", "server", k>> \in heap' /\ <<"SSL", "server", k>> \in heap'
             /\ <<"conn_ref", "server", k>> \in heap'
    BY <1>1, InUseIff, Zenon DEF HeapOK, InUse
  <2> QED
    BY <1>1, <2>1, <2>2, InUseIff, Zenon DEF HeapOK, InUse
<1>5. Held'
  BY <1>1 DEF HeapOK, Held, Of
<1> QED
  BY <1>1, <1>2, <1>3, <1>4, <1>5 DEF HeapOK
-----------------------------------------------------------------------------
(* The two ends of the connections.                                        *)

EventSeqs == Seq({"EarlyDataRejected", "HandshakeCompleted"})

\* The records of TypeOK.
ClientRec ==
    [st : {"none", "session", "built", "conn", "dropping"}, id : Identities,
     name : Names \cup {"none"}, ticket : Tickets, attempted : BOOLEAN,
     early : {"none", "offered", "accepted", "rejected"}, sent : Nat,
     completed : BOOLEAN, events : EventSeqs, slot : Sessions]
ServerRec ==
    [st : {"none", "conn", "dropping"}, limit : Limits \cup {0}, context : Limits \cup {0},
     early : {"none", "accepted", "rejected"}, completed : BOOLEAN, received : BOOLEAN]

\* What TypeOK says, table by table.
LEMMA Tables ==
    /\ TypeOK <=> /\ ctx \in [st : {"none", "live", "dropped"}, early : BOOLEAN]
                  /\ client \in [Conns -> ClientRec] /\ server \in [Conns -> ServerRec]
                  /\ jar \subseteq Tickets
    /\ TypeOK' <=> /\ ctx' \in [st : {"none", "live", "dropped"}, early : BOOLEAN]
                   /\ client' \in [Conns -> ClientRec] /\ server' \in [Conns -> ServerRec]
                   /\ jar' \subseteq Tickets
BY DEF TypeOK, ClientRec, ServerRec, EventSeqs

\* A ticket is a session and parameters; no ticket is one too.
LEMMA TicketFacts ==
    /\ NoTicket \in Sessions /\ NoSession \in Tickets /\ TicketOK(NoSession)
    /\ NoIdentity \in Identities
    /\ NoClient \in ClientRec /\ NoServer \in ServerRec
<1>1. NoTicket \in Sessions
  BY DEF NoTicket, Sessions
<1>2. NoSession \in Tickets /\ TicketOK(NoSession)
  BY <1>1 DEF NoSession, Tickets, TicketOK, NoTicket
<1>3. NoIdentity \in Identities
  BY DEF NoIdentity, Identities
<1>4. NoClient \in ClientRec
  <2>1. <<>> \in EventSeqs
    BY DEF EventSeqs
  <2> QED
    BY <1>1, <1>2, <1>3, <2>1 DEF NoClient, ClientRec
<1>5. NoServer \in ServerRec
  BY DEF NoServer, ServerRec
<1> QED
  BY <1>1, <1>2, <1>3, <1>4, <1>5

\* One client changes, and perhaps the ticket the application keeps.
LEMMA ClientStep ==
    ASSUME TypeOK, EndsOK, NEW k \in Conns, NEW c \in ClientRec,
           client' = [client EXCEPT ![k] = c], UNCHANGED <<ctx, server>>,
           jar' \subseteq Tickets, \A t \in jar' : TicketOK(t),
           ClientOK(c), PairOK(c, server[k])
    PROVE  TypeOK' /\ EndsOK'
<1>1. client \in [Conns -> ClientRec]
  BY Tables
<1>2. client' \in [Conns -> ClientRec] /\ client'[k] = c /\ \A j \in Conns \ {k} : client'[j] = client[j]
  BY <1>1
<1>3. TypeOK'
  BY <1>2, Tables
<1>4. \A j \in Conns : ClientOK(client'[j]) /\ ServerOK(server'[j], ctx') /\ PairOK(client'[j], server'[j])
  BY <1>2 DEF EndsOK
<1>5. EndsOK'
  BY <1>4 DEF EndsOK
<1> QED
  BY <1>3, <1>5

\* One server connection changes.
LEMMA ServerStep ==
    ASSUME TypeOK, EndsOK, NEW k \in Conns, NEW s \in ServerRec,
           server' = [server EXCEPT ![k] = s], UNCHANGED <<ctx, client, jar>>,
           ServerOK(s, ctx), PairOK(client[k], s)
    PROVE  TypeOK' /\ EndsOK'
<1>1. server \in [Conns -> ServerRec]
  BY Tables
<1>2. server' \in [Conns -> ServerRec] /\ server'[k] = s /\ \A j \in Conns \ {k} : server'[j] = server[j]
  BY <1>1
<1>3. TypeOK'
  BY <1>2, Tables
<1>4. \A j \in Conns : ClientOK(client'[j]) /\ ServerOK(server'[j], ctx') /\ PairOK(client'[j], server'[j])
  BY <1>2 DEF EndsOK
<1>5. EndsOK'
  BY <1>4 DEF EndsOK
<1> QED
  BY <1>3, <1>5
\* set_server_name keeps an identity one, and never touches the address TLS checks.
LEMMA NameKept ==
    ASSUME NEW id \in Identities, NEW name \in Names \cup {Invalid}, NEW f \in 0..2
    PROVE  set_server_name(id, name, f) \in Identities /\ set_server_name(id, name, f).ip = id.ip
<1> DEFINE sni == [id EXCEPT !.sni = IF name \in IpNames THEN "none" ELSE name]
           all == [sni EXCEPT !.host = IF name \in IpNames THEN "none" ELSE name,
                              !.peer_ip = IF name \in IpNames THEN name ELSE "none"]
<1>1. CASE name = Invalid \/ f = 1
  BY <1>1 DEF set_server_name
<1>2. ASSUME name # Invalid
      PROVE  /\ sni \in Identities /\ sni.ip = id.ip
             /\ all \in Identities /\ all.ip = id.ip
  <2>1. (IF name \in IpNames THEN "none" ELSE name) \in Names \cup {"none"}
    BY <1>2
  <2>2. (IF name \in IpNames THEN name ELSE "none") \in IpNames \cup {"none"}
    OBVIOUS
  <2>3. sni \in Identities /\ sni.ip = id.ip
    BY <2>1 DEF Identities
  <2>4. all \in Identities /\ all.ip = sni.ip
    BY <2>1, <2>2, <2>3, Zenon DEF Identities
  <2> QED
    BY <2>3, <2>4
<1>3. ASSUME name # Invalid, f # 1
      PROVE  set_server_name(id, name, f) = sni \/ set_server_name(id, name, f) = all
  BY <1>3 DEF set_server_name
<1> QED
  BY <1>1, <1>2, <1>3, Zenon

\* The identity of a connection for name, from a session whose address is not set.
LEMMA NewIdentity ==
    ASSUME NEW id \in Identities, id.ip = "none", NEW name \in Names
    PROVE  LET new == configure_peer_ip_verification(set_server_name(id, name, 0))
           IN  new \in Identities /\ Checks(new, name)
<1> DEFINE sni == [id EXCEPT !.sni = IF name \in IpNames THEN "none" ELSE name]
           all == [sni EXCEPT !.host = IF name \in IpNames THEN "none" ELSE name,
                              !.peer_ip = IF name \in IpNames THEN name ELSE "none"]
           new == configure_peer_ip_verification(all)
<1>1. name # Invalid /\ name # "none" /\ (name \in IpNames \/ name \in DnsNames)
  BY TlsSessionsAssumption DEF Names, Invalid
<1>2. set_server_name(id, name, 0) = all
  BY <1>1 DEF set_server_name
<1>3. CASE name \in IpNames
  <2>1. sni \in Identities /\ sni.sni = "none" /\ sni.ip = "none"
    BY <1>3 DEF Identities
  <2> HIDE DEF sni
  <2>2. /\ all \in Identities /\ all.sni = "none" /\ all.host = "none"
        /\ all.peer_ip = name /\ all.ip = "none"
    BY <1>3, <2>1, Zenon DEF Identities
  <2> HIDE DEF all
  <2>3. new \in Identities /\ new.sni = "none" /\ new.host = "none" /\ new.ip = name
    BY <1>1, <1>3, <2>2 DEF Identities, configure_peer_ip_verification
  <2> QED
    BY <1>2, <1>3, <2>3 DEF Checks
<1>4. CASE name \notin IpNames
  <2>1. sni \in Identities /\ sni.sni = name /\ sni.ip = "none"
    BY <1>4 DEF Identities
  <2> HIDE DEF sni
  <2>2. /\ all \in Identities /\ all.sni = name /\ all.host = name
        /\ all.peer_ip = "none" /\ all.ip = "none"
    BY <1>4, <2>1, Zenon DEF Identities
  <2> HIDE DEF all
  <2>3. new \in Identities /\ new.sni = name /\ new.host = name /\ new.ip = "none"
    BY <2>2 DEF Identities, configure_peer_ip_verification
  <2> QED
    BY <1>2, <1>4, <2>3 DEF Checks
<1> QED
  BY <1>3, <1>4
\* A step of a living client that allocates nothing.
LEMMA ClientOnly ==
    ASSUME IndInv, NEW k \in Conns, NEW c \in ClientRec,
           client' = [client EXCEPT ![k] = c], UNCHANGED <<heap, ctx, server>>,
           jar' \subseteq Tickets, \A t \in jar' : TicketOK(t),
           ClientOK(c), PairOK(c, server[k]),
           c.st # "none", c.st = "session" => client[k].st = "session"
    PROVE  IndInv'
<1>1. TypeOK' /\ EndsOK'
  BY ClientStep, Zenon DEF IndInv
<1>2. client \in [Conns -> ClientRec]
  BY Tables DEF IndInv
<1>3. client'[k] = c /\ \A j \in Conns \ {k} : client'[j] = client[j]
  BY <1>2
<1>4. HeapOK'
  BY <1>3, HeapSame DEF IndInv
<1> QED
  BY <1>1, <1>4 DEF IndInv

\* A step of a living server connection that allocates nothing.
LEMMA ServerOnly ==
    ASSUME IndInv, NEW k \in Conns, NEW s \in ServerRec,
           server' = [server EXCEPT ![k] = s], UNCHANGED <<heap, ctx, client, jar>>,
           ServerOK(s, ctx), PairOK(client[k], s), s.st # "none"
    PROVE  IndInv'
<1>1. TypeOK' /\ EndsOK'
  BY ServerStep, Zenon DEF IndInv
<1>2. server \in [Conns -> ServerRec]
  BY Tables DEF IndInv
<1>3. server'[k] = s /\ \A j \in Conns \ {k} : server'[j] = server[j]
  BY <1>2
<1>4. HeapOK'
  BY <1>3, HeapSame DEF IndInv
<1> QED
  BY <1>1, <1>4 DEF IndInv

\* What IndInv says of one connection.
LEMMA OneConnection ==
    ASSUME IndInv, NEW k \in Conns
    PROVE  /\ client \in [Conns -> ClientRec] /\ server \in [Conns -> ServerRec]
           /\ client[k] \in ClientRec /\ server[k] \in ServerRec
           /\ ClientOK(client[k]) /\ ServerOK(server[k], ctx) /\ PairOK(client[k], server[k])
           /\ jar \subseteq Tickets /\ \A t \in jar : TicketOK(t)
           /\ ctx \in [st : {"none", "live", "dropped"}, early : BOOLEAN]
<1>1. /\ client \in [Conns -> ClientRec] /\ server \in [Conns -> ServerRec] /\ jar \subseteq Tickets
      /\ ctx \in [st : {"none", "live", "dropped"}, early : BOOLEAN]
  BY Tables DEF IndInv
<1> QED
  BY <1>1 DEF IndInv, EndsOK

\* SetServerName
LEMMA SetServerNameInv ==
    ASSUME IndInv, NEW k \in Conns, SetServerName(k)
    PROVE  IndInv'
<1>1. PICK name \in Names \cup {Invalid}, f \in 0..2 :
        client' = [client EXCEPT ![k].id = set_server_name(@, name, f)]
  BY Zenon DEF SetServerName
<1> DEFINE id == set_server_name(client[k].id, name, f)
           c == [client[k] EXCEPT !.id = id]
<1>2. client[k] \in ClientRec /\ client[k].id \in Identities
  BY OneConnection DEF ClientRec
<1>3. id \in Identities /\ id.ip = client[k].id.ip
  BY <1>2, NameKept, Zenon
<1> HIDE DEF id
<1>4. /\ c \in ClientRec /\ c.id = id /\ c.st = client[k].st /\ c.ticket = client[k].ticket
      /\ c.attempted = client[k].attempted /\ c.early = client[k].early /\ c.sent = client[k].sent
      /\ c.completed = client[k].completed /\ c.events = client[k].events /\ c.slot = client[k].slot
  BY <1>2, <1>3 DEF ClientRec
<1>5. client' = [client EXCEPT ![k] = c]
  BY <1>1, OneConnection DEF id
<1> HIDE DEF c
<1>6. client[k].st = "session" /\ ClientOK(client[k]) /\ PairOK(client[k], server[k])
  BY OneConnection DEF SetServerName
<1>7. ClientOK(c)
  BY <1>3, <1>4, <1>6 DEF ClientOK
<1>8. PairOK(c, server[k])
  BY <1>4, <1>6 DEF PairOK
<1> QED
  BY <1>4, <1>5, <1>6, <1>7, <1>8, ClientOnly, OneConnection, Zenon DEF SetServerName
\* Sequences of at most two elements.
LEMMA SmallSeqs ==
    ASSUME NEW S, NEW a \in S, NEW b \in S
    PROVE  /\ <<>> \o <<>> = <<>> /\ <<>> \o <<b>> = <<b>>
           /\ <<a>> \o <<>> = <<a>> /\ <<a>> \o <<b>> = <<a, b>>
           /\ Append(<<>>, b) = <<b>> /\ Append(<<a>>, b) = <<a, b>>
<1>1. <<>> \in Seq(S) /\ <<a>> \in Seq(S) /\ <<b>> \in Seq(S) /\ <<a, b>> \in Seq(S)
  OBVIOUS
<1>2. <<>> \o <<>> = <<>> /\ <<>> \o <<b>> = <<b>> /\ <<a>> \o <<>> = <<a>>
  BY <1>1, ConcatEmptySeq
<1>3. ASSUME NEW s \in Seq(S), Len(s) = 2, s[1] = a, s[2] = b
      PROVE  s = <<a, b>>
  <2>1. PICK t : t = <<a, b>>
    BY Zenon
  <2>2. t \in Seq(S) /\ Len(t) = 2 /\ t[1] = a /\ t[2] = b
    BY <2>1
  <2>3. Len(s) = Len(t) /\ \A i \in 1..Len(s) : s[i] = t[i]
    BY <1>3, <2>2
  <2>4. s = t
    BY <2>2, <2>3, SeqEqual
  <2> QED
    BY <2>1, <2>4
<1>4. <<a>> \o <<b>> = <<a, b>>
  <2> DEFINE s == <<a>> \o <<b>>
  <2>1. s \in Seq(S) /\ Len(s) = 2 /\ s[1] = a /\ s[2] = b
    BY <1>1, ConcatProperties
  <2> HIDE DEF s
  <2>2. s = <<a, b>>
    BY <1>3, <2>1
  <2> QED
    BY <2>2 DEF s
<1>5. Append(<<>>, b) = <<b>>
  BY <1>1
<1>6. Append(<<a>>, b) = <<a, b>>
  <2> DEFINE s == Append(<<a>>, b)
  <2>1. s \in Seq(S) /\ Len(s) = 2 /\ s[1] = a /\ s[2] = b
    BY <1>1
  <2> HIDE DEF s
  <2>2. s = <<a, b>>
    BY <1>3, <2>1
  <2> QED
    BY <2>2 DEF s
<1> QED
  BY <1>2, <1>4, <1>5, <1>6

\* The event queues a client can have.
LEMMA Events ==
    /\ \A early \in {"none", "offered", "accepted"} :
         Reported(early, FALSE) = <<>> /\ Reported(early, TRUE) = <<"HandshakeCompleted">>
    /\ Reported("rejected", FALSE) = <<"EarlyDataRejected">>
    /\ Reported("rejected", TRUE) = <<"EarlyDataRejected", "HandshakeCompleted">>
    /\ tls_early_data_rejected(<<>>) = <<"EarlyDataRejected">>
    /\ tls_early_data_rejected(<<"EarlyDataRejected">>) = <<"EarlyDataRejected">>
    /\ Append(<<>>, "HandshakeCompleted") = <<"HandshakeCompleted">>
    /\ Append(<<"EarlyDataRejected">>, "HandshakeCompleted")
         = <<"EarlyDataRejected", "HandshakeCompleted">>
    /\ <<>> \in EventSeqs /\ <<"EarlyDataRejected">> \in EventSeqs
    /\ <<"HandshakeCompleted">> \in EventSeqs
    /\ <<"EarlyDataRejected", "HandshakeCompleted">> \in EventSeqs
<1>0. PICK a : a = "EarlyDataRejected"
  OBVIOUS
<1>1. PICK b : b = "HandshakeCompleted"
  OBVIOUS
<1>2. /\ <<>> \o <<>> = <<>> /\ <<>> \o <<b>> = <<b>>
      /\ <<a>> \o <<>> = <<a>> /\ <<a>> \o <<b>> = <<a, b>>
      /\ Append(<<>>, b) = <<b>> /\ Append(<<a>>, b) = <<a, b>>
  <2>1. a \in {a, b} /\ b \in {a, b}
    OBVIOUS
  <2> QED
    BY <2>1, SmallSeqs, Zenon
<1>3. \A early \in {"none", "offered", "accepted"} :
        Reported(early, FALSE) = <<>> /\ Reported(early, TRUE) = <<"HandshakeCompleted">>
  BY <1>0, <1>1, <1>2, Zenon DEF Reported
<1>4. /\ Reported("rejected", FALSE) = <<"EarlyDataRejected">>
      /\ Reported("rejected", TRUE) = <<"EarlyDataRejected", "HandshakeCompleted">>
  BY <1>0, <1>1, <1>2 DEF Reported
<1>5. /\ tls_early_data_rejected(<<>>) = <<"EarlyDataRejected">>
      /\ tls_early_data_rejected(<<"EarlyDataRejected">>) = <<"EarlyDataRejected">>
  BY DEF tls_early_data_rejected
<1>6. /\ Append(<<>>, "HandshakeCompleted") = <<"HandshakeCompleted">>
      /\ Append(<<"EarlyDataRejected">>, "HandshakeCompleted")
           = <<"EarlyDataRejected", "HandshakeCompleted">>
  BY <1>0, <1>1, <1>2
<1>7. /\ <<>> \in EventSeqs /\ <<"EarlyDataRejected">> \in EventSeqs
      /\ <<"HandshakeCompleted">> \in EventSeqs
      /\ <<"EarlyDataRejected", "HandshakeCompleted">> \in EventSeqs
  BY DEF EventSeqs
<1> QED
  BY <1>3, <1>4, <1>5, <1>6, <1>7, Zenon

\* SendHello
LEMMA SendHelloInv ==
    ASSUME IndInv, NEW k \in Conns, SendHello(k)
    PROVE  IndInv'
<1> DEFINE early == IF client[k].attempted THEN "offered" ELSE "none"
           c == [client[k] EXCEPT !.st = "conn", !.id = NoIdentity, !.name = "none", !.early = early]
<1>1. client[k] \in ClientRec /\ ClientOK(client[k]) /\ PairOK(client[k], server[k])
  BY OneConnection
<1>2. client[k].st = "built"
  BY DEF SendHello
<1>3. early \in {"none", "offered"} /\ client[k].attempted \in BOOLEAN
  BY <1>1 DEF ClientRec
<1>4. /\ c \in ClientRec /\ c.st = "conn" /\ c.ticket = client[k].ticket
      /\ c.attempted = client[k].attempted /\ c.early = early /\ c.sent = client[k].sent
      /\ c.completed = client[k].completed /\ c.events = client[k].events /\ c.slot = client[k].slot
  BY <1>1, <1>3, TicketFacts, Zenon DEF ClientRec
<1>5. client' = [client EXCEPT ![k] = c]
  BY OneConnection, Zenon DEF SendHello
<1> HIDE DEF c
<1>6. ClientOK(c)
  <2>1. c.events = Reported(c.early, FALSE)
    BY <1>1, <1>2, <1>3, <1>4, Events, Zenon DEF ClientOK
  <2>2. c.completed = FALSE
    BY <1>1, <1>2, <1>4 DEF ClientOK, ClientRec
  <2> QED
    BY <1>1, <1>2, <1>4, <2>1, <2>2, Zenon DEF ClientOK
<1>7. PairOK(c, server[k])
  BY <1>1, <1>2 DEF PairOK
<1> QED
  BY <1>4, <1>5, <1>6, <1>7, ClientOnly, OneConnection, Zenon DEF SendHello

\* EarlyWrite
LEMMA EarlyWriteInv ==
    ASSUME IndInv, NEW k \in Conns, EarlyWrite(k)
    PROVE  IndInv'
<1> DEFINE c == [client[k] EXCEPT !.sent = client[k].sent + 1]
<1>1. client[k] \in ClientRec /\ ClientOK(client[k]) /\ PairOK(client[k], server[k])
  BY OneConnection
<1>2. /\ client[k].st = "conn" /\ client[k].sent < client[k].ticket.params
      /\ client[k].sent \in Nat /\ client[k].ticket.params \in Nat
  BY <1>1, TlsSessionsAssumption DEF EarlyWrite, ClientRec, Tickets
<1>3. /\ c \in ClientRec /\ c.st = "conn" /\ c.ticket = client[k].ticket
      /\ c.attempted = client[k].attempted /\ c.early = client[k].early
      /\ c.sent = client[k].sent + 1
      /\ c.completed = client[k].completed /\ c.events = client[k].events /\ c.slot = client[k].slot
  BY <1>1, <1>2 DEF ClientRec
<1>4. client' = [client EXCEPT ![k] = c]
  BY OneConnection DEF EarlyWrite
<1> HIDE DEF c
<1>5. c.sent <= c.ticket.params
  BY <1>2, <1>3
<1>6. ClientOK(c)
  BY <1>1, <1>2, <1>3, <1>5 DEF ClientOK
<1>7. PairOK(c, server[k])
  BY <1>1, <1>2, <1>3 DEF PairOK
<1> QED
  BY <1>3, <1>4, <1>6, <1>7, ClientOnly, OneConnection, Zenon DEF EarlyWrite

\* EarlyDataRejected
LEMMA EarlyDataRejectedInv ==
    ASSUME IndInv, NEW k \in Conns, EarlyDataRejected(k)
    PROVE  IndInv'
<1> DEFINE c == [client[k] EXCEPT !.early = "rejected",
                                  !.events = tls_early_data_rejected(client[k].events)]
<1>1. client[k] \in ClientRec /\ ClientOK(client[k]) /\ PairOK(client[k], server[k])
  BY OneConnection
<1>2. /\ client[k].st = "conn" /\ client[k].early = "offered"
      /\ server[k].st = "conn" /\ server[k].early = "rejected"
  BY DEF EarlyDataRejected
<1>3. client[k].completed = FALSE /\ client[k].attempted
  BY <1>1, <1>2 DEF ClientOK, ClientRec
<1>4. client[k].events = <<>> /\ tls_early_data_rejected(client[k].events) = <<"EarlyDataRejected">>
  BY <1>1, <1>2, <1>3, Events, Zenon DEF ClientOK
<1>5. /\ c \in ClientRec /\ c.st = "conn" /\ c.ticket = client[k].ticket
      /\ c.attempted = client[k].attempted /\ c.early = "rejected" /\ c.sent = client[k].sent
      /\ c.completed = FALSE /\ c.events = <<"EarlyDataRejected">> /\ c.slot = client[k].slot
  BY <1>1, <1>2, <1>3, <1>4, Events, Zenon DEF ClientRec
<1>6. client' = [client EXCEPT ![k] = c]
  BY OneConnection, Zenon DEF EarlyDataRejected
<1> HIDE DEF c
<1>7. ClientOK(c)
  BY <1>1, <1>2, <1>3, <1>5, Events, Zenon DEF ClientOK
<1>8. PairOK(c, server[k])
  BY <1>1, <1>2, <1>5 DEF PairOK
<1> QED
  BY <1>5, <1>6, <1>7, <1>8, ClientOnly, OneConnection, Zenon DEF EarlyDataRejected
\* ClientCompletes: whether or not the rejection was reported before, it is reported
\* once and before the completion.
LEMMA ClientCompletesInv ==
    ASSUME IndInv, NEW k \in Conns, ClientCompletes(k)
    PROVE  IndInv'
<1> DEFINE answer == server[k].early
           events == handshake_completed(client[k], answer)
           c == [client[k] EXCEPT !.completed = TRUE, !.early = answer, !.events = events]
<1>1. /\ client[k] \in ClientRec /\ ClientOK(client[k]) /\ PairOK(client[k], server[k])
      /\ server[k] \in ServerRec
  BY OneConnection
<1>2. client[k].st = "conn" /\ ~client[k].completed /\ server[k].st = "conn"
  BY DEF ClientCompletes
<1>3. /\ answer \in {"none", "accepted", "rejected"} /\ (answer = "none" <=> ~client[k].attempted)
      /\ client[k].completed = FALSE /\ client[k].attempted \in BOOLEAN
  BY <1>1, <1>2 DEF PairOK, ServerRec, ClientRec
<1>4. client[k].events = Reported(client[k].early, FALSE)
  BY <1>1, <1>2, <1>3, Zenon DEF ClientOK
<1>5. events = Reported(answer, TRUE)
  <2>1. CASE answer = "none"
    <3>1. ~client[k].attempted /\ client[k].early = "none"
      BY <1>1, <1>2, <1>3, <2>1 DEF ClientOK
    <3>2. client[k].events = <<>>
      BY <1>4, <3>1, Events, Zenon
    <3>3. events = Append(<<>>, "HandshakeCompleted")
      BY <3>1, <3>2 DEF handshake_completed
    <3> QED
      BY <2>1, <3>3, Events, Zenon
  <2>2. CASE answer = "accepted"
    <3>1. client[k].attempted /\ client[k].early = "offered"
      BY <1>1, <1>2, <1>3, <2>2 DEF ClientOK, PairOK
    <3>2. client[k].events = <<>>
      BY <1>4, <3>1, Events, Zenon
    <3>3. events = Append(<<>>, "HandshakeCompleted")
      BY <2>2, <3>2 DEF handshake_completed
    <3> QED
      BY <2>2, <3>3, Events, Zenon
  <2>3. CASE answer = "rejected"
    <3>1. client[k].attempted /\ (client[k].early = "offered" \/ client[k].early = "rejected")
      BY <1>1, <1>2, <1>3, <2>3 DEF ClientOK
    <3>2. tls_early_data_rejected(client[k].events) = <<"EarlyDataRejected">>
      BY <1>4, <3>1, Events, Zenon
    <3>3. events = Append(<<"EarlyDataRejected">>, "HandshakeCompleted")
      BY <2>3, <3>1, <3>2 DEF handshake_completed
    <3> QED
      BY <2>3, <3>3, Events, Zenon
  <2> QED
    BY <1>3, <2>1, <2>2, <2>3, Zenon
<1>6. events \in EventSeqs
  BY <1>3, <1>5, Events, Zenon
<1> HIDE DEF events
<1>7. /\ c \in ClientRec /\ c.st = "conn" /\ c.ticket = client[k].ticket
      /\ c.attempted = client[k].attempted /\ c.early = answer /\ c.sent = client[k].sent
      /\ c.completed = TRUE /\ c.events = events /\ c.slot = client[k].slot
  BY <1>1, <1>2, <1>3, <1>6, Zenon DEF ClientRec
<1>8. client' = [client EXCEPT ![k] = c]
  BY OneConnection, Zenon DEF ClientCompletes, events
<1> HIDE DEF c
<1>9. ClientOK(c)
  BY <1>1, <1>3, <1>5, <1>7, Zenon DEF ClientOK
<1>10. PairOK(c, server[k])
  BY <1>1, <1>2, <1>7 DEF PairOK
<1> QED
  BY <1>7, <1>8, <1>9, <1>10, ClientOnly, OneConnection, Zenon DEF ClientCompletes

\* NewSessionTicket: the ticket carries the limit of the server connection, unless
\* the server does not accept 0-RTT, when it is as good as none.
LEMMA NewSessionTicketInv ==
    ASSUME IndInv, NEW k \in Conns, NewSessionTicket(k)
    PROVE  IndInv'
<1> DEFINE slot == [early |-> ctx.early, context |-> server[k].context]
           c == [client[k] EXCEPT !.slot = slot]
<1>1. /\ client[k] \in ClientRec /\ ClientOK(client[k]) /\ PairOK(client[k], server[k])
      /\ server[k] \in ServerRec /\ ServerOK(server[k], ctx) /\ ctx.early \in BOOLEAN
  BY OneConnection
<1>2. client[k].st = "conn" /\ client[k].completed /\ server[k].st = "conn"
  BY DEF NewSessionTicket
<1>3. slot \in Sessions /\ (slot # NoTicket => slot.context = server[k].limit)
  BY <1>1, <1>2, Zenon DEF ServerOK, ServerRec, Sessions, NoTicket
<1> HIDE DEF slot
<1>4. /\ c \in ClientRec /\ c.st = "conn" /\ c.ticket = client[k].ticket
      /\ c.attempted = client[k].attempted /\ c.early = client[k].early /\ c.sent = client[k].sent
      /\ c.completed = client[k].completed /\ c.events = client[k].events /\ c.slot = slot
  BY <1>1, <1>2, <1>3, Zenon DEF ClientRec
<1>5. client' = [client EXCEPT ![k] = c]
  BY OneConnection DEF NewSessionTicket, slot
<1> HIDE DEF c
<1>6. ClientOK(c)
  BY <1>1, <1>2, <1>4, Zenon DEF ClientOK
<1>7. PairOK(c, server[k])
  BY <1>1, <1>2, <1>3, <1>4 DEF PairOK
<1> QED
  BY <1>4, <1>5, <1>6, <1>7, ClientOnly, OneConnection, Zenon DEF NewSessionTicket

\* TakeSessionTicket: the slot is still of the server connection whose parameters
\* are encoded.
LEMMA TakeSessionTicketInv ==
    ASSUME IndInv, NEW k \in Conns, TakeSessionTicket(k)
    PROVE  IndInv'
<1> DEFINE c == [client[k] EXCEPT !.slot = NoTicket]
           t == [session |-> client[k].slot, params |-> server[k].limit]
<1>1. /\ client[k] \in ClientRec /\ ClientOK(client[k]) /\ PairOK(client[k], server[k])
      /\ server[k] \in ServerRec /\ ServerOK(server[k], ctx)
      /\ jar \subseteq Tickets /\ \A u \in jar : TicketOK(u)
  BY OneConnection
<1>2. client[k].st = "conn" /\ client[k].slot # NoTicket /\ server[k].limit # 0
  BY DEF TakeSessionTicket
<1>3. server[k].st = "conn"
  BY <1>1, <1>2 DEF ServerOK
<1>4. t \in Tickets /\ TicketOK(t)
  BY <1>1, <1>2, <1>3 DEF PairOK, TicketOK, Tickets, ClientRec, ServerRec
<1>5. jar' = jar \/ jar' = {t}
  BY DEF TakeSessionTicket, ticket_params
<1> HIDE DEF t
<1>6. jar' \subseteq Tickets /\ \A u \in jar' : TicketOK(u)
  BY <1>1, <1>4, <1>5
<1>7. /\ c \in ClientRec /\ c.st = "conn" /\ c.ticket = client[k].ticket
      /\ c.attempted = client[k].attempted /\ c.early = client[k].early /\ c.sent = client[k].sent
      /\ c.completed = client[k].completed /\ c.events = client[k].events /\ c.slot = NoTicket
  BY <1>1, <1>2, TicketFacts DEF ClientRec
<1>8. client' = [client EXCEPT ![k] = c]
  BY OneConnection DEF TakeSessionTicket
<1> HIDE DEF c
<1>9. ClientOK(c)
  BY <1>1, <1>2, <1>7 DEF ClientOK
<1>10. PairOK(c, server[k])
  BY <1>1, <1>2, <1>7 DEF PairOK
<1> QED
  BY <1>6, <1>7, <1>8, <1>9, <1>10, ClientOnly, Zenon DEF TakeSessionTicket
\* EarlyDataArrives and ServerCompletes only note what happened.
LEMMA ServerNotesInv ==
    ASSUME IndInv, NEW k \in Conns, EarlyDataArrives(k) \/ ServerCompletes(k)
    PROVE  IndInv'
<1>1. /\ server[k] \in ServerRec /\ ServerOK(server[k], ctx) /\ PairOK(client[k], server[k])
      /\ server \in [Conns -> ServerRec]
  BY OneConnection
<1>2. PICK s \in ServerRec : /\ server' = [server EXCEPT ![k] = s]
                             /\ s.st = server[k].st /\ s.limit = server[k].limit
                             /\ s.context = server[k].context /\ s.early = server[k].early
  <2>1. CASE EarlyDataArrives(k)
    <3> DEFINE s == [server[k] EXCEPT !.received = TRUE]
    <3>1. s \in ServerRec /\ s.st = server[k].st /\ s.limit = server[k].limit
             /\ s.context = server[k].context /\ s.early = server[k].early
      BY <1>1, Zenon DEF ServerRec
    <3>2. server' = [server EXCEPT ![k] = s]
      BY <1>1, <2>1 DEF EarlyDataArrives
    <3> QED
      BY <3>1, <3>2, Zenon
  <2>2. CASE ServerCompletes(k)
    <3> DEFINE s == [server[k] EXCEPT !.completed = TRUE]
    <3>1. s \in ServerRec /\ s.st = server[k].st /\ s.limit = server[k].limit
             /\ s.context = server[k].context /\ s.early = server[k].early
      BY <1>1, Zenon DEF ServerRec
    <3>2. server' = [server EXCEPT ![k] = s]
      BY <1>1, <2>2 DEF ServerCompletes
    <3> QED
      BY <3>1, <3>2, Zenon
  <2> QED
    BY <2>1, <2>2
<1>3. server[k].st = "conn" /\ UNCHANGED <<heap, ctx, client, jar>>
  BY DEF EarlyDataArrives, ServerCompletes
<1>4. ServerOK(s, ctx) /\ PairOK(client[k], s)
  BY <1>1, <1>2 DEF ServerOK, PairOK
<1> QED
  BY <1>2, <1>3, <1>4, ServerOnly, Zenon

\* The steps that change nothing.
LEMMA NothingChanges ==
    ASSUME IndInv, UNCHANGED vars
    PROVE  IndInv'
BY DEF vars, IndInv, TypeOK, EndsOK, HeapOK, HeapShape, NothingLeaked, NothingFreedInUse, Held, Of

\* CreateClient
LEMMA CreateClientInv ==
    ASSUME IndInv, NEW k \in Conns, CreateClient(k)
    PROVE  IndInv'
<1> DEFINE K == Left(new_client_with_options, 0) \cup Left(create_session("client"), 0)
           c == [client[k] EXCEPT !.st = "session"]
<1>1. /\ client[k] \in ClientRec /\ ClientOK(client[k]) /\ PairOK(client[k], server[k])
      /\ client \in [Conns -> ClientRec]
      /\ jar \subseteq Tickets /\ \A t \in jar : TicketOK(t)
  BY OneConnection
<1>2. client[k].st = "none" /\ server[k].st = "none" /\ UNCHANGED <<ctx, server, jar>>
  BY DEF CreateClient
<1>3. \/ heap' = heap /\ client' = client
      \/ heap' = heap \cup Of(K, "client", k) /\ client' = [client EXCEPT ![k].st = "session"]
  <2>1. ASSUME NEW f \in 1..Len(new_client_with_options)
        PROVE  heap \cup Of(Left(new_client_with_options, f), Lost, k) = heap
    BY ClientContextLeft, NothingOf, Zenon
  <2>2. ASSUME NEW f \in 1..Len(create_session("client"))
        PROVE  heap \cup Of(Left(create_session("client"), f), Lost, k) = heap
    BY SessionLeft, NothingOf, Zenon
  <2> QED
    BY <2>1, <2>2, Zenon DEF CreateClient
<1>4. CASE heap' = heap /\ client' = client
  BY <1>2, <1>4, NothingChanges, Zenon DEF vars
<1>5. CASE heap' = heap \cup Of(K, "client", k) /\ client' = [client EXCEPT ![k].st = "session"]
  <2>1. \A x : x \in K <=> x \in {"SSL_CTX", "TlsContext", "SSL", "slot"}
    BY ClientContextLeft, SessionLeft
  <2> HIDE DEF K
  <2>2. /\ c \in ClientRec /\ c.st = "session" /\ c.id = client[k].id /\ c.ticket = client[k].ticket
        /\ c.attempted = client[k].attempted /\ c.early = client[k].early /\ c.sent = client[k].sent
        /\ c.completed = client[k].completed /\ c.events = client[k].events
        /\ c.slot = client[k].slot
    BY <1>1 DEF ClientRec
  <2>3. client' = [client EXCEPT ![k] = c]
    BY <1>1, <1>5
  <2> HIDE DEF c
  <2>4. ClientOK(c)
    BY <1>1, <1>2, <2>2 DEF ClientOK
  <2>5. PairOK(c, server[k])
    BY <1>2 DEF PairOK
  <2>6. TypeOK' /\ EndsOK'
    BY <1>1, <1>2, <2>2, <2>3, <2>4, <2>5, ClientStep, Zenon DEF IndInv
  <2>7. client'[k].st = "session" /\ \A j \in Conns \ {k} : client'[j] = client[j]
    BY <1>1, <2>2, <2>3
  <2>8. HeapOK'
    BY <1>2, <1>5, <2>1, <2>7, HeapCreateClient DEF IndInv
  <2> QED
    BY <2>6, <2>8 DEF IndInv
<1> QED
  BY <1>3, <1>4, <1>5
\* ClientNew: 0-RTT is attempted with the limits of the ticket, and the identity is
\* the one of the name.
LEMMA ClientNewInv ==
    ASSUME IndInv, NEW k \in Conns, ClientNew(k)
    PROVE  IndInv'
<1>1. PICK name \in Names, t \in jar \cup {NoSession} :
        client' = [client EXCEPT
             ![k].st = "built", ![k].name = name, ![k].ticket = t,
             ![k].id = configure_peer_ip_verification(set_server_name(@, name, 0)),
             ![k].attempted = set_session(t)]
  BY Zenon DEF ClientNew
<1> DEFINE id == configure_peer_ip_verification(set_server_name(client[k].id, name, 0))
           c == [client[k] EXCEPT !.st = "built", !.name = name, !.ticket = t, !.id = id,
                                  !.attempted = set_session(t)]
           K == Left(finish_new(FALSE), 0) \cup Boxes
<1>2. /\ client[k] \in ClientRec /\ ClientOK(client[k]) /\ PairOK(client[k], server[k])
      /\ client \in [Conns -> ClientRec]
      /\ jar \subseteq Tickets /\ \A u \in jar : TicketOK(u)
  BY OneConnection
<1>3. client[k].st = "session" /\ UNCHANGED <<ctx, server, jar>> /\ heap' = heap \cup Of(K, "client", k)
  BY DEF ClientNew
<1>4. t \in Tickets /\ TicketOK(t) /\ t.params \in Nat
  <2>1. t \in Tickets /\ TicketOK(t)
    BY <1>2, TicketFacts
  <2>2. t.params \in Limits \cup {0}
    BY <2>1 DEF Tickets
  <2>3. \A x \in Limits \cup {0} : x \in Nat
    BY TlsSessionsAssumption
  <2> QED
    BY <2>1, <2>2, <2>3
<1>5. set_session(t) \in BOOLEAN
  BY <1>4 DEF set_session, Tickets, Sessions
<1>6. client[k].id \in Identities /\ client[k].id.ip = "none"
  BY <1>2, <1>3 DEF ClientOK, ClientRec
<1>7. id \in Identities /\ Checks(id, name)
  BY <1>6, NewIdentity
<1> HIDE DEF id
<1>8. /\ c \in ClientRec /\ c.st = "built" /\ c.id = id /\ c.name = name /\ c.ticket = t
      /\ c.early = client[k].early /\ c.sent = client[k].sent
      /\ c.completed = client[k].completed /\ c.events = client[k].events /\ c.slot = client[k].slot
  BY <1>2, <1>4, <1>5, <1>7, Zenon DEF ClientRec
<1>9. client' = [client EXCEPT ![k] = c]
  BY <1>1, <1>2, Zenon DEF id
<1> HIDE DEF c
<1>10. ClientOK(c)
  <2>1. c.sent = 0 /\ c.early = "none" /\ ~c.completed /\ c.events = <<>>
    BY <1>2, <1>3, <1>8 DEF ClientOK
  <2> QED
    BY <1>2, <1>4, <1>7, <1>8, <2>1 DEF ClientOK
<1>11. PairOK(c, server[k])
  BY <1>2, <1>3 DEF PairOK
<1>12. TypeOK' /\ EndsOK'
  BY <1>2, <1>3, <1>8, <1>9, <1>10, <1>11, ClientStep, Zenon DEF IndInv
<1>13. client'[k].st = "built" /\ \A j \in Conns \ {k} : client'[j] = client[j]
  BY <1>2, <1>8, <1>9
<1>14. \A x : x \in K <=> x \in {"ngtcp2_conn", "user_data", "conn_ref"}
  BY ConnectionLeft, Zenon DEF Boxes
<1> HIDE DEF K
<1>15. HeapOK'
  BY <1>3, <1>13, <1>14, HeapClientNew DEF IndInv
<1> QED
  BY <1>12, <1>15 DEF IndInv

\* A client that is gone, or going, has nothing to answer for.
LEMMA GoneClient ==
    ASSUME NEW c, c = NoClient \/ c = [NoClient EXCEPT !.st = "dropping"], NEW s
    PROVE  c \in ClientRec /\ ClientOK(c) /\ PairOK(c, s) /\ c.st \in {"none", "dropping"}
<1>1. /\ c \in ClientRec /\ c.st \in {"none", "dropping"} /\ c.id = NoIdentity
      /\ c.ticket = NoSession /\ c.early = "none" /\ c.sent = 0 /\ c.completed = FALSE
      /\ c.events = <<>> /\ c.slot = NoTicket
  <2>1. /\ NoClient \in ClientRec /\ NoClient.st = "none" /\ NoClient.id = NoIdentity
        /\ NoClient.ticket = NoSession /\ NoClient.early = "none" /\ NoClient.sent = 0
        /\ NoClient.completed = FALSE /\ NoClient.events = <<>> /\ NoClient.slot = NoTicket
    BY TicketFacts DEF NoClient
  <2>2. CASE c = NoClient
    BY <2>1, <2>2
  <2>3. CASE c = [NoClient EXCEPT !.st = "dropping"]
    BY <2>1, <2>3 DEF ClientRec
  <2> QED
    BY <2>2, <2>3, Zenon
<1>2. NoIdentity.ip = "none" /\ NoSession.params = 0
  BY DEF NoIdentity, NoSession
<1>3. ClientOK(c)
  BY <1>1, <1>2, TicketFacts DEF ClientOK
<1>4. PairOK(c, s)
  BY <1>1 DEF PairOK
<1> QED
  BY <1>1, <1>3, <1>4

\* ClientNewFails
LEMMA ClientNewFailsInv ==
    ASSUME IndInv, NEW k \in Conns, ClientNewFails(k)
    PROVE  IndInv'
<1>1. /\ client \in [Conns -> ClientRec]
      /\ jar \subseteq Tickets /\ \A u \in jar : TicketOK(u)
  BY OneConnection
<1>2. client' = [client EXCEPT ![k] = NoClient] /\ UNCHANGED <<ctx, server, jar>>
  BY DEF ClientNewFails
<1>3. heap' = Dropped(k)
  <2>1. ASSUME NEW f \in 1..Len(finish_new(FALSE))
        PROVE  Dropped(k) \cup Of(Left(finish_new(FALSE), f), Lost, k) = Dropped(k)
    BY ConnectionLeft, NothingOf, Zenon
  <2> QED
    BY <2>1, Zenon DEF ClientNewFails
<1>4. NoClient \in ClientRec /\ ClientOK(NoClient) /\ PairOK(NoClient, server[k])
  BY GoneClient
<1>5. TypeOK' /\ EndsOK'
  BY <1>1, <1>2, <1>4, ClientStep, Zenon DEF IndInv
<1>6. client'[k].st = "none" /\ \A j \in Conns \ {k} : client'[j] = client[j]
  BY <1>1, <1>2 DEF NoClient
<1>7. HeapOK'
  BY <1>2, <1>3, <1>6, HeapClientGone DEF IndInv
<1> QED
  BY <1>5, <1>7 DEF IndInv

\* A new context, while no server connection exists; nothing else changes.
LEMMA EndsContext ==
    ASSUME TypeOK, EndsOK, UNCHANGED <<client, server, jar>>,
           ctx' \in [st : {"none", "live", "dropped"}, early : BOOLEAN],
           \/ ctx'.st # "none" /\ ctx'.early = ctx.early
           \/ \A k \in Conns : server[k].st = "none"
    PROVE  TypeOK' /\ EndsOK'
<1>1. TypeOK'
  BY Tables
<1>2. \A k \in Conns : ServerOK(server[k], ctx')
  BY DEF EndsOK, ServerOK
<1> QED
  BY <1>1, <1>2 DEF EndsOK

\* NewServerContext
LEMMA NewServerContextInv ==
    ASSUME IndInv, NewServerContext
    PROVE  IndInv'
<1> DEFINE K == Left(new_server, 0)
<1>1. ctx.st = "none" /\ UNCHANGED <<client, server, jar>>
  BY DEF NewServerContext
<1>2. \A k \in Conns : server[k].st = "none"
  BY <1>1 DEF IndInv, EndsOK, ServerOK
<1>3. CASE \E f \in 1..(Len(new_server) - 1) :
             /\ heap' = heap \cup Of(Left(new_server, f), Lost, IF f \in PathSteps THEN "path" ELSE "other")
             /\ UNCHANGED ctx
  <2>1. PICK f \in 1..(Len(new_server) - 1) :
          /\ heap' = heap \cup Of(Left(new_server, f), Lost, IF f \in PathSteps THEN "path" ELSE "other")
          /\ UNCHANGED ctx
    BY <1>3
  <2>2. Left(new_server, f) = IF f \in PathSteps THEN {"SSL_CTX"} ELSE {}
    BY ServerContextLeft
  <2>3. CASE f \in PathSteps
    <3>1. PICK L : L = {"SSL_CTX"}
      BY Zenon
    <3>2. \A x : x \in L <=> x = "SSL_CTX"
      BY <3>1
    <3>3. heap' = heap \cup Of(L, Lost, "path")
      BY <2>1, <2>2, <2>3, <3>1
    <3>4. HeapOK'
      <4>1. UNCHANGED <<ctx, client, server>> /\ HeapOK
        BY <1>1, <2>1 DEF IndInv
      <4> QED
        BY <3>2, <3>3, <4>1, HeapPathFails
    <3>5. TypeOK' /\ EndsOK'
      BY <1>1, <2>1 DEF IndInv, TypeOK, EndsOK
    <3> QED
      BY <3>4, <3>5 DEF IndInv
  <2>4. CASE f \notin PathSteps
    <3>1. heap' = heap
      BY <2>1, <2>2, <2>4, NothingOf
    <3> QED
      BY <1>1, <2>1, <3>1, NothingChanges DEF vars
  <2> QED
    BY <2>3, <2>4
<1>4. CASE \E early \in BOOLEAN :
             /\ ctx' = [st |-> "live", early |-> early]
             /\ heap' = heap \cup Of(Left(new_server, 0), "ctx", 0)
  <2>1. \A x : x \in K <=> x \in {"SSL_CTX", "alpn_data", "TlsContext"}
    BY ServerContextLeft
  <2>2. ctx' \in [st : {"none", "live", "dropped"}, early : BOOLEAN] /\ ctx'.st = "live"
    BY <1>4
  <2>3. heap' = heap \cup Of(K, "ctx", 0)
    BY <1>4
  <2> HIDE DEF K
  <2>4. HeapOK'
    BY <1>1, <2>1, <2>2, <2>3, HeapNewContext DEF IndInv
  <2>5. TypeOK' /\ EndsOK'
    BY <1>1, <1>2, <2>2, EndsContext DEF IndInv
  <2> QED
    BY <2>4, <2>5 DEF IndInv
<1> QED
  BY <1>3, <1>4 DEF NewServerContext

\* DropServer and DropContext: a server connection outlives the Server, not the
\* context.
LEMMA DropServerInv ==
    ASSUME IndInv, DropServer \/ DropContext
    PROVE  IndInv'
<1>1. ctx \in [st : {"none", "live", "dropped"}, early : BOOLEAN]
  BY Tables DEF IndInv
<1>2. CASE DropServer
  <2>1. /\ ctx' \in [st : {"none", "live", "dropped"}, early : BOOLEAN]
        /\ ctx'.st = "dropped" /\ ctx'.early = ctx.early /\ ctx.st = "live"
    BY <1>1, <1>2 DEF DropServer
  <2>2. UNCHANGED <<heap, client, server, jar>>
    BY <1>2 DEF DropServer
  <2>3. HeapOK'
    BY <2>1, <2>2, HeapSame DEF IndInv
  <2>4. TypeOK' /\ EndsOK'
    BY <2>1, <2>2, EndsContext DEF IndInv
  <2> QED
    BY <2>3, <2>4 DEF IndInv
<1>3. CASE DropContext
  <2>1. /\ ctx' = [st |-> "none", early |-> FALSE] /\ Holders = {}
        /\ UNCHANGED <<client, server, jar>>
        /\ heap' = Released(heap \ Of({"alpn_data", "TlsContext"}, "ctx", 0))
    BY <1>3 DEF DropContext, ContextReleased
  <2>2. /\ ctx' \in [st : {"none", "live", "dropped"}, early : BOOLEAN] /\ ctx'.st = "none"
        /\ \A k \in Conns : server[k].st = "none"
    BY <2>1 DEF Holders
  <2>3. HeapOK'
    BY <2>1, <2>2, HeapDropContext DEF IndInv
  <2>4. TypeOK' /\ EndsOK'
    BY <2>1, <2>2, EndsContext DEF IndInv
  <2> QED
    BY <2>3, <2>4 DEF IndInv
<1> QED
  BY <1>2, <1>3
\* ServerNew: 0-RTT is accepted only when the limits of the ticket are those of the
\* new connection.
LEMMA ServerNewInv ==
    ASSUME IndInv, NEW k \in Conns, ServerNew(k)
    PROVE  IndInv'
<1>1. /\ client[k] \in ClientRec /\ ClientOK(client[k]) /\ server \in [Conns -> ServerRec]
      /\ ctx.early \in BOOLEAN
  BY OneConnection
<1>2. /\ ctx.st = "live" /\ client[k].st = "conn" /\ server[k].st = "none"
      /\ ~client[k].completed /\ client[k].early # "rejected" /\ UNCHANGED <<ctx, client, jar>>
  BY Zenon DEF ServerNew
<1> DEFINE K == Left(create_session("server"), 0) \cup Left(finish_new(ctx.early), 0) \cup Boxes
<1>3. CASE heap' = heap /\ server' = server
  BY <1>2, <1>3, NothingChanges DEF vars
<1>4. ASSUME NEW limit \in Limits, NEW answer \in EarlyAnswers(k, early_data_context(limit)),
             server' = [server EXCEPT ![k] =
                 [NoServer EXCEPT !.st = "conn", !.limit = limit, !.early = answer,
                                  !.context = early_data_context(limit)]],
             heap' = heap \cup Of(K, "server", k)
      PROVE  IndInv'
  <2> DEFINE context == early_data_context(limit)
             s == [NoServer EXCEPT !.st = "conn", !.limit = limit, !.early = answer, !.context = context]
  <2>1. context = (IF ctx.early THEN limit ELSE 0) /\ context \in Limits \cup {0} /\ limit # 0
    BY TlsSessionsAssumption DEF early_data_context
  <2>2. /\ answer \in {"none", "accepted", "rejected"} /\ (answer = "none" <=> ~client[k].attempted)
        /\ answer = "accepted" => ctx.early /\ client[k].ticket.session.context = context
    BY <1>4 DEF EarlyAnswers
  <2>3. server' = [server EXCEPT ![k] = s]
    BY <1>4
  <2> HIDE DEF context
  <2>4. /\ s \in ServerRec /\ s.st = "conn" /\ s.limit = limit /\ s.early = answer
        /\ s.context = context
    BY <2>1, <2>2, TicketFacts, Zenon DEF ServerRec
  <2> HIDE DEF s
  <2>5. ServerOK(s, ctx)
    BY <1>2, <2>1, <2>4 DEF ServerOK
  <2>6. answer = "accepted" => client[k].ticket.params = limit
    BY <1>1, <2>1, <2>2 DEF ClientOK, TicketOK
  <2>7. PairOK(client[k], s)
    BY <1>1, <1>2, <2>2, <2>4, <2>6 DEF PairOK, ClientOK
  <2>8. TypeOK' /\ EndsOK'
    BY <1>2, <2>3, <2>4, <2>5, <2>7, ServerStep, Zenon DEF IndInv
  <2>9. server'[k].st = "conn" /\ \A j \in Conns \ {k} : server'[j] = server[j]
    BY <1>1, <2>3, <2>4
  <2>10. \A x : x \in K <=> x \in {"SSL", "ngtcp2_conn", "user_data", "conn_ref"}
    BY <1>1, SessionLeft, ConnectionLeft DEF Boxes
  <2> HIDE DEF K
  <2>11. HeapOK'
    BY <1>2, <1>4, <2>9, <2>10, HeapServerNew DEF IndInv
  <2> QED
    BY <2>8, <2>11 DEF IndInv
<1>5. ASSUME NEW f \in 1..Len(create_session("server"))
      PROVE  heap \cup Of(Left(create_session("server"), f), Lost, k) = heap
  BY SessionLeft, NothingOf, Zenon
<1>6. ASSUME NEW f \in 1..Len(finish_new(ctx.early))
      PROVE  heap \cup Of(Left(finish_new(ctx.early), f), Lost, k) = heap
  BY <1>1, ConnectionLeft, NothingOf, Zenon
<1> QED
  BY <1>3, <1>4, <1>5, <1>6, Zenon DEF ServerNew

\* DropClient
LEMMA DropClientInv ==
    ASSUME IndInv, NEW k \in Conns, DropClient(k)
    PROVE  IndInv'
<1> DEFINE c == IF Objects("client", k) = {} THEN NoClient ELSE [NoClient EXCEPT !.st = "dropping"]
<1>1. /\ client \in [Conns -> ClientRec]
      /\ jar \subseteq Tickets /\ \A u \in jar : TicketOK(u)
  BY OneConnection
<1>2. /\ client' = [client EXCEPT ![k] = c] /\ heap' = Free("client", k)
      /\ UNCHANGED <<ctx, server, jar>>
  BY DEF DropClient
<1>3. c.st = IF Objects("client", k) = {} THEN "none" ELSE "dropping"
  BY TicketFacts DEF NoClient
<1>4. c = NoClient \/ c = [NoClient EXCEPT !.st = "dropping"]
  OBVIOUS
<1> HIDE DEF c
<1>5. c \in ClientRec /\ ClientOK(c) /\ PairOK(c, server[k])
  BY <1>4, GoneClient
<1>6. TypeOK' /\ EndsOK'
  BY <1>1, <1>2, <1>5, ClientStep, Zenon DEF IndInv
<1>7. client'[k] = c /\ \A j \in Conns \ {k} : client'[j] = client[j]
  BY <1>1, <1>2
<1>8. HeapOK'
  BY <1>2, <1>3, <1>7, HeapFreeClient DEF IndInv
<1> QED
  BY <1>6, <1>8 DEF IndInv

\* DropServerConnection
LEMMA DropServerConnectionInv ==
    ASSUME IndInv, NEW k \in Conns, DropServerConnection(k)
    PROVE  IndInv'
<1> DEFINE s == IF Objects("server", k) = {} THEN NoServer ELSE [NoServer EXCEPT !.st = "dropping"]
<1>1. server \in [Conns -> ServerRec] /\ ServerOK(server[k], ctx) /\ server[k].st # "none"
  BY OneConnection DEF DropServerConnection
<1>2. /\ server' = [server EXCEPT ![k] = s] /\ heap' = Free("server", k)
      /\ UNCHANGED <<ctx, client, jar>>
  BY DEF DropServerConnection
<1>3. /\ s.st = IF Objects("server", k) = {} THEN "none" ELSE "dropping"
      /\ s \in ServerRec /\ s.early = "none" /\ s.limit = 0
  BY TicketFacts, Zenon DEF NoServer, ServerRec
<1> HIDE DEF s
<1>4. ServerOK(s, ctx)
  BY <1>1, <1>3 DEF ServerOK
<1>5. PairOK(client[k], s)
  BY <1>3 DEF PairOK
<1>6. TypeOK' /\ EndsOK'
  BY <1>2, <1>3, <1>4, <1>5, ServerStep, Zenon DEF IndInv
<1>7. server'[k] = s /\ \A j \in Conns \ {k} : server'[j] = server[j]
  BY <1>1, <1>2
<1>8. HeapOK'
  BY <1>2, <1>3, <1>7, HeapFreeServer DEF IndInv
<1> QED
  BY <1>6, <1>8 DEF IndInv
-----------------------------------------------------------------------------
(* The theorems.                                                           *)

\* Before anything is built the heap is empty and nobody answers for anything.
LEMMA InitInv == Init => IndInv
<1> SUFFICES ASSUME Init PROVE IndInv
  OBVIOUS
<1>1. TypeOK
  BY Tables, TicketFacts DEF Init
<1>2. \A k \in Conns : ClientOK(client[k]) /\ PairOK(client[k], server[k])
  BY GoneClient, Zenon DEF Init
<1>3. \A k \in Conns : ServerOK(server[k], ctx)
  BY Zenon DEF Init, ServerOK, NoServer
<1>4. EndsOK
  BY <1>2, <1>3 DEF EndsOK, Init
<1>5. HeapOK
  BY DEF Init, HeapOK, HeapShape, NothingLeaked, NothingFreedInUse, Held, Referenced, NoClient
<1> QED
  BY <1>1, <1>4, <1>5 DEF IndInv

\* IndInv holds in every state of every behaviour: the constructors and drops of
\* crypto.rs and conn.rs keep the heap in order, and the two ends agree on 0-RTT.
THEOREM SessionsInductive == Spec => []IndInv
<1>1. IndInv /\ [Next]_vars => IndInv'
  <2> SUFFICES ASSUME IndInv, [Next]_vars PROVE IndInv'
    OBVIOUS
  <2>1. CASE UNCHANGED vars
    BY <2>1, NothingChanges
  <2>2. CASE NewServerContext
    BY <2>2, NewServerContextInv
  <2>3. CASE DropServer \/ DropContext
    BY <2>3, DropServerInv
  <2>4. ASSUME NEW k \in Conns, CreateClient(k) PROVE IndInv'
    BY <2>4, CreateClientInv
  <2>5. ASSUME NEW k \in Conns, SetServerName(k) PROVE IndInv'
    BY <2>5, SetServerNameInv
  <2>6. ASSUME NEW k \in Conns, ClientNew(k) PROVE IndInv'
    BY <2>6, ClientNewInv
  <2>7. ASSUME NEW k \in Conns, ClientNewFails(k) PROVE IndInv'
    BY <2>7, ClientNewFailsInv
  <2>8. ASSUME NEW k \in Conns, ServerNew(k) PROVE IndInv'
    BY <2>8, ServerNewInv
  <2>9. ASSUME NEW k \in Conns, EarlyDataArrives(k) \/ ServerCompletes(k) PROVE IndInv'
    BY <2>9, ServerNotesInv
  <2>10. ASSUME NEW k \in Conns, SendHello(k) PROVE IndInv'
    BY <2>10, SendHelloInv
  <2>11. ASSUME NEW k \in Conns, EarlyWrite(k) PROVE IndInv'
    BY <2>11, EarlyWriteInv
  <2>12. ASSUME NEW k \in Conns, EarlyDataRejected(k) PROVE IndInv'
    BY <2>12, EarlyDataRejectedInv
  <2>13. ASSUME NEW k \in Conns, ClientCompletes(k) PROVE IndInv'
    BY <2>13, ClientCompletesInv
  <2>14. ASSUME NEW k \in Conns, NewSessionTicket(k) PROVE IndInv'
    BY <2>14, NewSessionTicketInv
  <2>15. ASSUME NEW k \in Conns, TakeSessionTicket(k) PROVE IndInv'
    BY <2>15, TakeSessionTicketInv
  <2>16. ASSUME NEW k \in Conns, DropClient(k) PROVE IndInv'
    BY <2>16, DropClientInv
  <2>17. ASSUME NEW k \in Conns, DropServerConnection(k) PROVE IndInv'
    BY <2>17, DropServerConnectionInv
  <2> QED
    BY <2>1, <2>2, <2>3, <2>4, <2>5, <2>6, <2>7, <2>8, <2>9, <2>10, <2>11, <2>12, <2>13, <2>14,
       <2>15, <2>16, <2>17 DEF Next
<1> QED
  BY InitInv, <1>1, PTL DEF Spec

\* The state is well formed, and a session never holds a name set_server_name refuses.
THEOREM SessionTypeCorrect == Spec => []TypeOK
<1>1. IndInv => TypeOK
  BY DEF IndInv
<1> QED
  BY <1>1, SessionsInductive, PTL

\* Whichever step of a constructor fails, only the SSL_CTX of a server context whose
\* path is no C string is left without an owner, and an owner that is gone holds nothing.
THEOREM NeverLeaks == Spec => []NothingLeaked
<1>1. IndInv => NothingLeaked
  BY DEF IndInv, HeapOK
<1> QED
  BY <1>1, SessionsInductive, PTL

\* No callback of ngtcp2 or TLS finds its box, its slot or the ALPN list freed,
\* in whatever order the application drops its connections and its Server.
THEOREM NeverFreedInUse == Spec => []NothingFreedInUse
<1>1. IndInv => NothingFreedInUse
  BY DEF IndInv, HeapOK
<1> QED
  BY <1>1, SessionsInductive, PTL

\* A connection is checked against the last name, whatever set_server_name was
\* given before and wherever it failed.
THEOREM IdentityAlwaysLastName == Spec => []IdentityIsLastName
<1>1. IndInv => IdentityIsLastName
  BY DEF IndInv, EndsOK, ClientOK, Checks, IdentityIsLastName
<1> QED
  BY <1>1, SessionsInductive, PTL

\* 0-RTT data that is accepted is within the limits of the connection that accepts it.
THEOREM EarlyDataAlwaysWithinLimits == Spec => []EarlyDataWithinLimits
<1>1. IndInv => EarlyDataWithinLimits
  <2> SUFFICES ASSUME IndInv, NEW k \in Conns, server[k].early = "accepted"
               PROVE  client[k].sent <= server[k].limit
    BY DEF EarlyDataWithinLimits
  <2>1. /\ ClientOK(client[k]) /\ ServerOK(server[k], ctx) /\ PairOK(client[k], server[k])
        /\ server[k] \in ServerRec
    BY OneConnection
  <2>2. server[k].st = "conn"
    BY <2>1 DEF ServerOK
  <2>3. CASE client[k].st = "conn"
    BY <2>1, <2>2, <2>3 DEF ClientOK, PairOK
  <2>4. CASE client[k].st # "conn"
    <3>1. client[k].sent = 0 /\ server[k].limit \in Limits \cup {0}
      BY <2>1, <2>4 DEF ClientOK, ServerRec
    <3>2. \A x \in Limits \cup {0} : 0 <= x
      BY TlsSessionsAssumption
    <3> QED
      BY <3>1, <3>2
  <2> QED
    BY <2>3, <2>4
<1> QED
  BY <1>1, SessionsInductive, PTL

\* The application learns of rejected 0-RTT data exactly when it was rejected, once,
\* and before it learns that the handshake is complete.
THEOREM RejectionAlwaysReported == Spec => []RejectionReported
<1>1. IndInv => RejectionReported
  BY DEF IndInv, EndsOK, ClientOK, Reported, RejectionReported
<1> QED
  BY <1>1, SessionsInductive, PTL
=============================================================================
