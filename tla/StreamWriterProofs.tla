------------------------- MODULE StreamWriterProofs -------------------------
(***************************************************************************)
(* For any number of streams, bytes and credit: the queue of StreamWriter  *)
(* is well formed, no byte or FIN of it is lost, duplicated or overtaken,  *)
(* no packet is left open, and it implements StreamSender.                 *)
(***************************************************************************)
EXTENDS StreamWriter, SequenceTheorems, TLAPS

Bytes == {0, 1} \X Nat

Quic == [state : {"idle", "open", "shut", "resetting", "reset", "closed"},
         credit : Nat, accepted : Seq(Bytes), fin : BOOLEAN]

\* What relates the queue entry (d, f) of a stream, the stream q in ngtcp2, and
\* what the application asked for (o, e).
StreamInv(d, f, q, o, e) ==
    /\ \E p \in Seq(Bytes) : o = p \o d
    /\ f => e
    /\ q.state = "idle" => q.accepted = <<>> /\ d = o /\ f = e
    /\ q.state = "open" => q.accepted \o d = o /\ f = e
    /\ q.fin => e /\ q.accepted = o
    /\ q.state \in {"idle", "open"} => ~q.fin

StreamsInv == \A s \in Streams : StreamInv(data[s], fin[s], quic[s], offered[s], finished[s])

IndInv == TypeOK /\ StreamsInv

\* A step of the promise, or none.
SenderStep == [Sender!Next]_(Sender!vars)
-----------------------------------------------------------------------------
\* A sequence cut in two.
LEMMA Cut ==
    ASSUME NEW d \in Seq(Bytes), NEW k \in 0..Len(d)
    PROVE  /\ SubSeq(d, 1, k) \in Seq(Bytes) /\ Len(SubSeq(d, 1, k)) = k
           /\ SubSeq(d, k + 1, Len(d)) \in Seq(Bytes)
           /\ SubSeq(d, 1, k) \o SubSeq(d, k + 1, Len(d)) = d
           /\ SubSeq(d, k + 1, Len(d)) = <<>> <=> k = Len(d)
<1>1. Len(d) \in Nat /\ \A i \in 1..Len(d) : d[i] \in Bytes
  BY LenProperties, ElementOfSeq
<1>2. SubSeq(d, 1, k) \in Seq(Bytes) /\ Len(SubSeq(d, 1, k)) = k
  BY <1>1, SubSeqProperties
<1>3. SubSeq(d, k + 1, Len(d)) \in Seq(Bytes) /\ Len(SubSeq(d, k + 1, Len(d))) = Len(d) - k
  BY <1>1, SubSeqProperties
<1>4. SubSeq(d, 1, k) \o SubSeq(d, k + 1, Len(d)) = SubSeq(d, 1, Len(d))
  <2>1. 1 \in 1..Len(d) + 1 /\ k \in 1 - 1..Len(d) /\ Len(d) \in k..Len(d)
    BY <1>1
  <2> QED
    BY ONLY <2>1, d \in Seq(Bytes), ConcatAdjacentSubSeq, Zenon
<1>5. SubSeq(d, 1, Len(d)) = d
  BY SubSeqFull
<1>6. SubSeq(d, k + 1, Len(d)) = <<>> <=> k = Len(d)
  <2> DEFINE u == SubSeq(d, k + 1, Len(d))
  <2>1. u = <<>> <=> Len(u) = 0
    BY <1>3, EmptySeq
  <2> QED
    BY <1>1, <1>3, <2>1
<1> QED
  BY <1>2, <1>3, <1>4, <1>5, <1>6, Zenon

\* A concatenation begins with its first part and ends with its second.
LEMMA Parts ==
    ASSUME NEW a \in Seq(Bytes), NEW b \in Seq(Bytes)
    PROVE  Sender!Extends(a \o b, a) /\ Sender!EndsWith(a \o b, b)
<1> DEFINE t == a \o b
<1>1. Len(a) \in Nat /\ Len(b) \in Nat
  BY LenProperties
<1>2. /\ t \in Seq(Bytes) /\ Len(t) = Len(a) + Len(b)
      /\ \A i \in 1..Len(t) : t[i] = IF i <= Len(a) THEN a[i] ELSE b[i - Len(a)]
  BY ConcatProperties
<1>3. \A i \in 1..Len(t) : t[i] \in Bytes
  BY <1>2, ElementOfSeq
<1> HIDE DEF t
<1>4. SubSeq(t, 1, Len(a)) = a
  <2>1. /\ SubSeq(t, 1, Len(a)) \in Seq(Bytes)
        /\ Len(SubSeq(t, 1, Len(a))) = Len(a)
        /\ \A i \in 1..Len(a) : SubSeq(t, 1, Len(a))[i] = t[i]
    BY <1>1, <1>2, <1>3, SubSeqProperties
  <2>2. \A i \in 1..Len(a) : SubSeq(t, 1, Len(a))[i] = a[i]
    BY <2>1, <1>1, <1>2
  <2> QED
    BY <2>1, <2>2, SeqEqual
<1>5. SubSeq(t, Len(t) - Len(b) + 1, Len(t)) = b
  <2> DEFINE u == SubSeq(t, Len(t) - Len(b) + 1, Len(t))
  <2>1. /\ u \in Seq(Bytes) /\ Len(u) = Len(b)
        /\ \A i \in 1..Len(b) : u[i] = t[Len(a) + i]
    BY <1>1, <1>2, <1>3, SubSeqProperties
  <2> HIDE DEF u
  <2>2. ASSUME NEW i \in 1..Len(b) PROVE u[i] = b[i]
    <3>1. /\ Len(a) + i \in 1..Len(t) /\ ~(Len(a) + i <= Len(a)) /\ (Len(a) + i) - Len(a) = i
      BY ONLY <1>1, <1>2, i \in 1..Len(b)
    <3>2. t[Len(a) + i] = b[(Len(a) + i) - Len(a)]
      BY ONLY <1>2, <3>1
    <3> QED
      BY <2>1, <3>1, <3>2
  <2>3. u = b
    BY <2>1, <2>2, SeqEqual
  <2> QED
    BY <2>3 DEF u
<1> QED
  BY <1>1, <1>2, <1>4, <1>5 DEF Sender!Extends, Sender!EndsWith, t

\* The empty sequence is a sequence of bytes, and adds nothing.
LEMMA Empty ==
    /\ <<>> \in Seq(Bytes)
    /\ \A a \in Seq(Bytes) : a \o <<>> = a /\ <<>> \o a = a
BY EmptySeq, ConcatEmptySeq
-----------------------------------------------------------------------------
(* The type invariant in three parts.                                      *)

QueueTypes ==
    /\ data \in [Streams -> Seq(Bytes)] /\ fin \in [Streams -> BOOLEAN]
    /\ order \subseteq Streams
    /\ \A s \in Streams \ order : data[s] = <<>> /\ ~fin[s]
    /\ offered \in [Streams -> Seq(Bytes)] /\ finished \in [Streams -> BOOLEAN]

LoopTypes ==
    /\ phase \in {"idle", "streams"}
    /\ todo \subseteq Streams /\ (phase = "idle" => todo = {})
    /\ wrote_any \in BOOLEAN /\ wrote_packet \in BOOLEAN /\ blocked \in BOOLEAN
    /\ result \in {"none", "ok", "err"}

Conn == [cwnd : Nat, filling : BOOLEAN, draining : BOOLEAN,
         early : {"none", "undecided", "accepted", "rejected"}, probes : Nat]

Typed == QueueTypes /\ LoopTypes /\ quic \in [Streams -> Quic] /\ conn \in Conn

\* Together they are the type invariant, before a step and after it.
LEMMA TypeParts == (TypeOK <=> Typed) /\ (TypeOK' <=> Typed')
BY DEF TypeOK, QueueTypes, LoopTypes, Typed, Quic, Conn, Bytes

\* The state of a stream changes and nothing else of it, and not back.
Moved(q, r) ==
    /\ r.accepted = q.accepted /\ r.fin = q.fin
    /\ \/ r.state = q.state
       \/ r.state \in {"shut", "resetting", "reset", "closed"}
       \/ q.state = "idle" /\ r.state = "open"

\* Such a change keeps the invariant of the stream.
LEMMA MovedKeeps ==
    ASSUME NEW d \in Seq(Bytes), NEW f \in BOOLEAN, NEW o \in Seq(Bytes), NEW e \in BOOLEAN,
           NEW q \in Quic, NEW r \in Quic, Moved(q, r), StreamInv(d, f, q, o, e)
    PROVE  StreamInv(d, f, r, o, e)
<1>1. <<>> \o d = d
  BY Empty
<1>2. \E p \in Seq(Bytes) : o = p \o d
  BY Zenon DEF StreamInv
<1> QED
  BY <1>1, <1>2, Zenon DEF StreamInv, Moved, Quic

\* The entry of a stream that is neither idle nor open may be dropped.
LEMMA DropKeeps ==
    ASSUME NEW d \in Seq(Bytes), NEW f \in BOOLEAN, NEW o \in Seq(Bytes), NEW e \in BOOLEAN,
           NEW q \in Quic, q.state \notin {"idle", "open"}, StreamInv(d, f, q, o, e)
    PROVE  StreamInv(<<>>, FALSE, q, o, e)
<1>1. o = o \o <<>>
  BY Empty
<1>2. \E p \in Seq(Bytes) : o = p \o <<>>
  BY <1>1
<1> QED
  BY <1>2 DEF StreamInv

\* What a step does to the streams in ngtcp2 when it writes nothing to them.
LEMMA MovedStreams ==
    ASSUME TypeOK, StreamsInv, UNCHANGED <<data, fin, offered, finished>>,
           quic' \in [Streams -> Quic], \A s \in Streams : Moved(quic[s], quic'[s])
    PROVE  StreamsInv'
<1> SUFFICES ASSUME NEW s \in Streams
             PROVE  StreamInv(data[s], fin[s], quic'[s], offered[s], finished[s])
  BY DEF StreamsInv
<1>1. /\ data[s] \in Seq(Bytes) /\ fin[s] \in BOOLEAN /\ offered[s] \in Seq(Bytes)
      /\ finished[s] \in BOOLEAN /\ quic[s] \in Quic /\ quic'[s] \in Quic
  BY TypeParts DEF Typed, QueueTypes
<1>2. StreamInv(data[s], fin[s], quic[s], offered[s], finished[s]) /\ Moved(quic[s], quic'[s])
  BY DEF StreamsInv
<1> QED
  BY <1>1, <1>2, MovedKeeps

\* No step of the promise is taken when its variables stay.
LEMMA Stutters ==
    ASSUME UNCHANGED <<offered, finished>>,
           \A s \in Streams : /\ SenderState(s)' = SenderState(s)
                              /\ quic'[s].accepted = quic[s].accepted /\ quic'[s].fin = quic[s].fin
    PROVE  SenderStep
BY DEF SenderStep, Sender!vars

\* An open stream is given up, and no other stream changes: the promise's Abandon.
LEMMA Abandons ==
    ASSUME NEW s \in Streams, quic[s].state = "open", UNCHANGED <<offered, finished>>,
           \A u \in Streams : Moved(quic[u], quic'[u]),
           quic'[s].state \notin {"idle", "open"},
           \A u \in Streams : u # s => quic'[u] = quic[u]
    PROVE  Sender!Abandon(s)
<1>1. SenderState(s) = "open" /\ SenderState(s)' = "done"
  BY DEF SenderState
<1>2. \A u \in Streams : u # s => SenderState(u)' = SenderState(u)
  BY DEF SenderState
<1>3. [u \in Streams |-> SenderState(u)]' = [[u \in Streams |-> SenderState(u)] EXCEPT ![s] = "done"]
  BY <1>1, <1>2, Zenon
<1>4. \A u \in Streams : quic'[u].accepted = quic[u].accepted /\ quic'[u].fin = quic[u].fin
  BY DEF Moved
<1>5. UNCHANGED <<[u \in Streams |-> quic[u].accepted], [u \in Streams |-> quic[u].fin]>>
  BY <1>4
<1> QED
  BY <1>1, <1>3, <1>5 DEF Sender!Abandon
-----------------------------------------------------------------------------
(* The steps, one lemma each.                                              *)

\* Steps of the loop and of the connection that do not touch a stream.
LEMMA QuietKeeps ==
    ASSUME IndInv, UNCHANGED <<pending, quic, app>>, LoopTypes', conn' \in Conn
    PROVE  IndInv' /\ SenderStep
<1>1. TypeOK'
  BY TypeParts DEF Typed, IndInv, QueueTypes, pending, app
<1>2. StreamsInv'
  BY DEF IndInv, StreamsInv, pending, app
<1>3. SenderStep
  BY Stutters DEF SenderState, app
<1> QED
  BY <1>1, <1>2, <1>3 DEF IndInv

\* Steps that only move streams of ngtcp2 on, none of which was idle or open.
LEMMA MovesKeep ==
    ASSUME IndInv, UNCHANGED <<pending, app>>, LoopTypes', conn' \in Conn,
           quic' \in [Streams -> Quic], \A s \in Streams : Moved(quic[s], quic'[s]),
           \A s \in Streams : quic'[s].state # quic[s].state =>
                {quic[s].state, quic'[s].state} \subseteq {"shut", "resetting", "reset", "closed"}
    PROVE  IndInv' /\ SenderStep
<1>1. TypeOK'
  BY TypeParts DEF Typed, IndInv, QueueTypes, pending, app
<1>2. StreamsInv'
  BY MovedStreams DEF IndInv, pending, app
<1>3. SenderStep
  BY Stutters DEF SenderState, app, Moved
<1> QED
  BY <1>1, <1>2, <1>3 DEF IndInv

\* An idle stream is opened: the promise's Open.
LEMMA OpenStreamKeeps ==
    ASSUME IndInv, NEW s \in Streams, OpenStream(s)
    PROVE  IndInv' /\ SenderStep
<1>0. /\ TypeOK /\ StreamsInv /\ quic[s].state = "idle"
      /\ quic \in [Streams -> Quic]
  BY TypeParts DEF Typed, IndInv, OpenStream
<1>1. /\ quic' \in [Streams -> Quic]
      /\ \A u \in Streams : Moved(quic[u], quic'[u])
      /\ quic'[s].state = "open"
      /\ \A u \in Streams : u # s => quic'[u] = quic[u]
  <2>1. quic' = [quic EXCEPT ![s] = [quic[s] EXCEPT !.state = "open", !.credit = MaxCredit]]
    BY Zenon DEF OpenStream
  <2>2. quic[s] \in Quic /\ MaxCredit \in Nat
    BY <1>0, StreamWriterAssumption
  <2>3. /\ [quic[s] EXCEPT !.state = "open", !.credit = MaxCredit] \in Quic
        /\ Moved(quic[s], [quic[s] EXCEPT !.state = "open", !.credit = MaxCredit])
    BY <1>0, <2>2, Zenon DEF Moved, Quic
  <2>4. \A u \in Streams : Moved(quic[u], quic[u])
    BY DEF Moved
  <2> QED
    BY <1>0, <2>1, <2>2, <2>3, <2>4 DEF Quic
<1>2. UNCHANGED <<data, fin, order, offered, finished, conn>> /\ UNCHANGED flush
  BY DEF OpenStream, pending, app
<1>3. TypeOK'
  BY <1>0, <1>1, <1>2, TypeParts DEF Typed, QueueTypes, LoopTypes, flush
<1>4. StreamsInv'
  BY <1>0, <1>1, <1>2, MovedStreams
<1>5. Sender!Open(s)
  BY <1>0, <1>1, <1>2, Zenon DEF Sender!Open, SenderState, Moved
<1> QED
  BY <1>3, <1>4, <1>5 DEF IndInv, SenderStep, Sender!Next

\* STOP_SENDING ends an open stream: the promise's Abandon.
LEMMA StopSendingKeeps ==
    ASSUME IndInv, NEW s \in Streams, StopSending(s)
    PROVE  IndInv' /\ SenderStep
<1>0. /\ TypeOK /\ StreamsInv /\ quic[s].state = "open"
      /\ quic \in [Streams -> Quic]
  BY TypeParts DEF Typed, IndInv, StopSending
<1>1. /\ quic' \in [Streams -> Quic]
      /\ \A u \in Streams : Moved(quic[u], quic'[u])
      /\ quic'[s].state = "resetting"
      /\ \A u \in Streams : u # s => quic'[u] = quic[u]
  BY <1>0 DEF StopSending, Moved, Quic
<1>2. UNCHANGED <<data, fin, order, offered, finished, conn>> /\ UNCHANGED flush
  BY DEF StopSending, pending, app
<1>3. TypeOK'
  BY <1>0, <1>1, <1>2, TypeParts DEF Typed, QueueTypes, LoopTypes, flush
<1>4. StreamsInv'
  BY <1>0, <1>1, <1>2, MovedStreams
<1>5. Sender!Abandon(s)
  BY <1>0, <1>1, <1>2, Abandons
<1> QED
  BY <1>3, <1>4, <1>5 DEF IndInv, SenderStep, Sender!Next

\* Concatenation is associative.
LEMMA Associative ==
    \A x, y, z \in Seq(Bytes) : (x \o y) \o z = x \o (y \o z)
<1> TAKE x, y, z \in Seq(Bytes)
<1> QED
  BY ConcatAssociative

\* Bytes appended to the queue and to what the application asked for.
LEMMA Appended ==
    ASSUME NEW d \in Seq(Bytes), NEW f \in BOOLEAN, NEW o \in Seq(Bytes),
           NEW q \in Quic, NEW b \in Seq(Bytes), NEW g \in BOOLEAN,
           q.state # "idle", StreamInv(d, f, q, o, FALSE)
    PROVE  StreamInv(d \o b, f \/ g, q, o \o b, FALSE \/ g)
<1>1. PICK p \in Seq(Bytes) : o = p \o d
  BY Zenon DEF StreamInv
<1>2. o \o b = p \o (d \o b)
  BY <1>1, Associative
<1>3. \E x \in Seq(Bytes) : o \o b = x \o (d \o b)
  BY <1>2, Zenon
<1>4. q.accepted \in Seq(Bytes)
  BY DEF Quic
<1>5. q.state = "open" => q.accepted \o (d \o b) = o \o b
  <2>1. q.accepted \o (d \o b) = (q.accepted \o d) \o b
    BY <1>4, Associative, Zenon
  <2> QED
    BY <2>1, Zenon DEF StreamInv
<1> QED
  BY <1>3, <1>5, Zenon DEF StreamInv

\* write_stream: the promise's Write.
LEMMA WriteStreamKeeps ==
    ASSUME IndInv, NEW s \in Streams, NEW n \in 0..MaxBytes, NEW f \in BOOLEAN, WriteStream(s, n, f)
    PROVE  IndInv' /\ SenderStep
<1> DEFINE b == [i \in 1..n |-> <<Epoch, Len(offered[s]) + i>>]
<1>0. TypeOK /\ StreamsInv /\ Typed
  BY TypeParts DEF IndInv
<1>1. offered[s] \in Seq(Bytes) /\ data[s] \in Seq(Bytes) /\ Len(offered[s]) \in Nat
      /\ n \in Nat /\ quic[s] \in Quic /\ fin[s] \in BOOLEAN
  BY <1>0, LenProperties, StreamWriterAssumption DEF Typed, QueueTypes
<1>2. b \in Seq(Bytes)
  <2>1. \A i \in 1..n : <<Epoch, Len(offered[s]) + i>> \in Bytes
    BY <1>1 DEF Bytes, Epoch
  <2>2. b \in [1..n -> Bytes]
    BY <2>1, Zenon
  <2> HIDE DEF b
  <2> QED
    BY <2>2, <1>1, SeqDef
<1> HIDE DEF b
<1>3. /\ quic[s].state # "idle" /\ finished[s] = FALSE
      /\ data' = [data EXCEPT ![s] = @ \o b] /\ fin' = [fin EXCEPT ![s] = @ \/ f]
      /\ order' = order \cup {s}
      /\ offered' = [offered EXCEPT ![s] = @ \o b]
      /\ finished' = [finished EXCEPT ![s] = @ \/ f]
      /\ UNCHANGED <<quic, conn>> /\ UNCHANGED flush
  BY <1>0 DEF WriteStream, b, Typed, QueueTypes
<1>4. data[s] \o b \in Seq(Bytes) /\ offered[s] \o b \in Seq(Bytes)
  BY <1>1, <1>2, ConcatProperties
<1>5. QueueTypes'
  BY <1>0, <1>3, <1>4 DEF Typed, QueueTypes
<1>6. TypeOK'
  BY <1>0, <1>3, <1>5, TypeParts DEF Typed, LoopTypes, flush
<1>7. StreamsInv'
  <2> SUFFICES ASSUME NEW u \in Streams
               PROVE  StreamInv(data'[u], fin'[u], quic[u], offered'[u], finished'[u])
    BY <1>3 DEF StreamsInv
  <2>1. StreamInv(data[u], fin[u], quic[u], offered[u], finished[u])
    BY <1>0 DEF StreamsInv
  <2>2. CASE u # s
    BY <1>0, <1>3, <2>1, <2>2 DEF Typed, QueueTypes
  <2>3. CASE u = s
    <3>1. StreamInv(data[s], fin[s], quic[s], offered[s], FALSE)
      BY <2>1, <2>3, <1>3, Zenon
    <3>2. StreamInv(data[s] \o b, fin[s] \/ f, quic[s], offered[s] \o b, FALSE \/ f)
      <4> DEFINE d == data[s]  o == offered[s]  q == quic[s]  g == fin[s]
      <4> HIDE DEF d, o, q, g
      <4>1. d \in Seq(Bytes) /\ o \in Seq(Bytes) /\ q \in Quic /\ g \in BOOLEAN
            /\ q.state # "idle" /\ StreamInv(d, g, q, o, FALSE)
        BY <1>1, <1>3, <3>1, Zenon DEF d, o, q, g
      <4>2. StreamInv(d \o b, g \/ f, q, o \o b, FALSE \/ f)
        BY ONLY <4>1, <1>2, f \in BOOLEAN, Appended, ZenonT(60)
      <4> QED
        BY <4>2 DEF d, o, q, g
    <3>3. data'[s] = data[s] \o b /\ fin'[s] = (fin[s] \/ f) /\ offered'[s] = offered[s] \o b
          /\ finished'[s] = (FALSE \/ f)
      BY <1>0, <1>3 DEF Typed, QueueTypes
    <3> QED
      BY <3>2, <3>3, <2>3, Zenon
  <2> QED
    BY <2>2, <2>3
<1>8. Sender!Write(s)
  <2>1. Sender!Extends(offered'[s], offered[s])
    BY <1>0, <1>1, <1>2, <1>3, Parts DEF Typed, QueueTypes
  <2>2. SenderState(s) # "idle"
    BY <1>3 DEF SenderState
  <2> QED
    BY <1>0, <1>3, <2>1, <2>2 DEF Sender!Write, Sender!OnlyAt, SenderState, Typed, QueueTypes
<1> QED
  BY <1>6, <1>7, <1>8 DEF IndInv, SenderStep, Sender!Next

\* remove leaves a well-formed queue.
LEMMA RemovedTypes ==
    ASSUME QueueTypes, NEW s \in Streams, Removed(s), UNCHANGED app
    PROVE  /\ QueueTypes'
           /\ data'[s] = <<>> /\ fin'[s] = FALSE
           /\ \A u \in Streams : u # s => data'[u] = data[u] /\ fin'[u] = fin[u]
BY Empty DEF QueueTypes, Removed, app

\* An entry that is dropped because it is empty, or because ngtcp2 takes no more
\* data of the stream: the promise is not affected.
LEMMA DroppedKeeps ==
    ASSUME IndInv, NEW s \in Streams, Removed(s), UNCHANGED <<app, quic, conn>>, LoopTypes',
           \/ data[s] = <<>> /\ ~fin[s]
           \/ quic[s].state \notin {"idle", "open"}
    PROVE  IndInv' /\ SenderStep
<1>0. TypeOK /\ StreamsInv /\ Typed /\ QueueTypes
  BY TypeParts DEF IndInv, Typed
<1>1. /\ QueueTypes'
      /\ data'[s] = <<>> /\ fin'[s] = FALSE
      /\ \A u \in Streams : u # s => data'[u] = data[u] /\ fin'[u] = fin[u]
  BY <1>0, RemovedTypes, Zenon
<1>2. TypeOK'
  BY <1>0, <1>1, TypeParts DEF Typed
<1>3. StreamsInv'
  <2> SUFFICES ASSUME NEW u \in Streams
               PROVE  StreamInv(data'[u], fin'[u], quic[u], offered[u], finished[u])
    BY DEF StreamsInv, app
  <2>1. StreamInv(data[u], fin[u], quic[u], offered[u], finished[u])
    BY <1>0 DEF StreamsInv
  <2>2. CASE u # s
    BY <1>1, <2>1, <2>2
  <2>3. CASE u = s /\ data[s] = <<>> /\ ~fin[s]
    <3>1. fin[s] = FALSE
      BY <1>0, <2>3 DEF QueueTypes
    <3> QED
      BY <1>1, <2>1, <2>3, <3>1, Zenon
  <2>4. CASE u = s /\ quic[s].state \notin {"idle", "open"}
    <3>1. data[s] \in Seq(Bytes) /\ fin[s] \in BOOLEAN /\ offered[s] \in Seq(Bytes)
          /\ finished[s] \in BOOLEAN /\ quic[s] \in Quic
      BY <1>0 DEF Typed, QueueTypes
    <3>2. StreamInv(<<>>, FALSE, quic[s], offered[s], finished[s])
      BY <2>1, <2>4, <3>1, DropKeeps, Zenon
    <3> QED
      BY <1>1, <2>4, <3>2, Zenon
  <2> QED
    BY <2>2, <2>3, <2>4
<1>4. SenderStep
  BY Stutters DEF SenderState, app
<1> QED
  BY <1>2, <1>3, <1>4 DEF IndInv

\* reset_stream and close_stream: Abandon for an open stream, Forget for one that
\* is not open yet, and nothing for one that is over.
LEMMA ResetStreamKeeps ==
    ASSUME IndInv, NEW s \in Streams, ResetStream(s)
    PROVE  IndInv' /\ SenderStep
<1>0. TypeOK /\ StreamsInv /\ Typed /\ QueueTypes /\ LoopTypes /\ quic \in [Streams -> Quic]
  BY TypeParts DEF IndInv, Typed
<1>1. Removed(s) /\ UNCHANGED conn /\ UNCHANGED flush
  BY DEF ResetStream
<1>2. LoopTypes'
  BY <1>0, <1>1 DEF LoopTypes, flush
<1>3. CASE quic[s].state = "idle"
  <2>1. /\ offered' = [offered EXCEPT ![s] = <<>>] /\ finished' = [finished EXCEPT ![s] = FALSE]
    BY <1>3 DEF ResetStream
  <2>2. quic' = quic
    BY <1>0, <1>3 DEF ResetStream, Quic
  <2>3. QueueTypes'
    BY <1>0, <1>1, <2>1, Empty DEF QueueTypes, Removed
  <2>4. TypeOK'
    BY <1>0, <1>1, <1>2, <2>2, <2>3, TypeParts DEF Typed
  <2>5. StreamsInv'
    <3> SUFFICES ASSUME NEW u \in Streams
                 PROVE  StreamInv(data'[u], fin'[u], quic[u], offered'[u], finished'[u])
      BY <2>2 DEF StreamsInv
    <3>1. StreamInv(data[u], fin[u], quic[u], offered[u], finished[u])
      BY <1>0 DEF StreamsInv
    <3>2. CASE u # s
      BY <1>0, <1>1, <2>1, <3>1, <3>2 DEF Removed, QueueTypes
    <3>3. CASE u = s
      <4>1. data'[s] = <<>> /\ offered'[s] = <<>> /\ fin'[s] = FALSE /\ finished'[s] = FALSE
        BY <1>0, <1>1, <2>1 DEF Removed, QueueTypes
      <4>2. \E x \in Seq(Bytes) : <<>> = x \o <<>>
        BY Empty, Zenon
      <4>3. StreamInv(<<>>, FALSE, quic[s], <<>>, FALSE)
        BY <1>3, <3>1, <3>3, <4>2 DEF StreamInv
      <4> QED
        BY <3>3, <4>1, <4>3, Zenon
    <3> QED
      BY <3>2, <3>3
  <2>6. Sender!Forget(s)
    BY <1>3, <2>1, <2>2 DEF Sender!Forget, SenderState
  <2> QED
    BY <2>4, <2>5, <2>6 DEF IndInv, SenderStep, Sender!Next
<1>4. CASE quic[s].state # "idle"
  <2>1. UNCHANGED app /\ UNCHANGED <<offered, finished>>
    BY <1>4 DEF ResetStream, app
  <2>2. /\ quic' \in [Streams -> Quic]
        /\ \A u \in Streams : Moved(quic[u], quic'[u])
        /\ quic'[s].state \notin {"idle", "open"}
        /\ \A u \in Streams : u # s => quic'[u] = quic[u]
    BY <1>0, <1>4, Zenon DEF ResetStream, Moved, Quic
  <2>3. /\ QueueTypes'
        /\ data'[s] = <<>> /\ fin'[s] = FALSE
        /\ \A u \in Streams : u # s => data'[u] = data[u] /\ fin'[u] = fin[u]
    BY <1>0, <1>1, <2>1, RemovedTypes, Zenon
  <2>4. TypeOK'
    BY <1>0, <1>1, <1>2, <2>2, <2>3, TypeParts DEF Typed
  <2>5. StreamsInv'
    <3> SUFFICES ASSUME NEW u \in Streams
                 PROVE  StreamInv(data'[u], fin'[u], quic'[u], offered[u], finished[u])
      BY <2>1 DEF StreamsInv
    <3>1. StreamInv(data[u], fin[u], quic[u], offered[u], finished[u])
      BY <1>0 DEF StreamsInv
    <3>2. CASE u # s
      BY <2>2, <2>3, <3>1, <3>2
    <3>3. CASE u = s
      <4>1. data[s] \in Seq(Bytes) /\ fin[s] \in BOOLEAN /\ offered[s] \in Seq(Bytes)
            /\ finished[s] \in BOOLEAN /\ quic[s] \in Quic /\ quic'[s] \in Quic
        BY <1>0, <2>2 DEF QueueTypes
      <4>2. StreamInv(data[s], fin[s], quic'[s], offered[s], finished[s])
        BY <2>2, <3>1, <3>3, <4>1, MovedKeeps
      <4>3. StreamInv(<<>>, FALSE, quic'[s], offered[s], finished[s])
        <5> DEFINE r == quic'[s]  d == data[s]  f == fin[s]  o == offered[s]  e == finished[s]
        <5>1. /\ d \in Seq(Bytes) /\ f \in BOOLEAN /\ o \in Seq(Bytes) /\ e \in BOOLEAN /\ r \in Quic
              /\ r.state \notin {"idle", "open"} /\ StreamInv(d, f, r, o, e)
          BY <2>2, <4>1, <4>2
        <5> HIDE DEF r, d, f, o, e
        <5>2. StreamInv(<<>>, FALSE, r, o, e)
          BY ONLY <5>1, DropKeeps, Zenon
        <5> QED
          BY <5>2, Zenon DEF r, o, e
      <4> QED
        BY <2>3, <3>3, <4>3, Zenon
    <3> QED
      BY <3>2, <3>3
  <2>6. SenderStep
    <3>1. CASE quic[s].state = "open"
      <4>1. Sender!Abandon(s)
        BY <2>1, <2>2, <3>1, Abandons
      <4> QED
        BY <4>1 DEF SenderStep, Sender!Next
    <3>2. CASE quic[s].state # "open"
      BY <1>4, <2>1, <2>2, <3>2, Stutters DEF SenderState, Moved
    <3> QED
      BY <3>1, <3>2
  <2> QED
    BY <2>4, <2>5, <2>6 DEF IndInv
<1> QED
  BY <1>3, <1>4

\* ngtcp2 accepts the first k bytes of the entry (d, f) for the stream q, which
\* becomes r, and FIN, if these are all; g is the FIN that stays in the entry.
Took(d, f, q, k, r, g) ==
    /\ d \in Seq(Bytes) /\ f \in BOOLEAN /\ q \in Quic /\ r \in Quic /\ g \in BOOLEAN
    /\ k \in 0..Len(d) /\ q.state = "open"
    /\ r.accepted = q.accepted \o SubSeq(d, 1, k)
    /\ r.fin <=> f /\ k = Len(d)
    /\ r.state = IF r.fin THEN "shut" ELSE "open"
    /\ g <=> f /\ ~r.fin

\* The invariant of the stream stays, and the promise has more bytes sent.
LEMMA AcceptedStream ==
    ASSUME NEW d, NEW f, NEW q, NEW k, NEW r, NEW g, Took(d, f, q, k, r, g),
           NEW o \in Seq(Bytes), NEW e \in BOOLEAN, StreamInv(d, f, q, o, e)
    PROVE  /\ StreamInv(SubSeq(d, k + 1, Len(d)), g, r, o, e)
           /\ Sender!Extends(r.accepted, q.accepted) /\ Sender!Extends(o, r.accepted)
           /\ r.fin => e /\ r.accepted = o
<1> DEFINE x == SubSeq(d, 1, k)
           y == SubSeq(d, k + 1, Len(d))
           a == q.accepted
<1>1. x \in Seq(Bytes) /\ y \in Seq(Bytes) /\ x \o y = d /\ (y = <<>> <=> k = Len(d))
  BY Cut, Zenon DEF Took
<1>2. a \in Seq(Bytes) /\ a \o d = o /\ f = e /\ ~q.fin
  BY Zenon DEF StreamInv, Took, Quic
<1> HIDE DEF x, y, a
<1>3. a \o x \in Seq(Bytes) /\ (a \o x) \o y = o
  <2>1. a \o x \in Seq(Bytes)
    BY <1>1, <1>2, ConcatProperties
  <2>2. (a \o x) \o y = a \o (x \o y)
    <3>1. a \in Seq(Bytes) /\ x \in Seq(Bytes) /\ y \in Seq(Bytes)
      BY <1>1, <1>2
    <3> QED
      BY ONLY <3>1, Associative, ZenonT(60)
  <2> QED
    BY <1>1, <1>2, <2>1, <2>2
<1>4. r.accepted = a \o x
  BY DEF a, x, Took
<1>5. Sender!Extends(r.accepted, a) /\ Sender!Extends(o, r.accepted)
  BY <1>1, <1>2, <1>3, <1>4, Parts, Zenon
<1>6. k = Len(d) => r.accepted = o
  BY <1>1, <1>3, <1>4, Empty, Zenon
<1>7. \E p \in Seq(Bytes) : o = p \o y
  BY <1>3, Zenon
<1>8. StreamInv(y, g, r, o, e)
  BY <1>2, <1>3, <1>4, <1>6, <1>7, Zenon DEF StreamInv, Took
<1> QED
  BY <1>2, <1>5, <1>6, <1>8, Zenon DEF a, y, Took

\* drain and prune: what the queue is after ngtcp2 took k bytes.
LEMMA WrittenQueue ==
    ASSUME Typed, NEW s \in Streams, NEW w \in {None} \cup (0..Len(data[s])), NEW c \in BOOLEAN,
           Written(s, w, c), NEW k \in 0..Len(data[s]), k = Consumed(s, w),
           phase = "streams"
    PROVE  /\ QueueTypes' /\ LoopTypes' /\ UNCHANGED app
           /\ data'[s] = SubSeq(data[s], k + 1, Len(data[s]))
           /\ fin'[s] = (fin[s] /\ ~(fin[s] /\ w = Len(data[s])))
           /\ \A u \in Streams : u # s => data'[u] = data[u] /\ fin'[u] = fin[u]
<1> DEFINE rest == SubSeq(data[s], k + 1, Len(data[s]))
           sent == fin[s] /\ w = Len(data[s])
<1>1. data[s] \in Seq(Bytes) /\ rest \in Seq(Bytes)
  BY Cut DEF Typed, QueueTypes
<1>2. /\ data' = [data EXCEPT ![s] = rest]
      /\ fin' = [fin EXCEPT ![s] = @ /\ ~sent]
      /\ order' = IF rest = <<>> /\ (fin[s] => sent) THEN order \ {s} ELSE order
      /\ wrote_any' = (wrote_any \/ k > 0 \/ sent)
      /\ wrote_packet' = (wrote_packet \/ c)
      /\ todo' = todo \ {s}
      /\ UNCHANGED <<phase, blocked, result>> /\ UNCHANGED app
  BY DEF Written, FinAccepted
<1> HIDE DEF rest
<1>3. LoopTypes'
  BY <1>2 DEF Typed, LoopTypes
<1>4. /\ data'[s] = rest /\ fin'[s] = (fin[s] /\ ~sent)
      /\ \A u \in Streams : u # s => data'[u] = data[u] /\ fin'[u] = fin[u]
      /\ data' \in [Streams -> Seq(Bytes)] /\ fin' \in [Streams -> BOOLEAN]
  BY <1>1, <1>2 DEF Typed, QueueTypes
<1>5. order' \subseteq Streams
  BY <1>2 DEF Typed, QueueTypes
<1>6. ASSUME NEW u \in Streams \ order'
      PROVE  data'[u] = <<>> /\ ~fin'[u]
  <2>1. CASE u # s
    BY <1>2, <1>4, <1>6, <2>1 DEF Typed, QueueTypes
  <2>2. CASE u = s /\ s \notin order
    <3>1. data[s] = <<>> /\ ~fin[s]
      BY <2>2 DEF Typed, QueueTypes
    <3>2. rest = <<>>
      BY <3>1, Cut, Empty DEF rest
    <3> QED
      BY <1>4, <2>2, <3>1, <3>2
  <2>3. CASE u = s /\ s \in order
    BY <1>2, <1>4, <1>6, <2>3, Zenon
  <2> QED
    BY <2>1, <2>2, <2>3
<1>7. QueueTypes'
  BY <1>2, <1>4, <1>5, <1>6 DEF Typed, QueueTypes, app
<1> QED
  BY <1>2, <1>3, <1>4, <1>7 DEF rest

\* ngtcp2 writes a STREAM frame: the promise's Send.
LEMMA AcceptedKeeps ==
    ASSUME IndInv, NEW s \in Streams, NEW k \in 0..MaxCredit, NEW c \in BOOLEAN, Accepted(s, k, c)
    PROVE  IndInv' /\ SenderStep
<1> DEFINE d == data[s]
           ends == fin[s] /\ k = Len(d)
<1>0. TypeOK /\ StreamsInv /\ Typed
  BY TypeParts DEF IndInv
<1>1. d \in Seq(Bytes) /\ Len(d) \in Nat /\ fin[s] \in BOOLEAN /\ offered[s] \in Seq(Bytes)
      /\ finished[s] \in BOOLEAN /\ quic[s] \in Quic
  BY <1>0, LenProperties DEF Typed, QueueTypes
<1>2. k \in Nat /\ k \in 0..Len(d) /\ k <= conn.cwnd /\ k <= quic[s].credit
      /\ quic[s].state = "open" /\ phase = "streams" /\ conn \in Conn
  BY <1>0, <1>1, StreamWriterAssumption DEF Accepted, Asked, Turn, Typed
<1>3. Consumed(s, k) = k /\ Written(s, k, c)
  BY <1>2 DEF Accepted, Consumed, None
<1>4. /\ QueueTypes' /\ LoopTypes' /\ UNCHANGED app
      /\ data'[s] = SubSeq(d, k + 1, Len(d))
      /\ fin'[s] = (fin[s] /\ ~ends)
      /\ \A u \in Streams : u # s => data'[u] = data[u] /\ fin'[u] = fin[u]
  BY <1>0, <1>2, <1>3, WrittenQueue
<1>5. quic[s].accepted \o SubSeq(d, 1, k) \in Seq(Bytes)
  BY <1>1, <1>2, Cut, ConcatProperties DEF Quic
<1> DEFINE r == [state |-> IF ends THEN "shut" ELSE "open", credit |-> quic[s].credit - k,
                 accepted |-> quic[s].accepted \o SubSeq(d, 1, k), fin |-> ends]
<1>6. quic' = [quic EXCEPT ![s] = r]
  BY DEF Accepted
<1>7. /\ quic' \in [Streams -> Quic]
      /\ \A u \in Streams : u # s => quic'[u] = quic[u]
      /\ quic'[s].accepted = quic[s].accepted \o SubSeq(d, 1, k)
      /\ quic'[s].fin = ends
      /\ quic'[s].state = IF ends THEN "shut" ELSE "open"
  <2>1. quic \in [Streams -> Quic] /\ quic[s].credit - k \in Nat
    BY <1>0, <1>1, <1>2 DEF Typed, Quic
  <2> HIDE DEF ends, d
  <2>2. ends \in BOOLEAN
    BY <1>1 DEF ends
  <2>3. r \in Quic
    BY <1>5, <2>1, <2>2 DEF Quic
  <2>4. quic'[s] = r
    BY <1>6, <2>1
  <2>5. /\ r.accepted = quic[s].accepted \o SubSeq(d, 1, k) /\ r.fin = ends
        /\ r.state = IF ends THEN "shut" ELSE "open"
    BY Zenon
  <2> HIDE DEF r
  <2>6. quic' \in [Streams -> Quic] /\ \A u \in Streams : u # s => quic'[u] = quic[u]
    BY <1>6, <2>1, <2>3
  <2> QED
    BY <2>4, <2>5, <2>6
<1>8. conn' \in Conn
  <2>1. conn.cwnd \in Nat /\ conn.cwnd - k \in Nat
    BY <1>2 DEF Conn
  <2>2. conn' = [conn EXCEPT !.cwnd = @ - k, !.filling = ~c]
    BY DEF Accepted
  <2> QED
    BY <1>2, <2>1, <2>2, Zenon DEF Conn
<1>9. TypeOK'
  BY <1>4, <1>7, <1>8, TypeParts DEF Typed
<1>10. StreamInv(d, fin[s], quic[s], offered[s], finished[s]) /\ quic'[s] \in Quic
  BY <1>0, <1>7 DEF StreamsInv
<1>11. /\ StreamInv(SubSeq(d, k + 1, Len(d)), fin'[s], quic'[s], offered[s], finished[s])
       /\ Sender!Extends(quic'[s].accepted, quic[s].accepted)
       /\ Sender!Extends(offered[s], quic'[s].accepted)
       /\ quic'[s].fin => finished[s] /\ quic'[s].accepted = offered[s]
  <2>1. fin'[s] \in BOOLEAN /\ (quic'[s].fin <=> fin[s] /\ k = Len(d))
        /\ (fin'[s] <=> fin[s] /\ ~quic'[s].fin)
    BY <1>1, <1>4, <1>7, Zenon
  <2>2. quic'[s].state = IF quic'[s].fin THEN "shut" ELSE "open"
    BY <1>7, Zenon
  <2>3. Took(d, fin[s], quic[s], k, quic'[s], fin'[s])
    BY <1>1, <1>2, <1>7, <1>10, <2>1, <2>2 DEF Took
  <2> QED
    BY <1>1, <1>10, <2>3, AcceptedStream, SMTT(30)
<1>12. StreamsInv'
  <2> SUFFICES ASSUME NEW u \in Streams
               PROVE  StreamInv(data'[u], fin'[u], quic'[u], offered[u], finished[u])
    BY <1>4 DEF StreamsInv, app
  <2>1. CASE u # s
    BY <1>0, <1>4, <1>7, <2>1, Zenon DEF StreamsInv
  <2>2. CASE u = s
    BY <1>4, <1>11, <2>2, Zenon
  <2> QED
    BY <2>1, <2>2
<1>13. Sender!Send(s)
  <2>1. /\ SenderState(s) = "open" /\ SenderState(s)' = IF ends THEN "done" ELSE "open"
        /\ \A u \in Streams : u # s => SenderState(u)' = SenderState(u)
    BY <1>2, <1>7 DEF SenderState
  <2> HIDE DEF ends, d
  <2> QED
    BY <1>4, <1>7, <1>11, <2>1, Zenon DEF Sender!Send, Sender!OnlyAt, app
<1> QED
  BY <1>9, <1>12, <1>13 DEF IndInv, SenderStep, Sender!Next

\* ngtcp2 writes no STREAM frame, so that all of the entry stays.
LEMMA NoFrameKeeps ==
    ASSUME IndInv, NEW s \in Streams, NoFrame(s)
    PROVE  IndInv' /\ SenderStep
<1>0. TypeOK /\ StreamsInv /\ Typed /\ phase = "streams"
  BY TypeParts DEF IndInv, NoFrame, Asked, Turn
<1>1. data[s] \in Seq(Bytes) /\ Len(data[s]) \in Nat /\ fin[s] \in BOOLEAN /\ conn \in Conn
  BY <1>0, LenProperties DEF Typed, QueueTypes
<1>2. PICK c \in BOOLEAN : Written(s, None, c)
  BY Zenon DEF NoFrame
<1>3. Consumed(s, None) = 0 /\ 0 \in 0..Len(data[s]) /\ None # Len(data[s])
  BY <1>1 DEF Consumed, None
<1>4. /\ QueueTypes' /\ LoopTypes' /\ UNCHANGED app
      /\ data'[s] = SubSeq(data[s], 0 + 1, Len(data[s]))
      /\ fin'[s] = (fin[s] /\ ~(fin[s] /\ None = Len(data[s])))
      /\ \A u \in Streams : u # s => data'[u] = data[u] /\ fin'[u] = fin[u]
  BY <1>0, <1>2, <1>3, WrittenQueue
<1>5. data'[s] = data[s] /\ fin'[s] = fin[s]
  <2>1. SubSeq(data[s], 1, Len(data[s])) = data[s]
    BY <1>1, SubSeqFull
  <2> QED
    BY <1>1, <1>3, <1>4, <2>1
<1>6. quic' = quic /\ conn' \in Conn
  <2>1. /\ quic' = quic
        /\ \/ conn' = conn
           \/ conn' = [conn EXCEPT !.filling = FALSE]
           \/ conn.probes > 0 /\ conn' = [conn EXCEPT !.probes = @ - 1]
    BY Zenon DEF NoFrame
  <2>2. conn.probes > 0 => conn.probes - 1 \in Nat
    BY <1>1 DEF Conn
  <2> QED
    BY <1>1, <2>1, <2>2, Zenon DEF Conn
<1>7. TypeOK'
  BY <1>0, <1>4, <1>6, TypeParts DEF Typed
<1>8. StreamsInv'
  <2>1. \A u \in Streams : data'[u] = data[u] /\ fin'[u] = fin[u]
    BY <1>4, <1>5
  <2> QED
    BY <1>0, <1>4, <1>6, <2>1 DEF StreamsInv, app
<1>9. SenderStep
  BY <1>4, <1>6, Stutters DEF SenderState, app
<1> QED
  BY <1>7, <1>8, <1>9 DEF IndInv

\* 0-RTT is rejected: the promise's Restart, with what is still in the queue.
LEMMA EarlyDataRejectedKeeps ==
    ASSUME IndInv, EarlyDataRejected
    PROVE  IndInv' /\ SenderStep
<1> DEFINE fresh == [state |-> "idle", credit |-> 0, accepted |-> <<>>, fin |-> FALSE]
<1>0. TypeOK /\ StreamsInv /\ Typed
  BY TypeParts DEF IndInv
<1>1. /\ quic' = [s \in Streams |-> fresh]
      /\ offered' = data /\ finished' = fin
      /\ conn' = [conn EXCEPT !.early = "rejected"]
      /\ UNCHANGED <<data, fin, order>> /\ UNCHANGED flush
  BY DEF EarlyDataRejected, pending
<1>2. fresh \in Quic
  BY Empty DEF Quic
<1>3. conn' \in Conn
  BY <1>0, <1>1 DEF Typed, Conn
<1>4. TypeOK'
  BY <1>0, <1>1, <1>2, <1>3, TypeParts DEF Typed, QueueTypes, LoopTypes, flush
<1>5. StreamsInv'
  <2> SUFFICES ASSUME NEW s \in Streams
               PROVE  StreamInv(data[s], fin[s], fresh, data[s], fin[s])
    BY <1>1 DEF StreamsInv
  <2>1. data[s] \in Seq(Bytes)
    BY <1>0 DEF Typed, QueueTypes
  <2>2. \E p \in Seq(Bytes) : data[s] = p \o data[s]
    BY <2>1, Empty, Zenon
  <2> QED
    BY <2>2 DEF StreamInv
<1>6. Sender!Restart
  <2>1. ASSUME NEW s \in Streams
        PROVE  Sender!EndsWith(offered[s], data[s]) /\ (fin[s] => finished[s])
    <3>1. StreamInv(data[s], fin[s], quic[s], offered[s], finished[s]) /\ data[s] \in Seq(Bytes)
      BY <1>0 DEF StreamsInv, Typed, QueueTypes
    <3>2. PICK p \in Seq(Bytes) : offered[s] = p \o data[s]
      BY <3>1, Zenon DEF StreamInv
    <3> QED
      BY <3>1, <3>2, Parts DEF StreamInv
  <2> QED
    BY <1>1, <2>1 DEF Sender!Restart, SenderState
<1> QED
  BY <1>4, <1>5, <1>6 DEF IndInv, SenderStep, Sender!Next
-----------------------------------------------------------------------------
\* The empty queue and streams that were not opened satisfy the invariant, and are
\* where the promise starts.
LEMMA InitHolds == Init => IndInv /\ Sender!Init
<1> SUFFICES ASSUME Init PROVE IndInv /\ Sender!Init
  OBVIOUS
<1>1. Typed
  BY Empty, StreamWriterAssumption, Zenon DEF Init, Typed, QueueTypes, LoopTypes, Quic, Conn
<1>2. StreamsInv
  <2> SUFFICES ASSUME NEW s \in Streams
               PROVE  StreamInv(data[s], fin[s], quic[s], offered[s], finished[s])
    BY DEF StreamsInv
  <2>1. \E p \in Seq(Bytes) : <<>> = p \o <<>>
    BY Empty, Zenon
  <2> QED
    BY <2>1, Zenon DEF Init, StreamInv
<1>3. Sender!Init
  BY DEF Init, Sender!Init, SenderState
<1> QED
  BY <1>1, <1>2, <1>3, TypeParts DEF IndInv

\* Every step keeps the invariant and is one of the promise, or none.
LEMMA NextKeeps == IndInv /\ [Next]_vars => IndInv' /\ SenderStep
<1> SUFFICES ASSUME IndInv, [Next]_vars PROVE IndInv' /\ SenderStep
  OBVIOUS
<1>0. Typed /\ QueueTypes /\ LoopTypes /\ conn \in Conn /\ quic \in [Streams -> Quic]
  BY TypeParts DEF IndInv, Typed
<1>1. ASSUME NEW s \in Streams, NEW n \in 0..MaxBytes, NEW f \in BOOLEAN, WriteStream(s, n, f)
      PROVE  IndInv' /\ SenderStep
  BY <1>1, WriteStreamKeeps
<1>2. ASSUME NEW s \in Streams, OpenStream(s) \/ ResetStream(s) \/ StopSending(s)
      PROVE  IndInv' /\ SenderStep
  BY <1>2, OpenStreamKeeps, ResetStreamKeeps, StopSendingKeeps
<1>3. ASSUME NEW s \in Streams, ExtendCredit(s) \/ StreamClosed(s)
      PROVE  IndInv' /\ SenderStep
  <2>1. UNCHANGED <<pending, app>> /\ UNCHANGED flush /\ UNCHANGED conn
    BY <1>3 DEF ExtendCredit, StreamClosed
  <2>2. LoopTypes'
    BY <1>0, <2>1 DEF LoopTypes, flush
  <2>3. /\ quic' \in [Streams -> Quic] /\ \A u \in Streams : Moved(quic[u], quic'[u])
        /\ \A u \in Streams : quic'[u].state # quic[u].state =>
               {quic[u].state, quic'[u].state} \subseteq {"shut", "resetting", "reset", "closed"}
    <3>1. CASE ExtendCredit(s)
      BY <1>0, <3>1, StreamWriterAssumption, Zenon DEF ExtendCredit, Moved, Quic
    <3>2. CASE StreamClosed(s)
      BY <1>0, <3>2, Zenon DEF StreamClosed, Moved, Quic
    <3> QED
      BY <1>3, <3>1, <3>2
  <2> QED
    BY <1>0, <2>1, <2>2, <2>3, MovesKeep
<1>4. ASSUME StartFlush \/ ControlError \/ OpenWindow \/ HandshakeCompleted \/ EnterDraining
      PROVE  IndInv' /\ SenderStep
  <2>1. UNCHANGED <<pending, quic, app>>
    BY <1>4 DEF StartFlush, ControlError, OpenWindow, HandshakeCompleted, EnterDraining
  <2>2. LoopTypes'
    BY <1>0, <1>4, Zenon DEF StartFlush, StartPass, ControlError, OpenWindow, HandshakeCompleted,
                      EnterDraining, LoopTypes, QueueTypes, flush
  <2>3. conn' \in Conn
    BY <1>0, <1>4, StreamWriterAssumption, Zenon
       DEF StartFlush, ControlError, OpenWindow, HandshakeCompleted, EnterDraining, Conn
  <2> QED
    BY <2>1, <2>2, <2>3, QuietKeeps
<1>5. ASSUME NEW s \in Streams, DataBlocked(s) \/ OtherError(s)
      PROVE  IndInv' /\ SenderStep
  <2>1. UNCHANGED <<pending, quic, app>> /\ UNCHANGED conn
    BY <1>5 DEF DataBlocked, OtherError
  <2>2. LoopTypes'
    BY <1>0, <1>5, Zenon DEF DataBlocked, OtherError, LoopTypes
  <2> QED
    BY <1>0, <2>1, <2>2, QuietKeeps
<1>6. ASSUME NEW s \in Streams, SkipEmpty(s) \/ ShutWr(s)
      PROVE  IndInv' /\ SenderStep
  <2>1. /\ Removed(s) /\ UNCHANGED <<app, quic, conn>>
        /\ \/ data[s] = <<>> /\ ~fin[s]
           \/ quic[s].state \notin {"idle", "open"}
    BY <1>6 DEF SkipEmpty, ShutWr
  <2>2. LoopTypes'
    BY <1>0, <1>6 DEF SkipEmpty, ShutWr, LoopTypes, Turn, Asked
  <2> QED
    BY <2>1, <2>2, DroppedKeeps
<1>7. ASSUME NEW s \in Streams, NEW k \in 0..MaxCredit, NEW c \in BOOLEAN, Accepted(s, k, c)
      PROVE  IndInv' /\ SenderStep
  BY <1>7, AcceptedKeeps
<1>8. ASSUME NEW s \in Streams, NoFrame(s)
      PROVE  IndInv' /\ SenderStep
  BY <1>8, NoFrameKeeps
<1>9. ASSUME ControlPackets
      PROVE  IndInv' /\ SenderStep
  <2>1. UNCHANGED <<pending, app>>
    BY <1>9 DEF ControlPackets
  <2>2. LoopTypes'
    BY <1>0, <1>9, Zenon DEF ControlPackets, StartPass, LoopTypes, QueueTypes
  <2>3. conn' \in Conn
    BY <1>0, <1>9, Zenon DEF ControlPackets, write_control_packets, Conn
  <2>4. /\ quic' \in [Streams -> Quic] /\ \A u \in Streams : Moved(quic[u], quic'[u])
        /\ \A u \in Streams : quic'[u].state # quic[u].state =>
               {quic[u].state, quic'[u].state} \subseteq {"shut", "resetting", "reset", "closed"}
    BY <1>0, <1>9, Zenon DEF ControlPackets, write_control_packets, Moved, Quic
  <2> QED
    BY <2>1, <2>2, <2>3, <2>4, MovesKeep
<1>10. CASE EarlyDataRejected
  BY <1>10, EarlyDataRejectedKeeps
<1>11. CASE UNCHANGED vars
  <2>1. UNCHANGED <<pending, quic, app>> /\ UNCHANGED conn /\ UNCHANGED flush
    BY <1>11 DEF vars
  <2>2. LoopTypes'
    BY <1>0, <2>1 DEF LoopTypes, flush
  <2> QED
    BY <1>0, <2>1, <2>2, QuietKeeps
<1> QED
  BY <1>1, <1>2, <1>3, <1>4, <1>5, <1>6, <1>7, <1>8, <1>9, <1>10, <1>11
     DEF Next, FlushStep, StreamStep

\* What the invariant of each stream says of the properties the runs check.
LEMMA Consequences == IndInv => TypeOK /\ NoByteLostOrDuplicated /\ FinKeptUntilCarried
<1> SUFFICES ASSUME IndInv, NEW s \in Streams
             PROVE  /\ quic[s].state = "open" => quic[s].accepted \o data[s] = offered[s]
                    /\ quic[s].state = "open" /\ finished[s] => fin[s] /\ s \in order
                    /\ quic[s].fin => quic[s].accepted = offered[s]
  BY Zenon DEF IndInv, NoByteLostOrDuplicated, FinKeptUntilCarried
<1>1. StreamInv(data[s], fin[s], quic[s], offered[s], finished[s])
  BY DEF IndInv, StreamsInv
<1>2. fin[s] => s \in order
  BY DEF IndInv, TypeOK
<1> QED
  BY <1>1, <1>2, Zenon DEF StreamInv

\* The queue and the loop are well formed, whatever ngtcp2 answers.
THEOREM TypeCorrect == Spec => []TypeOK
BY InitHolds, NextKeeps, Consequences, PTL DEF Spec

\* No byte given to write_stream is lost, sent twice or overtaken while its stream
\* can be written.
THEOREM NoByteLost == Spec => []NoByteLostOrDuplicated
BY InitHolds, NextKeeps, Consequences, PTL DEF Spec

\* FIN stays in the queue until ngtcp2 carried it, and goes last.
THEOREM FinKept == Spec => []FinKeptUntilCarried
BY InitHolds, NextKeeps, Consequences, PTL DEF Spec

\* When write_packets has returned Ok, every packet was completed.
THEOREM PacketsCompleted == Spec => []NoPacketLeftOpen
<1>1. Init => NoPacketLeftOpen
  BY DEF Init, NoPacketLeftOpen
<1>2. TypeOK /\ NoPacketLeftOpen /\ [Next]_vars => NoPacketLeftOpen'
  <2> SUFFICES ASSUME TypeOK, NoPacketLeftOpen, [Next]_vars PROVE NoPacketLeftOpen'
    OBVIOUS
  <2>0. conn \in Conn /\ phase \in {"idle", "streams"}
    BY DEF TypeOK, Conn
  <2>1. ASSUME NEW s \in Streams,
               \/ OpenStream(s) \/ ResetStream(s) \/ StopSending(s) \/ ExtendCredit(s)
               \/ StreamClosed(s) \/ \E n \in 0..MaxBytes : \E f \in BOOLEAN : WriteStream(s, n, f)
        PROVE  UNCHANGED <<conn, phase, result>>
    BY <2>1 DEF OpenStream, ResetStream, StopSending, ExtendCredit, StreamClosed, WriteStream, flush
  <2>2. ASSUME OpenWindow \/ HandshakeCompleted \/ EnterDraining \/ EarlyDataRejected
        PROVE  UNCHANGED <<phase, result>> /\ conn'.filling = conn.filling
    BY <2>0, <2>2 DEF OpenWindow, HandshakeCompleted, EnterDraining, EarlyDataRejected, flush, Conn
  <2>3. ASSUME NEW s \in Streams, StreamStep(s)
        PROVE  phase' = "streams" \/ result' = "err"
    BY <2>0, <2>3, Zenon DEF StreamStep, SkipEmpty, Accepted, NoFrame, Written, DataBlocked, ShutWr,
                      OtherError, Asked, Turn
  <2>4. ASSUME StartFlush \/ ControlError
        PROVE  phase' = "streams" \/ result' = "err"
    BY <2>4 DEF StartFlush, StartPass, ControlError
  <2>5. ASSUME ControlPackets
        PROVE  conn'.filling = FALSE
    BY <2>0, <2>5 DEF ControlPackets, write_control_packets, Conn
  <2>6. CASE UNCHANGED vars
    BY <2>6 DEF vars, flush, NoPacketLeftOpen
  <2> QED
    BY <2>1, <2>2, <2>3, <2>4, <2>5, <2>6, Zenon DEF NoPacketLeftOpen, Next, FlushStep
<1> QED
  BY <1>1, <1>2, TypeCorrect, PTL DEF Spec

\* The queue, the passes over it and every answer of ngtcp2 together implement the
\* promise made to the caller of write_stream.
THEOREM ImplementsSender == Spec => SenderImplemented
<1>1. IndInv /\ [Next]_vars => IndInv' /\ [Sender!Next]_(Sender!vars)
  BY NextKeeps DEF SenderStep
<1>2. Spec => Sender!Init /\ [][Sender!Next]_(Sender!vars)
  BY <1>1, InitHolds, PTL DEF Spec
<1> QED
  BY <1>2 DEF SenderImplemented, Sender!Spec
=============================================================================
