--------------------------- MODULE InFlightProofs ---------------------------
(***************************************************************************)
(* The buffer contract of ngtcp2_conn_writev_stream holds for any number   *)
(* of streams and any sizes: proofs about InFlightStreamData.              *)
(*                                                                         *)
(* RetransmitSafe is not inductive.  What makes it so is where the bytes   *)
(* are: the unacknowledged bytes are in order in the current buffer, and a *)
(* pointer that does not lead there leads into a retired buffer whose end  *)
(* lies beyond the byte, so that ack_until cannot have freed it.           *)
(***************************************************************************)
EXTENDS InFlightStreamData, TLAPS

\* The current buffer holds the bytes from the first unacknowledged one on.
InOrder(e) ==
    \A i \in 0..(e.data.len - 1) : i >= e.start => e.data.at[i] = e.offset + (i - e.start)

\* Pointer p leads to byte t in the current buffer of e ...
InCurrent(e, t, p) == p.id = e.data.id /\ p.index = e.start + (t - e.offset)

\* ... or in a retired one that outlives the byte's acknowledgement.
InRetired(e, t, p) ==
    \E r \in e.retired :
        /\ r.data.id = p.id
        /\ p.index < r.data.len
        /\ r.data.at[p.index] = t
        /\ t < r.end

PointersLead(e, q) ==
    \A t \in Outstanding(q) : InCurrent(e, t, q.ptr[t]) \/ InRetired(e, t, q.ptr[t])

Agree(e, q) ==
    /\ e.offset = q.acked
    /\ e.offset + (e.data.len - e.start) = q.base + q.tx
    /\ e.start = e.data.len => e.data.len = 0
    /\ \A r \in e.retired : r.end > e.offset /\ r.end <= q.base + q.tx

IsQuic(q) ==
    /\ q.state \in {"idle", "open", "closed"}
    /\ q.base \in Nat
    /\ q.tx \in Nat
    /\ q.acked \in 0..q.tx
    /\ q.ptr \in [Outstanding(q) -> [id : Nat, index : Nat]]

StreamInv(e, q) ==
    /\ IsEntry(e)
    /\ IsQuic(q)
    /\ Agree(e, q)
    /\ InOrder(e)
    /\ PointersLead(e, q)

IndInv ==
    /\ TypeOK
    /\ \A s \in Streams : StreamInv(entry[s], quic[s])
    /\ phase = "early" => \A s \in Streams : quic[s].acked = 0

\* The entry write_stream_with_flags leaves, as in WriteStream.
Written(e, first, n, k, id) ==
    truncate_unwritten(append(e, first, n, id),
        Greatest(append(e, first, n, id).data.len - n - append(e, first, n, id).start, 0) + k)

\* Entry g is room with the k bytes from first on behind its own.
IsWritten(room, g, first, k) ==
    /\ g.offset = room.offset /\ g.start = room.start /\ g.retired = room.retired
    /\ g.data.id = room.data.id /\ g.data.cap = room.data.cap
    /\ g.data.len = room.data.len + k
    /\ g.data.at \in [0..(g.data.len - 1) -> Nat]
    /\ \A i \in 0..(g.data.len - 1) :
          g.data.at[i] = IF i < room.data.len THEN room.data.at[i]
                         ELSE first + (i - room.data.len)

-----------------------------------------------------------------------------
(* The operations on one entry.                                            *)

\* Reserve finds room without moving what pointers lead to: it keeps the buffer
\* or retires it whole, and the current buffer still holds the bytes in order.
LEMMA ReserveLemma ==
    ASSUME NEW e, NEW q, NEW n \in Nat, NEW id \in Nat, StreamInv(e, q)
    PROVE  LET f == Reserve(e, n, id)
           IN  /\ StreamInv(f, q)
               /\ f.data.len + n <= f.data.cap
               /\ f.data.id \in {e.data.id, id}
  <1> DEFINE f == Reserve(e, n, id)
             held == e.data.len - e.start
             cap == Greatest(e.data.len + n, 2 * e.data.cap)
  <1>1. CASE e.data.len + n <= e.data.cap
    BY <1>1 DEF Reserve
  <1>2. CASE ~(e.data.len + n <= e.data.cap) /\ e.data.len = 0
    <2>1. f = WithData(e, WithCapacity(id, cap))
      BY <1>2 DEF Reserve
    <2>2. f.offset = e.offset /\ f.start = e.start /\ f.retired = e.retired
          /\ f.data.id = id /\ f.data.cap = cap /\ f.data.len = 0 /\ f.data.at = VecNew.at
      BY <2>1 DEF WithData, WithCapacity
    <2> HIDE DEF f
    <2>3. cap \in Nat /\ cap >= n
      BY <1>2 DEF StreamInv, IsEntry, IsVec, Greatest
    <2> HIDE DEF cap
    <2>4. VecNew.at \in [0..(0-1) -> Nat]
      BY DEF VecNew
    <2>5. IsEntry(f)
      BY <1>2, <2>2, <2>3, <2>4 DEF StreamInv, IsEntry, IsVec
    <2>6. Outstanding(q) = {}
      BY <1>2, SMTT(30) DEF StreamInv, IsEntry, IsVec, IsQuic, Agree, Outstanding
    <2>7. Agree(f, q) /\ InOrder(f) /\ PointersLead(f, q)
      BY <1>2, <2>2, <2>6 DEF StreamInv, IsEntry, IsVec, IsQuic, Agree, InOrder, PointersLead
    <2>8. StreamInv(f, q) /\ f.data.len + n <= f.data.cap
      BY <2>2, <2>3, <2>5, <2>7, <1>2 DEF StreamInv
    <2> QED
      BY <2>2, <2>8, <1>2 DEF f
  <1>3. CASE ~(e.data.len + n <= e.data.cap) /\ e.data.len # 0
    <2> DEFINE old == [data |-> e.data, end |-> e.offset + held]
               at == [i \in 0..(held - 1) |-> e.data.at[e.start + i]]
    <2>1. f.offset = e.offset /\ f.start = 0 /\ f.retired = e.retired \cup {old}
          /\ f.data.id = id /\ f.data.cap = cap /\ f.data.len = held /\ f.data.at = at
      BY <1>3, Zenon DEF Reserve
    <2> HIDE DEF f
    <2>2. cap \in Nat /\ cap >= e.data.len + n /\ held \in Nat /\ held > 0
          /\ e.data.len \in Nat /\ e.start \in Nat /\ e.offset \in Nat
      <3>1. e.offset \in Nat /\ e.data.len \in Nat /\ e.data.cap \in Nat /\ e.start \in 0..e.data.len
        BY DEF StreamInv, IsEntry, IsVec
      <3>2. e.start # e.data.len
        BY <1>3 DEF StreamInv, Agree
      <3> QED
        BY <3>1, <3>2 DEF Greatest
    <2> HIDE DEF cap
    <2>3. at \in [0..(held - 1) -> Nat]
      <3>1. e.data.at \in [0..(e.data.len - 1) -> Nat]
        BY DEF StreamInv, IsEntry, IsVec
      <3>2. \A i \in 0..(held - 1) : e.start + i \in 0..(e.data.len - 1)
        BY <2>2
      <3> QED
        BY <3>1, <3>2, Zenon
    <2> HIDE DEF at
    <2>4. IsEntry(f)
      <3>1. IsVec(f.data)
        BY <2>1, <2>2, <2>3, SMTT(30) DEF IsVec
      <3>2. \A r \in f.retired : IsVec(r.data) /\ r.end \in Nat
        BY <2>1, <2>2 DEF StreamInv, IsEntry
      <3> QED
        BY <2>1, <2>2, <3>1, <3>2 DEF IsEntry
    <2>5. Agree(f, q)
      BY <2>1, <2>2 DEF StreamInv, IsEntry, IsQuic, Agree
    <2>6. InOrder(f)
      <3> SUFFICES ASSUME NEW i \in 0..(held - 1)
                   PROVE  at[i] = e.offset + i
        BY <2>1, <2>2 DEF InOrder
      <3>1. e.start + i \in 0..(e.data.len - 1) /\ e.start + i >= e.start
        BY <2>2
      <3>2. e.data.at[e.start + i] = e.offset + ((e.start + i) - e.start)
        BY <3>1 DEF StreamInv, InOrder
      <3> QED
        BY <2>2, <3>2 DEF at
    <2>7. PointersLead(f, q)
      <3> SUFFICES ASSUME NEW t \in Outstanding(q)
                   PROVE  InRetired(f, t, q.ptr[t])
        BY DEF PointersLead
      <3> DEFINE p == q.ptr[t]
      <3>1. t \in Int /\ t >= e.offset /\ t < e.offset + held
        <4>1. e.offset = q.acked /\ e.offset + held = q.base + q.tx
          BY DEF StreamInv, Agree
        <4>2. q.base \in Nat /\ q.tx \in Nat /\ q.acked \in Nat
          BY DEF StreamInv, IsQuic
        <4> QED
          BY <2>2, <4>1, <4>2 DEF Outstanding
      <3>2. CASE InCurrent(e, t, p)
        <4>1. p.index < e.data.len /\ p.index >= e.start /\ p.index \in Nat
          BY <3>1, <3>2, <2>2 DEF InCurrent
        <4>2. e.data.at[p.index] = t
          BY <3>1, <3>2, <4>1, <2>2 DEF InCurrent, StreamInv, InOrder
        <4>3. old \in f.retired
          BY <2>1
        <4>4. old.data.id = p.id /\ p.index < old.data.len /\ old.data.at[p.index] = t /\ t < old.end
          BY <3>1, <3>2, <4>1, <4>2 DEF InCurrent
        <4> QED
          BY <4>3, <4>4 DEF InRetired
      <3>3. CASE InRetired(e, t, p)
        BY <2>1, <3>3 DEF InRetired
      <3> QED
        BY <3>2, <3>3 DEF StreamInv, PointersLead
    <2>8. StreamInv(f, q) /\ f.data.len + n <= f.data.cap
      BY <2>1, <2>2, <2>4, <2>5, <2>6, <2>7 DEF StreamInv
    <2> QED
      BY <2>1, <2>8, <1>3 DEF f
  <1> QED
    BY <1>1, <1>2, <1>3

\* Types of the parts of a stream that the arithmetic below uses.
LEMMA StreamTypes ==
    ASSUME NEW e, NEW q, StreamInv(e, q)
    PROVE  /\ e.offset \in Nat /\ e.start \in Nat /\ e.start <= e.data.len
           /\ e.data.len \in Nat /\ e.data.cap \in Nat /\ e.data.len <= e.data.cap
           /\ e.data.id \in Nat
           /\ e.data.at \in [0..(e.data.len - 1) -> Nat]
           /\ q.base \in Nat /\ q.tx \in Nat /\ q.acked \in Nat /\ q.acked <= q.tx
           /\ e.offset = q.acked
           /\ e.offset + (e.data.len - e.start) = q.base + q.tx
           /\ e.start = e.data.len => e.data.len = 0
  BY DEF StreamInv, IsEntry, IsVec, IsQuic, Agree

\* Vec::truncate keeps the allocation and the bytes before the new length.
LEMMA TruncatedLemma ==
    ASSUME NEW v, NEW len, len < v.len
    PROVE  /\ Truncated(v, len).id = v.id
           /\ Truncated(v, len).cap = v.cap
           /\ Truncated(v, len).len = len
           /\ Truncated(v, len).at = FirstBytes(v.at, len)
  BY DEF Truncated

\* ... and nothing else.
LEMMA FirstBytesLemma ==
    ASSUME NEW len \in Nat, NEW m \in 0..len, NEW at \in [0..(len - 1) -> Nat]
    PROVE  /\ FirstBytes(at, m) \in [0..(m - 1) -> Nat]
           /\ \A i \in 0..(m - 1) : i \in 0..(len - 1) /\ FirstBytes(at, m)[i] = at[i]
  BY DEF FirstBytes

\* extend_from_slice keeps the bytes and adds n behind them.
LEMMA ExtendedLemma ==
    ASSUME NEW v, NEW first \in Nat, NEW n \in Nat,
           v.len \in Nat, v.at \in [0..(v.len - 1) -> Nat]
    PROVE  LET w == Extended(v, first, n)
           IN  /\ w.id = v.id /\ w.cap = v.cap /\ w.len = v.len + n
               /\ w.at \in [0..(w.len - 1) -> Nat]
               /\ \A i \in 0..(w.len - 1) :
                     w.at[i] = IF i < v.len THEN v.at[i] ELSE first + (i - v.len)
  <1> DEFINE at == [i \in 0..(v.len + n - 1) |->
                      IF i < v.len THEN v.at[i] ELSE first + (i - v.len)]
  <1>1. /\ Extended(v, first, n).id = v.id /\ Extended(v, first, n).cap = v.cap
        /\ Extended(v, first, n).len = v.len + n /\ Extended(v, first, n).at = at
    BY DEF Extended
  <1>2. \A i \in 0..(v.len + n - 1) :
            /\ i < v.len => i \in 0..(v.len - 1)
            /\ ~(i < v.len) => first + (i - v.len) \in Nat
    OBVIOUS
  <1>3. at \in [0..(v.len + n - 1) -> Nat]
    BY <1>2
  <1>4. \A i \in 0..(v.len + n - 1) :
            at[i] = IF i < v.len THEN v.at[i] ELSE first + (i - v.len)
    OBVIOUS
  <1> HIDE DEF at
  <1>5. Extended(v, first, n).at \in [0..(Extended(v, first, n).len - 1) -> Nat]
    BY <1>1, <1>3
  <1>6. \A i \in 0..(Extended(v, first, n).len - 1) :
            Extended(v, first, n).at[i] = IF i < v.len THEN v.at[i] ELSE first + (i - v.len)
    BY <1>1, <1>4
  <1> QED
    BY <1>1, <1>5, <1>6

\* The entry after write_stream_with_flags: what was held, and the k bytes
\* ngtcp2 accepted behind it, at the place they were offered.
LEMMA WrittenLemma ==
    ASSUME NEW e, NEW q, NEW n \in Nat, NEW k \in 0..n, NEW id \in Nat, NEW first \in Nat,
           StreamInv(e, q)
    PROVE  /\ append(e, first, n, id).data.id = Reserve(e, n, id).data.id
           /\ append(e, first, n, id).data.len - n = Reserve(e, n, id).data.len
           /\ IsWritten(Reserve(e, n, id), Written(e, first, n, k, id), first, k)
  <1> DEFINE room == Reserve(e, n, id)
             appended == append(e, first, n, id)
             start == appended.data.len - n
             kept == Greatest(start - appended.start, 0) + k
             g == truncate_unwritten(appended, kept)
             v == room.data
             w == Extended(v, first, n)
             m == v.len + k
  <1>1. StreamInv(room, q)
    BY ReserveLemma
  <1>2. v.len \in Nat /\ room.start \in Nat /\ room.start <= v.len
        /\ v.at \in [0..(v.len - 1) -> Nat]
    BY <1>1, StreamTypes
  <1>3. /\ appended.offset = room.offset /\ appended.start = room.start
        /\ appended.retired = room.retired /\ appended.data = w
    BY DEF append, WithData
  <1> HIDE DEF room, appended, v, w
  <1>4. /\ w.id = v.id /\ w.cap = v.cap /\ w.len = v.len + n
        /\ w.at \in [0..(w.len - 1) -> Nat]
        /\ \A i \in 0..(w.len - 1) :
              w.at[i] = IF i < v.len THEN v.at[i] ELSE first + (i - v.len)
    BY <1>2, ExtendedLemma, Zenon DEF w
  <1>5. start = v.len /\ kept = (v.len - room.start) + k
    BY <1>2, <1>3, <1>4 DEF Greatest
  <1>6. w.len \in Nat /\ m \in 0..w.len /\ m \in Nat
    BY <1>2, <1>4
  <1>7. g = WithData(appended, Truncated(w, m))
    <2>1. appended.start + kept = m
      BY <1>2, <1>3, <1>5
    <2> QED
      BY <1>3, <2>1 DEF truncate_unwritten
  <1> HIDE DEF g, m
  <1>8. g.offset = room.offset /\ g.start = room.start /\ g.retired = room.retired
        /\ g.data = Truncated(w, m)
    BY <1>3, <1>7 DEF WithData
  <1>9. /\ g.data.id = v.id /\ g.data.cap = v.cap /\ g.data.len = m
        /\ g.data.at \in [0..(m - 1) -> Nat]
        /\ \A i \in 0..(m - 1) :
              g.data.at[i] = IF i < v.len THEN v.at[i] ELSE first + (i - v.len)
    <2>1. CASE m < w.len
      <3>1. /\ g.data.id = w.id /\ g.data.cap = w.cap /\ g.data.len = m
            /\ g.data.at = FirstBytes(w.at, m)
        BY <1>8, <2>1, TruncatedLemma
      <3>2. /\ FirstBytes(w.at, m) \in [0..(m - 1) -> Nat]
            /\ \A i \in 0..(m - 1) :
                  i \in 0..(w.len - 1) /\ FirstBytes(w.at, m)[i] = w.at[i]
        BY <1>4, <1>6, FirstBytesLemma, Zenon
      <3> QED
        BY <1>4, <3>1, <3>2
    <2>2. CASE ~(m < w.len)
      <3>1. g.data = w /\ m = w.len
        BY <1>6, <1>8, <2>2 DEF Truncated
      <3> QED
        BY <1>4, <3>1
    <2> QED
      BY <2>1, <2>2
  <1>10. /\ appended.data.id = v.id
         /\ start = v.len
         /\ g.offset = room.offset /\ g.start = room.start /\ g.retired = room.retired
         /\ g.data.id = v.id /\ g.data.cap = v.cap
         /\ g.data.len = v.len + k
         /\ g.data.at \in [0..(g.data.len - 1) -> Nat]
         /\ \A i \in 0..(g.data.len - 1) :
               g.data.at[i] = IF i < v.len THEN v.at[i] ELSE first + (i - v.len)
    <2>1. m = v.len + k
      BY DEF m
    <2> QED
      BY <1>3, <1>4, <1>5, <1>8, <1>9, <2>1
  <1> HIDE DEF start
  <1> QED
    BY <1>10, Zenon DEF g, v, room, start, kept, appended, Written, IsWritten

\* A write keeps the invariant of its stream: old pointers stay good because
\* Reserve moved nothing they lead to, and the new ones lead to the new bytes.
LEMMA WriteKeepsStream ==
    ASSUME NEW e, NEW q, NEW n \in Nat, NEW k \in 0..n, NEW id \in Nat,
           StreamInv(e, q)
    PROVE  LET first == q.base + q.tx
               appended == append(e, first, n, id)
               start == appended.data.len - n
           IN  StreamInv(Written(e, first, n, k, id),
                         Stream(q.state, q.base, q.acked, q.tx + k,
                           [t \in (q.base + q.acked)..(first + k - 1) |->
                              IF t < first THEN q.ptr[t]
                              ELSE [id |-> appended.data.id, index |-> start + (t - first)]]))
  <1> DEFINE room == Reserve(e, n, id)
             first == q.base + q.tx
             appended == append(e, first, n, id)
             start == appended.data.len - n
             g == Written(e, first, n, k, id)
             ptr == [t \in (q.base + q.acked)..(first + k - 1) |->
                       IF t < first THEN q.ptr[t]
                       ELSE [id |-> appended.data.id, index |-> start + (t - first)]]
             h == Stream(q.state, q.base, q.acked, q.tx + k, ptr)
  <1>1. StreamInv(room, q) /\ room.data.len + n <= room.data.cap
    BY ReserveLemma, Zenon
  <1>2. /\ room.offset \in Nat /\ room.start \in Nat /\ room.start <= room.data.len
        /\ room.data.len \in Nat /\ room.data.cap \in Nat /\ room.data.id \in Nat
        /\ q.base \in Nat /\ q.tx \in Nat /\ q.acked \in Nat /\ q.acked <= q.tx
        /\ room.offset = q.acked
        /\ room.offset + (room.data.len - room.start) = q.base + q.tx
        /\ room.start = room.data.len => room.data.len = 0
    BY <1>1, StreamTypes
  <1>a. room.data.at \in [0..(room.data.len - 1) -> Nat]
    BY <1>1, StreamTypes
  <1>b. k \in Nat /\ k <= n /\ first \in Nat
    BY <1>2
  <1>c. appended.data.id = room.data.id /\ start = room.data.len /\ IsWritten(room, g, first, k)
    BY <1>b, WrittenLemma
  <1>3. /\ appended.data.id = room.data.id
        /\ start = room.data.len
        /\ g.offset = room.offset /\ g.start = room.start /\ g.retired = room.retired
        /\ g.data.id = room.data.id /\ g.data.cap = room.data.cap
        /\ g.data.len = room.data.len + k
    BY <1>c DEF IsWritten
  <1>4. /\ h.state = q.state /\ h.base = q.base /\ h.acked = q.acked
        /\ h.tx = q.tx + k /\ h.ptr = ptr
    BY DEF Stream
  <1>5. /\ \A r \in room.retired : IsVec(r.data) /\ r.end \in Nat
        /\ \A r \in room.retired : r.end > room.offset /\ r.end <= q.base + q.tx
        /\ q.state \in {"idle", "open", "closed"}
        /\ q.ptr \in [(q.base + q.acked)..(q.base + q.tx - 1) -> [id : Nat, index : Nat]]
        /\ \A i \in 0..(room.data.len - 1) :
              i >= room.start => room.data.at[i] = room.offset + (i - room.start)
        /\ \A t \in (q.base + q.acked)..(q.base + q.tx - 1) :
              InCurrent(room, t, q.ptr[t]) \/ InRetired(room, t, q.ptr[t])
    BY <1>1 DEF StreamInv, IsEntry, IsQuic, Agree, InOrder, PointersLead, Outstanding
  <1> HIDE DEF room, appended, start, g, h, ptr
  <1>6. IsEntry(g)
    <2>2. IsVec(g.data)
      <3>1. g.data.cap \in Nat /\ g.data.len \in 0..g.data.cap /\ g.data.id \in Nat
        BY <1>1, <1>2, <1>3, <1>b
      <3> QED
        BY <1>c, <3>1 DEF IsVec, IsWritten
    <2> QED
      BY <1>2, <1>3, <1>5, <2>2, SMTT(30) DEF IsEntry
  <1>7. IsQuic(h)
    <2>1. Outstanding(h) = (q.base + q.acked)..(first + k - 1)
      <3>1. h.base + h.acked = q.base + q.acked /\ h.base + h.tx - 1 = first + k - 1
        BY <1>2, <1>4, <1>b
      <3> QED
        BY <3>1 DEF Outstanding
    <2>4. h.base \in Nat /\ h.tx \in Nat /\ h.acked \in 0..h.tx
      BY <1>2, <1>4, <1>b
    <2> USE DEF ptr
    <2>2. ASSUME NEW t \in (q.base + q.acked)..(first + k - 1)
          PROVE  ptr[t] \in [id : Nat, index : Nat]
      <3>1. CASE t < first
        <4>1. t \in (q.base + q.acked)..(q.base + q.tx - 1)
          BY <1>2, <1>b, <3>1
        <4> QED
          BY <1>5, <3>1, <4>1, Zenon
      <3>2. CASE ~(t < first)
        <4>1. start + (t - first) \in Nat /\ appended.data.id \in Nat
          BY <1>2, <1>3, <3>2
        <4> QED
          BY <3>2, <4>1
      <3> QED
        BY <3>1, <3>2
    <2>3. ptr \in [Outstanding(h) -> [id : Nat, index : Nat]]
      BY <2>1, <2>2
    <2> QED
      BY <1>4, <1>5, <2>3, <2>4 DEF IsQuic
  <1>8. Agree(g, h)
    <2>1. g.offset = h.acked /\ g.offset + (g.data.len - g.start) = h.base + h.tx
      BY <1>2, <1>3, <1>4, <1>b
    <2>2. g.start = g.data.len => g.data.len = 0
      BY <1>2, <1>3, <1>b
    <2>3. \A r \in g.retired : r.end > g.offset /\ r.end <= h.base + h.tx
      <3> SUFFICES ASSUME NEW r \in room.retired
                   PROVE  r.end > g.offset /\ r.end <= h.base + h.tx
        BY <1>3
      <3>1. r.end \in Nat /\ r.end > room.offset /\ r.end <= q.base + q.tx
        BY <1>5
      <3> QED
        BY <1>2, <1>3, <1>4, <1>b, <3>1
    <2> QED
      BY <2>1, <2>2, <2>3 DEF Agree
  <1>9. InOrder(g)
    <2> SUFFICES ASSUME NEW i \in 0..(g.data.len - 1), i >= room.start
                 PROVE  g.data.at[i] = room.offset + (i - room.start)
      BY <1>2, <1>3, <1>b DEF InOrder
    <2>1. CASE i < room.data.len
      <3>1. i \in 0..(room.data.len - 1)
        BY <1>2, <2>1
      <3> QED
        BY <1>5, <1>c, <2>1, <3>1 DEF IsWritten
    <2>2. CASE ~(i < room.data.len)
      <3>1. g.data.at[i] = first + (i - room.data.len)
        BY <1>c, <2>2 DEF IsWritten
      <3> QED
        BY <1>2, <1>b, <1>3, <3>1
    <2> QED
      BY <2>1, <2>2
  <1>10. PointersLead(g, h)
    <2> SUFFICES ASSUME NEW t \in (q.base + q.acked)..(first + k - 1)
                 PROVE  InCurrent(g, t, ptr[t]) \/ InRetired(g, t, ptr[t])
      BY <1>2, <1>4, <1>b, SMTT(30) DEF PointersLead, Outstanding
    <2> USE DEF ptr
    <2>1. CASE t < first
      <3>1. t \in (q.base + q.acked)..(q.base + q.tx - 1) /\ ptr[t] = q.ptr[t]
        BY <1>2, <2>1
      <3> QED
        BY <1>3, <1>5, <3>1, SMTT(30) DEF InCurrent, InRetired
    <2>2. CASE ~(t < first)
      <3>1. ptr[t] = [id |-> appended.data.id, index |-> start + (t - first)]
        BY <2>2
      <3>2. start + (t - first) = g.start + (t - g.offset)
        BY <1>2, <1>3
      <3> QED
        BY <1>3, <3>1, <3>2 DEF InCurrent
    <2> QED
      BY <2>1, <2>2
  <1>11. StreamInv(g, h)
    BY <1>6, <1>7, <1>8, <1>9, <1>10 DEF StreamInv
  <1> QED
    BY <1>11 DEF g, h, start, appended, ptr

\* An acknowledgement keeps the invariant of its stream: ack_until frees only
\* retired buffers no remaining pointer leads into, and moves no byte.
LEMMA AckKeepsStream ==
    ASSUME NEW e, NEW q, NEW upto \in q.acked..q.tx, StreamInv(e, q)
    PROVE  StreamInv(ack_until(e, upto),
                     Stream(q.state, q.base, upto, q.tx,
                            [t \in (q.base + upto)..(q.base + q.tx - 1) |-> q.ptr[t]]))
  <1> DEFINE f == ack_until(e, upto)
             ptr == [t \in (q.base + upto)..(q.base + q.tx - 1) |-> q.ptr[t]]
             h == Stream(q.state, q.base, upto, q.tx, ptr)
             held == e.data.len - e.start
             acked == upto - e.offset
  <1>1. /\ e.offset \in Nat /\ e.start \in Nat /\ e.start <= e.data.len
        /\ e.data.len \in Nat
        /\ q.base \in Nat /\ q.tx \in Nat /\ q.acked \in Nat /\ q.acked <= q.tx
        /\ e.offset = q.acked
        /\ e.offset + (e.data.len - e.start) = q.base + q.tx
        /\ e.start = e.data.len => e.data.len = 0
    BY StreamTypes
  <1>2. upto \in Nat /\ upto >= q.acked /\ upto <= q.tx /\ held \in Nat
    BY <1>1
  <1>3. /\ h.state = q.state /\ h.base = q.base /\ h.acked = upto
        /\ h.tx = q.tx /\ h.ptr = ptr
    BY DEF Stream
  <1>4. /\ IsVec(e.data)
        /\ \A r \in e.retired : IsVec(r.data) /\ r.end \in Nat
        /\ \A r \in e.retired : r.end > e.offset /\ r.end <= q.base + q.tx
        /\ q.state \in {"idle", "open", "closed"}
        /\ q.ptr \in [(q.base + q.acked)..(q.base + q.tx - 1) -> [id : Nat, index : Nat]]
        /\ \A i \in 0..(e.data.len - 1) :
              i >= e.start => e.data.at[i] = e.offset + (i - e.start)
        /\ \A t \in (q.base + q.acked)..(q.base + q.tx - 1) :
              InCurrent(e, t, q.ptr[t]) \/ InRetired(e, t, q.ptr[t])
    BY DEF StreamInv, IsEntry, IsQuic, Agree, InOrder, PointersLead, Outstanding
  <1>5. \A t \in (q.base + upto)..(q.base + q.tx - 1) :
            t \in (q.base + q.acked)..(q.base + q.tx - 1)
    BY <1>1, <1>2
  <1>6. \A t \in (q.base + upto)..(q.base + q.tx - 1) : ptr[t] = q.ptr[t]
    OBVIOUS
  <1>7. IsQuic(h)
    <2>1. ptr \in [(q.base + upto)..(q.base + q.tx - 1) -> [id : Nat, index : Nat]]
      BY <1>4, <1>5, Zenon
    <2> HIDE DEF ptr, h
    <2> QED
      BY <1>1, <1>2, <1>3, <1>4, <2>1 DEF IsQuic, Outstanding
  <1> HIDE DEF h, ptr
  <1>8. CASE upto <= e.offset
    <2>1. f = e
      BY <1>8 DEF ack_until
    <2>2. Agree(e, h) /\ PointersLead(e, h)
      BY <1>1, <1>2, <1>3, <1>4, <1>5, <1>6, <1>8 DEF Agree, PointersLead, Outstanding
    <2> QED
      BY <1>7, <2>1, <2>2 DEF StreamInv, h, ptr
  <1>9. CASE ~(upto <= e.offset)
    <2>1. /\ acked \in Nat /\ acked > 0 /\ acked <= held
          /\ Least(upto - e.offset, e.data.len - e.start) = acked
          /\ e.offset + acked = upto
      BY <1>1, <1>2, <1>9 DEF Least
    <2>2. /\ f.offset = upto
          /\ f.start = IF e.start + acked = e.data.len THEN 0 ELSE e.start + acked
          /\ f.data = IF e.start + acked = e.data.len THEN Truncated(e.data, 0) ELSE e.data
          /\ f.retired = {r \in e.retired : r.end > upto}
      <3> HIDE DEF acked
      <3> QED
        BY <1>9, <2>1 DEF ack_until
    <2> HIDE DEF f
    <2>3. /\ \A r \in f.retired : IsVec(r.data) /\ r.end \in Nat
          /\ \A r \in f.retired : r.end > upto /\ r.end <= q.base + q.tx
      BY <1>4, <2>2
    <2>4. CASE e.start + acked = e.data.len
      <3>1. upto = q.base + q.tx
        BY <1>1, <1>2, <2>1, <2>4
      <3>2. 0 < e.data.len
        BY <1>1, <2>1, <2>4
      <3>3. /\ f.data.id = e.data.id /\ f.data.cap = e.data.cap /\ f.data.len = 0
            /\ f.data.at = FirstBytes(e.data.at, 0)
        BY <2>2, <2>4, <3>2, TruncatedLemma
      <3>4. FirstBytes(e.data.at, 0) \in [0..(0 - 1) -> Nat]
        BY DEF FirstBytes
      <3>5. IsEntry(f)
        BY <1>2, <1>4, <2>2, <2>3, <2>4, <3>3, <3>4, SMTT(30) DEF IsEntry, IsVec
      <3>6. Agree(f, h)
        BY <1>1, <1>2, <1>3, <2>2, <2>3, <2>4, <3>1, <3>3 DEF Agree
      <3>7. InOrder(f)
        BY <3>3 DEF InOrder
      <3>8. PointersLead(f, h)
        BY <1>1, <1>2, <1>3, <3>1 DEF PointersLead, Outstanding
      <3> QED
        BY <1>7, <3>5, <3>6, <3>7, <3>8 DEF StreamInv, h, ptr, f
    <2>5. CASE e.start + acked # e.data.len
      <3>1. f.start = e.start + acked /\ f.data = e.data
        BY <2>2, <2>5
      <3>2. IsEntry(f)
        <4>1. f.offset \in Nat /\ f.start \in 0..f.data.len
          BY <1>1, <1>2, <2>1, <2>2, <3>1
        <4> QED
          BY <1>4, <2>3, <3>1, <4>1 DEF IsEntry
      <3>3. Agree(f, h)
        BY <1>1, <1>2, <1>3, <2>1, <2>2, <2>3, <2>5, <3>1 DEF Agree
      <3>4. InOrder(f)
        <4> SUFFICES ASSUME NEW i \in 0..(e.data.len - 1), i >= f.start
                     PROVE  e.data.at[i] = f.offset + (i - f.start)
          BY <3>1 DEF InOrder
        <4>1. i >= e.start /\ e.offset + (i - e.start) = f.offset + (i - f.start)
          BY <1>1, <1>2, <2>1, <2>2, <3>1
        <4> QED
          BY <1>4, <4>1
      <3>5. PointersLead(f, h)
        <4> SUFFICES ASSUME NEW t \in (q.base + upto)..(q.base + q.tx - 1)
                     PROVE  InCurrent(f, t, q.ptr[t]) \/ InRetired(f, t, q.ptr[t])
          BY <1>3, <1>6 DEF PointersLead, Outstanding
        <4>1. InCurrent(e, t, q.ptr[t]) \/ InRetired(e, t, q.ptr[t])
          BY <1>4, <1>5
        <4>2. t \in Int /\ t >= upto
          BY <1>1, <1>2
        <4>3. CASE InCurrent(e, t, q.ptr[t])
          <5>1. e.start + (t - e.offset) = f.start + (t - f.offset)
            BY <1>1, <1>2, <2>1, <2>2, <3>1, <4>2
          <5> QED
            BY <3>1, <4>3, <5>1 DEF InCurrent
        <4>4. CASE InRetired(e, t, q.ptr[t])
          <5>1. PICK r \in e.retired : /\ r.data.id = q.ptr[t].id
                                       /\ q.ptr[t].index < r.data.len
                                       /\ r.data.at[q.ptr[t].index] = t
                                       /\ t < r.end
            BY <4>4 DEF InRetired
          <5>2. r.end \in Nat /\ r.end > upto
            BY <1>2, <1>4, <4>2, <5>1
          <5>3. r \in f.retired
            BY <2>2, <5>2
          <5> QED
            BY <5>1, <5>3 DEF InRetired
        <4> QED
          BY <4>1, <4>3, <4>4
      <3> QED
        BY <1>7, <3>2, <3>3, <3>4, <3>5 DEF StreamInv, h, ptr, f
    <2> QED
      BY <2>4, <2>5
  <1> QED
    BY <1>8, <1>9

\* A stream without pointers and without a map entry, or whose entry only holds
\* bytes ngtcp2 has dropped.
LEMMA FreshStream ==
    ASSUME NEW e, NEW q, StreamInv(e, q), q.acked = 0
    PROVE  StreamInv(e, NotOpened(q.base + q.tx))
  <1> DEFINE b == q.base + q.tx
             h == NotOpened(b)
  <1>1. /\ e.offset \in Nat /\ e.start \in Nat /\ e.start <= e.data.len
        /\ e.data.len \in Nat
        /\ q.base \in Nat /\ q.tx \in Nat
        /\ e.offset = 0
        /\ e.offset + (e.data.len - e.start) = q.base + q.tx
        /\ e.start = e.data.len => e.data.len = 0
    BY StreamTypes
  <1>2. b \in Nat /\ e.offset + (e.data.len - e.start) = b
    BY <1>1
  <1>3. \A r \in e.retired : r.end > e.offset /\ r.end <= b
    BY DEF StreamInv, Agree
  <1> HIDE DEF b
  <1>4. /\ h.state = "idle" /\ h.base = b /\ h.acked = 0 /\ h.tx = 0
        /\ h.ptr = NoPointers(b)
    BY DEF NotOpened, Stream
  <1> HIDE DEF h
  <1>5. NoPointers(b) \in [b..(b - 1) -> [id : Nat, index : Nat]]
    BY <1>2 DEF NoPointers
  <1>6. Outstanding(h) = b..(b - 1)
    BY <1>2, <1>4 DEF Outstanding
  <1>7. IsQuic(h)
    BY <1>2, <1>4, <1>5, <1>6 DEF IsQuic
  <1>8. Agree(e, h)
    BY <1>1, <1>2, <1>3, <1>4 DEF Agree
  <1>9. PointersLead(e, h)
    BY <1>2, <1>6 DEF PointersLead
  <1> QED
    BY <1>7, <1>8, <1>9 DEF StreamInv, h, b

\* A stream ngtcp2 never saw or has closed.
LEMMA EmptyStream == StreamInv(NoEntry, NotOpened(0)) /\ StreamInv(NoEntry, Closed)
  <1>1. IsEntry(NoEntry)
    <2>1. VecNew.at \in [0..(0 - 1) -> Nat]
      BY DEF VecNew
    <2>2. VecNew.id = 0 /\ VecNew.cap = 0 /\ VecNew.len = 0
      BY DEF VecNew
    <2>3. IsVec(VecNew)
      BY <2>1, <2>2 DEF IsVec
    <2> QED
      BY <2>2, <2>3 DEF NoEntry, IsEntry
  <1>2. InOrder(NoEntry)
    BY DEF NoEntry, VecNew, InOrder
  <1>3. ASSUME NEW state \in {"idle", "closed"}
        PROVE  StreamInv(NoEntry, Stream(state, 0, 0, 0, NoPointers(0)))
    <2> DEFINE h == Stream(state, 0, 0, 0, NoPointers(0))
    <2>1. /\ h.state = state /\ h.base = 0 /\ h.acked = 0 /\ h.tx = 0
          /\ h.ptr = NoPointers(0)
      BY DEF Stream
    <2> HIDE DEF h
    <2>2. Outstanding(h) = 0..(0 - 1)
      BY <2>1 DEF Outstanding
    <2>3. NoPointers(0) \in [0..(0 - 1) -> [id : Nat, index : Nat]]
      BY DEF NoPointers
    <2>4. IsQuic(h)
      BY <2>1, <2>2, <2>3 DEF IsQuic
    <2>5. Agree(NoEntry, h)
      BY <2>1 DEF NoEntry, VecNew, Agree
    <2>6. PointersLead(NoEntry, h)
      BY <2>2 DEF PointersLead
    <2> QED
      BY <1>1, <1>2, <2>4, <2>5, <2>6 DEF StreamInv, h
  <1> QED
    BY <1>3 DEF NotOpened, Closed

-----------------------------------------------------------------------------
(* The invariant of the whole map.                                         *)

\* The invariant of every stream contains the types and implies the properties.
LEMMA Consequences ==
    ASSUME NEW e, NEW q, StreamInv(e, q)
    PROVE  /\ \A t \in Outstanding(q) :
                \E v \in Live(e) : /\ v.id = q.ptr[t].id
                                   /\ q.ptr[t].index < v.len
                                   /\ v.at[q.ptr[t].index] = t
           /\ e.offset + (e.data.len - e.start) = q.base + q.tx
           /\ \A r \in e.retired : r.end > q.acked /\ r.end <= q.base + q.tx
  <1>1. ASSUME NEW t \in Outstanding(q)
        PROVE  \E v \in Live(e) : /\ v.id = q.ptr[t].id
                                  /\ q.ptr[t].index < v.len
                                  /\ v.at[q.ptr[t].index] = t
    <2> DEFINE p == q.ptr[t]
    <2>1. CASE InCurrent(e, t, p)
      <3>1. t \in Int /\ t >= e.offset /\ t < e.offset + (e.data.len - e.start)
        BY StreamTypes DEF Outstanding
      <3>2. p.index \in 0..(e.data.len - 1) /\ p.index >= e.start
            /\ e.offset + (p.index - e.start) = t
        BY StreamTypes, <2>1, <3>1, SMTT(30) DEF InCurrent
      <3>3. e.data.at[p.index] = t
        BY <3>2 DEF StreamInv, InOrder
      <3>4. p.index < e.data.len
        BY StreamTypes, <3>2
      <3> QED
        BY <2>1, <3>3, <3>4 DEF InCurrent, Live
    <2>2. CASE InRetired(e, t, p)
      BY <2>2 DEF InRetired, Live
    <2> QED
      BY <2>1, <2>2 DEF StreamInv, PointersLead
  <1> QED
    BY <1>1 DEF StreamInv, Agree

\* The streams of a new connection satisfy the invariant.
LEMMA InitEstablishes == Init => IndInv
  <1> SUFFICES ASSUME Init PROVE IndInv
    OBVIOUS
  <1>1. \A s \in Streams : StreamInv(entry[s], quic[s]) /\ quic[s].acked = 0
    BY EmptyStream, Zenon DEF Init, NotOpened, Stream
  <1>2. TypeOK
    BY <1>1 DEF Init, TypeOK, StreamInv, IsQuic
  <1> QED
    BY <1>1, <1>2 DEF IndInv

\* One case per callback and API call; only the stream it concerns changes.
LEMMA NextKeeps == IndInv /\ [Next]_vars => IndInv'
  <1> SUFFICES ASSUME IndInv, [Next]_vars PROVE IndInv'
    OBVIOUS
  <1>t. /\ phase \in {"early", "done"} /\ nextId \in Nat \ {0}
        /\ DOMAIN entry = Streams /\ DOMAIN quic = Streams
        /\ \A s \in Streams : StreamInv(entry[s], quic[s])
        /\ phase = "early" => \A s \in Streams : quic[s].acked = 0
    BY DEF IndInv, TypeOK
  <1>q. ASSUME phase' \in {"early", "done"}, nextId' \in Nat \ {0},
               DOMAIN entry' = Streams, DOMAIN quic' = Streams,
               \A s \in Streams : StreamInv(entry'[s], quic'[s]),
               phase' = "early" => \A s \in Streams : quic'[s].acked = 0
        PROVE  IndInv'
    BY <1>q DEF IndInv, TypeOK, StreamInv, IsQuic
  <1>1. ASSUME NEW s \in Streams, OpenStream(s) PROVE IndInv'
    <2> DEFINE h == Stream("open", quic[s].base, quic[s].acked, quic[s].tx, quic[s].ptr)
    <2>1. StreamInv(entry[s], h) /\ h.acked = quic[s].acked
      BY <1>t DEF StreamInv, IsQuic, Agree, PointersLead, Outstanding, Stream
    <2>2. quic' = [quic EXCEPT ![s] = h] /\ entry' = entry /\ phase' = phase /\ nextId' = nextId
      BY <1>1 DEF OpenStream
    <2> HIDE DEF h
    <2> QED
      BY <1>t, <1>q, <2>1, <2>2, SMTT(30)
  <1>2. ASSUME NEW s \in Streams, NEW n \in 0..MaxChunk, NEW k \in 0..n, WriteStream(s, n, k)
        PROVE  IndInv'
    <2> DEFINE q == quic[s]
               first == q.base + q.tx
               appended == append(entry[s], first, n, nextId)
               start == appended.data.len - n
               g == Written(entry[s], first, n, k, nextId)
               h == Stream(q.state, q.base, q.acked, q.tx + k,
                      [t \in (q.base + q.acked)..(first + k - 1) |->
                         IF t < first THEN q.ptr[t]
                         ELSE [id |-> appended.data.id, index |-> start + (t - first)]])
    <2>1. n \in Nat
      BY BoundsAssumption
    <2>2. StreamInv(g, h)
      BY <1>t, <2>1, WriteKeepsStream, SMTT(30)
    <2>3. h.acked = q.acked
      BY DEF Stream
    <2>4. entry' = [entry EXCEPT ![s] = g] /\ quic' = [quic EXCEPT ![s] = h] /\ phase' = phase
      BY <1>2, SMTT(30) DEF WriteStream, Written
    <2>5. nextId' \in Nat \ {0}
      BY <1>t, <1>2, SMTT(30) DEF WriteStream
    <2> HIDE DEF g, h
    <2> QED
      BY <1>t, <1>q, <2>2, <2>3, <2>4, <2>5
  <1>3. ASSUME NEW s \in Streams, NEW upto \in 0..MaxBytes, AckedStreamData(s, upto)
        PROVE  IndInv'
    <2> DEFINE q == quic[s]
               h == Stream(q.state, q.base, upto, q.tx,
                      [t \in (q.base + upto)..(q.base + q.tx - 1) |-> q.ptr[t]])
    <2>1. upto \in q.acked..q.tx /\ phase = "done"
      BY <1>3 DEF AckedStreamData
    <2>2. StreamInv(ack_until(entry[s], upto), h)
      BY <1>t, <2>1, AckKeepsStream
    <2>3. /\ entry' = [entry EXCEPT ![s] = ack_until(entry[s], upto)]
          /\ quic' = [quic EXCEPT ![s] = h] /\ phase' = phase /\ nextId' = nextId
      BY <1>3 DEF AckedStreamData
    <2> HIDE DEF h
    <2> QED
      BY <1>t, <1>q, <2>1, <2>2, <2>3
  <1>4. ASSUME NEW s \in Streams, StreamClose(s) PROVE IndInv'
    <2>1. /\ entry' = [entry EXCEPT ![s] = NoEntry] /\ quic' = [quic EXCEPT ![s] = Closed]
          /\ phase = "done" /\ phase' = phase /\ nextId' = nextId
      BY <1>4 DEF StreamClose
    <2> QED
      BY <1>t, <1>q, <2>1, EmptyStream
  <1>5. CASE EarlyDataRejected
    <2>1. /\ quic' = [s \in Streams |-> NotOpened(quic[s].base + quic[s].tx)]
          /\ entry' = entry /\ phase = "early" /\ phase' = "done" /\ nextId' = nextId
      BY <1>5 DEF EarlyDataRejected
    <2>2. \A s \in Streams : StreamInv(entry[s], NotOpened(quic[s].base + quic[s].tx))
      BY <1>t, <2>1, FreshStream
    <2> QED
      BY <1>t, <1>q, <2>1, <2>2, SMTT(30)
  <1>6. CASE HandshakeCompleted
    BY <1>6, <1>t, <1>q DEF HandshakeCompleted
  <1>7. CASE UNCHANGED vars
    BY <1>7, <1>t, <1>q DEF vars
  <1> QED
    BY <1>1, <1>2, <1>3, <1>4, <1>5, <1>6, <1>7 DEF Next

\* TypeOK, for every set of streams and all sizes: Vec lengths stay within their
\* capacities and ngtcp2 holds one pointer per unacknowledged byte.
THEOREM TypeCorrect == Spec => []TypeOK
  <1>1. IndInv => TypeOK
    BY DEF IndInv
  <1> QED
    BY <1>1, InitEstablishes, NextKeeps, PTL DEF Spec

\* RetransmitSafe: append, ack_until, truncate_unwritten, closed_stream and a
\* 0-RTT rejection, in any order, never move, change or free a byte ngtcp2 may
\* still read for a retransmission.
THEOREM BuffersOutlivePointers == Spec => []RetransmitSafe
  <1>1. IndInv => RetransmitSafe
    BY Consequences DEF IndInv, RetransmitSafe
  <1> QED
    BY <1>1, InitEstablishes, NextKeeps, PTL DEF Spec

\* HeldEndsWhereNgtcp2Does: after every write the entry ends where ngtcp2's
\* stream ends, however much of the offered data ngtcp2 took.
THEOREM HeldAgreesWithNgtcp2 == Spec => []HeldEndsWhereNgtcp2Does
  <1>1. IndInv => HeldEndsWhereNgtcp2Does
    BY Consequences, Zenon DEF IndInv, HeldEndsWhereNgtcp2Does
  <1> QED
    BY <1>1, InitEstablishes, NextKeeps, PTL DEF Spec

\* RetiredOnlyWhileUnacked: ack_until leaves no retired buffer behind whose last
\* byte has been acknowledged.
THEOREM RetiredAreReleased == Spec => []RetiredOnlyWhileUnacked
  <1>1. IndInv => RetiredOnlyWhileUnacked
    BY Consequences DEF IndInv, RetiredOnlyWhileUnacked
  <1> QED
    BY <1>1, InitEstablishes, NextKeeps, PTL DEF Spec
=============================================================================
