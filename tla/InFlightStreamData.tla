------------------------- MODULE InFlightStreamData -------------------------
(***************************************************************************)
(* The buffers behind ngtcp2_conn_writev_stream (src/ngtcp2/src/conn.rs).  *)
(*                                                                         *)
(* ngtcp2 retransmits a STREAM frame by reading the application's memory   *)
(* again, so every byte it accepted must stay where it was handed over,    *)
(* unchanged, until it is acknowledged or the stream is closed.  The map   *)
(* in_flight_stream_data holds those bytes.  Here a Vec<u8> is an          *)
(* allocation (its identity), a capacity, a length and the bytes at each   *)
(* index; a byte is named by its position in what was ever written to the  *)
(* stream's entry, so two different bytes are never confused.  ngtcp2 is   *)
(* the set of raw pointers it still holds: for every unacknowledged byte,  *)
(* the allocation and the index it was handed at.                          *)
(***************************************************************************)
EXTENDS Integers

CONSTANTS Streams,   \* stream identifiers
          MaxChunk,  \* bound: bytes offered by one write_stream call
          MaxBytes   \* bound: bytes ngtcp2 accepts on one stream

ASSUME BoundsAssumption == MaxChunk \in Nat /\ MaxBytes \in Nat

VARIABLES entry,     \* in_flight_stream_data; NoEntry where the key is absent
          quic,      \* ngtcp2's view of every stream, with the pointers it holds
          phase,     \* "early" until the handshake decides on 0-RTT, then "done"
          nextId     \* identity of the next heap allocation

vars == <<entry, quic, phase, nextId>>

-----------------------------------------------------------------------------
(* Vec<u8>.  Identity 0 is Vec::new(), which allocates nothing.            *)

VecNew == [id |-> 0, cap |-> 0, len |-> 0, at |-> [i \in 0..-1 |-> 0]]

WithCapacity(id, cap) == [id |-> id, cap |-> cap, len |-> 0, at |-> VecNew.at]

FirstBytes(at, len) == [i \in 0..(len - 1) |-> at[i]]

Truncated(v, len) ==
    IF len < v.len
    THEN [id |-> v.id, cap |-> v.cap, len |-> len, at |-> FirstBytes(v.at, len)]
    ELSE v

\* extend_from_slice of the n bytes first, first + 1, ... within the capacity.
Extended(v, first, n) ==
    [id  |-> v.id,
     cap |-> v.cap,
     len |-> v.len + n,
     at  |-> [i \in 0..(v.len + n - 1) |->
                IF i < v.len THEN v.at[i] ELSE first + (i - v.len)]]

\* An entry of the map, e, with another current buffer.
WithData(e, v) == [offset |-> e.offset, start |-> e.start, data |-> v, retired |-> e.retired]

NoEntry == [offset |-> 0, start |-> 0, data |-> VecNew, retired |-> {}]

Least(a, b) == IF a <= b THEN a ELSE b
Greatest(a, b) == IF a >= b THEN a ELSE b

-----------------------------------------------------------------------------
(* InFlightStreamData                                                      *)

\* Fault: the acknowledged bytes are drained, which moves the others.
ack_until_compacting(e, offset) ==
    IF offset <= e.offset THEN e
    ELSE LET acked == Least(offset - e.offset, e.data.len)
             held  == e.data.len - acked
         IN  [offset  |-> e.offset + acked,
              start   |-> 0,
              data    |-> [id |-> e.data.id, cap |-> e.data.cap, len |-> held,
                           at |-> [i \in 0..(held - 1) |-> e.data.at[acked + i]]],
              retired |-> {r \in e.retired : r.end > e.offset + acked}]

\* Fault: an allocation whose last byte has just been acknowledged is kept.
ack_until_keeping(e, offset) ==
    IF offset <= e.offset THEN e
    ELSE LET acked == Least(offset - e.offset, e.data.len - e.start)
         IN  [offset  |-> e.offset + acked,
              start   |-> e.start + acked,
              data    |-> e.data,
              retired |-> {r \in e.retired : r.end >= e.offset + acked}]

ack_until(e, offset) ==
    IF offset <= e.offset THEN e
    ELSE LET acked == Least(offset - e.offset, e.data.len - e.start)
             all   == e.start + acked = e.data.len
         IN  [offset  |-> e.offset + acked,
              start   |-> IF all THEN 0 ELSE e.start + acked,
              data    |-> IF all THEN Truncated(e.data, 0) ELSE e.data,
              retired |-> {r \in e.retired : r.end > e.offset + acked}]

\* The part of append that makes room: never by reallocating in place.
Reserve(e, n, id) ==
    LET needed   == e.data.len + n
        capacity == Greatest(needed, 2 * e.data.cap)
        held     == e.data.len - e.start
    IN  IF needed <= e.data.cap THEN e
        ELSE IF e.data.len = 0
        THEN WithData(e, WithCapacity(id, capacity))
        ELSE [offset  |-> e.offset,
              start   |-> 0,
              data    |-> [id  |-> id,
                           cap |-> capacity,
                           len |-> held,
                           at  |-> [i \in 0..(held - 1) |-> e.data.at[e.start + i]]],
              retired |-> e.retired \cup {[data |-> e.data, end |-> e.offset + held]}]

append(e, first, n, id) ==
    LET room == Reserve(e, n, id)
    IN  WithData(room, Extended(room.data, first, n))

\* Fault: the bytes ngtcp2 did not take stay in the buffer.
truncate_nothing(e, len) == e

truncate_unwritten(e, len) == WithData(e, Truncated(e.data, e.start + len))

-----------------------------------------------------------------------------
(* ngtcp2's side of a stream.  The stream's offset o is the byte base + o: *)
(* base is not 0 only for a stream reopened after 0-RTT was rejected, when *)
(* ngtcp2 restarts at offset 0 and the map entry does not.                 *)

Stream(state, base, acked, tx, ptr) ==
    [state |-> state, base |-> base, acked |-> acked, tx |-> tx, ptr |-> ptr]

NoPointers(base) == [t \in base..(base - 1) |-> [id |-> 0, index |-> 0]]
NotOpened(base) == Stream("idle", base, 0, 0, NoPointers(base))
Closed == Stream("closed", 0, 0, 0, NoPointers(0))

Outstanding(q) == (q.base + q.acked)..(q.base + q.tx - 1)

Init ==
    /\ entry = [s \in Streams |-> NoEntry]
    /\ quic = [s \in Streams |-> NotOpened(0)]
    /\ phase \in {"early", "done"}
    /\ nextId = 1

OpenStream(s) ==
    /\ quic[s].state = "idle"
    /\ quic' = [quic EXCEPT ![s] = Stream("open", @.base, @.acked, @.tx, @.ptr)]
    /\ UNCHANGED <<entry, phase, nextId>>

\* write_stream_with_flags: n bytes are offered and ngtcp2 takes the first k
\* (k = 0 also stands for an error return and for no STREAM frame written).
\* A stream ngtcp2 does not know answers STREAM_NOT_FOUND, after the entry was
\* created and the bytes were appended.
WriteStream(s, n, k) ==
    LET q        == quic[s]
        first    == q.base + q.tx
        appended == append(entry[s], first, n, nextId)
        start    == appended.data.len - n
        kept     == Greatest(start - appended.start, 0) + k
    IN  /\ k <= n
        /\ k > 0 => q.state = "open" /\ q.tx + k <= MaxBytes
        /\ entry' = [entry EXCEPT ![s] = truncate_unwritten(appended, kept)]
        /\ quic' = [quic EXCEPT ![s] =
                Stream(q.state, q.base, q.acked, q.tx + k,
                       [t \in (q.base + q.acked)..(first + k - 1) |->
                          IF t < first THEN q.ptr[t]
                          ELSE [id |-> appended.data.id, index |-> start + (t - first)]])]
        /\ nextId' = IF appended.data.id = nextId THEN nextId + 1 ELSE nextId
        /\ UNCHANGED phase

\* acked_stream_data_offset_callback: ngtcp2 reports contiguous, increasing
\* ranges, of length 0 for a lone FIN, and forgets its pointers to them.
AckedStreamData(s, upto) ==
    LET q == quic[s]
    IN  /\ phase = "done"
        /\ q.state = "open"
        /\ upto \in q.acked..q.tx
        /\ entry' = [entry EXCEPT ![s] = ack_until(entry[s], upto)]
        /\ quic' = [quic EXCEPT ![s] =
                Stream(q.state, q.base, upto, q.tx,
                       [t \in (q.base + upto)..(q.base + q.tx - 1) |-> q.ptr[t]])]
        /\ UNCHANGED <<phase, nextId>>

\* stream_close_callback, closed_stream.
StreamClose(s) ==
    /\ phase = "done"
    /\ quic[s].state = "open"
    /\ entry' = [entry EXCEPT ![s] = NoEntry]
    /\ quic' = [quic EXCEPT ![s] = Closed]
    /\ UNCHANGED <<phase, nextId>>

\* tls_early_data_rejected_callback: ngtcp2 drops every stream and restarts the
\* numbering; no stream_close is reported, so the entries stay.
EarlyDataRejected ==
    /\ phase = "early"
    /\ phase' = "done"
    /\ quic' = [s \in Streams |-> NotOpened(quic[s].base + quic[s].tx)]
    /\ UNCHANGED <<entry, nextId>>

HandshakeCompleted ==
    /\ phase = "early"
    /\ phase' = "done"
    /\ UNCHANGED <<entry, quic, nextId>>

Next ==
    \/ \E s \in Streams :
        \/ OpenStream(s)
        \/ \E n \in 0..MaxChunk : \E k \in 0..n : WriteStream(s, n, k)
        \/ \E upto \in 0..MaxBytes : AckedStreamData(s, upto)
        \/ StreamClose(s)
    \/ EarlyDataRejected
    \/ HandshakeCompleted

Spec == Init /\ [][Next]_vars

-----------------------------------------------------------------------------
(* Properties                                                              *)

IsVec(v) ==
    /\ v.id \in Nat
    /\ v.cap \in Nat
    /\ v.len \in 0..v.cap
    /\ v.at \in [0..(v.len - 1) -> Nat]

IsEntry(e) ==
    /\ e.offset \in Nat
    /\ e.start \in 0..e.data.len
    /\ IsVec(e.data)
    /\ \A r \in e.retired : IsVec(r.data) /\ r.end \in Nat

\* Types: every Vec holds as many bytes as its length, within its capacity, and
\* ngtcp2 holds one pointer per unacknowledged byte.
TypeOK ==
    /\ phase \in {"early", "done"}
    /\ nextId \in Nat \ {0}
    /\ DOMAIN entry = Streams /\ DOMAIN quic = Streams
    /\ \A s \in Streams :
        /\ IsEntry(entry[s])
        /\ quic[s].state \in {"idle", "open", "closed"}
        /\ quic[s].base \in Nat
        /\ quic[s].tx \in Nat
        /\ quic[s].acked \in 0..quic[s].tx
        /\ quic[s].ptr \in [Outstanding(quic[s]) -> [id : Nat, index : Nat]]

\* The allocations an entry keeps alive.
Live(e) == {e.data} \cup {r.data : r \in e.retired}

\* The contract of ngtcp2_conn_writev_stream: whatever appends,
\* acknowledgements, failed writes, and 0-RTT rejection came in between, each
\* pointer ngtcp2 would follow to retransmit leads into an allocation that is
\* still alive and to the very byte that was handed over.
RetransmitSafe ==
    \A s \in Streams : \A t \in Outstanding(quic[s]) :
        \E v \in Live(entry[s]) :
            /\ v.id = quic[s].ptr[t].id
            /\ quic[s].ptr[t].index < v.len
            /\ v.at[quic[s].ptr[t].index] = t

\* truncate_unwritten leaves exactly what ngtcp2 accepted: the held bytes end
\* where ngtcp2's stream ends, so the next write neither repeats nor skips.
HeldEndsWhereNgtcp2Does ==
    \A s \in Streams :
        entry[s].offset + (entry[s].data.len - entry[s].start) = quic[s].base + quic[s].tx

\* A retired allocation is kept only while a byte it holds is unacknowledged;
\* in particular, once a stream is fully acknowledged ack_until has freed all of
\* them.  (After a 0-RTT rejection the entry counts the dropped bytes as well,
\* and frees later than it could.)
RetiredOnlyWhileUnacked ==
    \A s \in Streams : \A r \in entry[s].retired :
        r.end > quic[s].acked /\ r.end <= quic[s].base + quic[s].tx
=============================================================================
