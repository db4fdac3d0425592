---------------------------- MODULE StreamWriter ----------------------------
(***************************************************************************)
(* The queue of stream data waiting to be sent and the loop that feeds it  *)
(* to ngtcp2: PendingStreams and write_packets of                          *)
(* src/tokio-ngtcp2/src/streams.rs, with the calls of ClientConnection and *)
(* AcceptedConnection that fill and empty the queue.                       *)
(*                                                                         *)
(* write_packets runs without an await, so nothing else touches the        *)
(* connection while it runs; its loop is a sequence of steps (phase) whose *)
(* outcomes are the answers ngtcp2 may give.  A byte is the pair of the    *)
(* epoch it was written in (0 for 0-RTT data the server then rejected, 1   *)
(* after) and its number.  A stream id is a number: the queue is emptied   *)
(* in the order of the ids.                                                *)
(***************************************************************************)
EXTENDS Integers, Sequences, Functions

CONSTANTS Streams,    \* stream ids
          MaxBytes,   \* bound: bytes the application writes to all streams
          MaxCredit,  \* bound: flow control credit and congestion window
          MaxProbes,  \* bound: packets without stream data (path MTU probes)
          Events      \* which of "stop", "close", "reject", "drain" may happen

ASSUME StreamWriterAssumption ==
    /\ Streams \subseteq Nat
    /\ MaxBytes \in Nat /\ MaxCredit \in Nat /\ MaxProbes \in Nat
    /\ Events \subseteq {"stop", "close", "reject", "drain"}

VARIABLES
    \* PendingStreams: entries (data and fin) and order; an id has an entry iff it
    \* is in order.
    data, fin, order,
    \* write_packets: where it is, the ids left in this pass, its three flags and
    \* the result of the last call.
    phase, todo, wrote_any, wrote_packet, blocked, result,
    \* ngtcp2: each stream's state, credit, accepted bytes and FIN; the congestion
    \* window, whether a packet is being filled (WRITE_MORE), whether the
    \* connection is draining, whether 0-RTT is undecided, probes still to come.
    quic, conn,
    \* What the application asked for: bytes written to each stream and FIN.
    offered, finished

pending == <<data, fin, order>>
flush == <<phase, todo, wrote_any, wrote_packet, blocked, result>>
app == <<offered, finished>>
vars == <<pending, flush, quic, conn, app>>

-----------------------------------------------------------------------------

Init ==
    /\ data = [s \in Streams |-> <<>>]
    /\ fin = [s \in Streams |-> FALSE]
    /\ order = {}
    /\ phase = "idle" /\ todo = {} /\ result = "none"
    /\ wrote_any = FALSE /\ wrote_packet = FALSE /\ blocked = FALSE
    /\ quic = [s \in Streams |-> [state |-> "idle", credit |-> 0, accepted |-> <<>>, fin |-> FALSE]]
    /\ conn \in [cwnd : {MaxCredit}, filling : {FALSE}, draining : {FALSE},
                 early : {IF "reject" \in Events THEN "undecided" ELSE "none"}, probes : {MaxProbes}]
    /\ offered = [s \in Streams |-> <<>>]
    /\ finished = [s \in Streams |-> FALSE]

Epoch == IF conn.early = "undecided" THEN 0 ELSE 1

\* PendingStreams::remove
Removed(s) ==
    /\ data' = [data EXCEPT ![s] = <<>>]
    /\ fin' = [fin EXCEPT ![s] = FALSE]
    /\ order' = order \ {s}

-----------------------------------------------------------------------------
(* The application.                                                        *)

OpenStream(s) ==
    /\ phase = "idle" /\ quic[s].state = "idle" /\ ~conn.draining
    /\ quic' = [quic EXCEPT ![s].state = "open", ![s].credit = MaxCredit]
    /\ UNCHANGED <<pending, flush, conn, app>>

TotalOffered == FoldFunction(LAMBDA bytes, n : Len(bytes) + n, 0, offered)

\* write_stream: queues n bytes, whatever became of the stream in the meantime.
WriteStream(s, n, f) ==
    LET bytes == [i \in 1..n |-> <<Epoch, Len(offered[s]) + i>>]
    IN  /\ phase = "idle" /\ ~conn.draining
        /\ quic[s].state # "idle"
        /\ ~finished[s]
        /\ TotalOffered + n <= MaxBytes
        /\ data' = [data EXCEPT ![s] = @ \o bytes]
        /\ fin' = [fin EXCEPT ![s] = @ \/ f]
        /\ order' = order \cup {s}
        /\ offered' = [offered EXCEPT ![s] = @ \o bytes]
        /\ finished' = [finished EXCEPT ![s] = @ \/ f]
        /\ UNCHANGED <<flush, quic, conn>>

\* reset_stream, reset_stream_reliable and close_stream drop what was not sent,
\* also when ngtcp2 then answers that there is no such stream or that its end was
\* sent already.
ResetStream(s) ==
    /\ phase = "idle"
    /\ Removed(s)
    /\ quic' = [quic EXCEPT ![s].state = IF @ \in {"open", "shut"} THEN "resetting" ELSE @]
    /\ IF quic[s].state = "idle"
       THEN offered' = [offered EXCEPT ![s] = <<>>] /\ finished' = [finished EXCEPT ![s] = FALSE]
       ELSE UNCHANGED app
    /\ UNCHANGED <<flush, conn>>

-----------------------------------------------------------------------------
(* write_packets                                                           *)

\* Fault: an entry with FIN and no data is not worth a visit.
StartPassWithData ==
    /\ phase' = "streams"
    /\ todo' = {s \in order : data[s] # <<>>}
    /\ wrote_any' = FALSE /\ wrote_packet' = FALSE /\ blocked' = FALSE

\* The top of the loop: ordered_ids, and the three flags.
StartPass ==
    /\ phase' = "streams"
    /\ todo' = order
    /\ wrote_any' = FALSE /\ wrote_packet' = FALSE /\ blocked' = FALSE

StartFlush ==
    /\ phase = "idle"
    /\ StartPass
    /\ result' = "none"
    /\ UNCHANGED <<pending, quic, conn, app>>

\* The stream whose turn it is; MORE is set unless it is the last of the pass.
Turn(s) ==
    /\ phase = "streams" /\ ~blocked
    /\ s \in todo /\ \A u \in todo : s <= u
IsLast(s) == todo = {s}

\* An entry without data and FIN is dropped without asking ngtcp2.
SkipEmpty(s) ==
    /\ Turn(s)
    /\ data[s] = <<>> /\ ~fin[s]
    /\ Removed(s)
    /\ todo' = todo \ {s}
    /\ UNCHANGED <<phase, wrote_any, wrote_packet, blocked, result, quic, conn, app>>

Asked(s) == Turn(s) /\ ~(data[s] = <<>> /\ ~fin[s])

\* data_written is None when ngtcp2 wrote no STREAM frame.
None == -1

\* Faults: nothing of the buffer, or all of it, counts as sent.
ConsumedNothing(s, data_written) == 0

ConsumedAll(s, data_written) == Len(data[s])

Consumed(s, data_written) == IF data_written = None THEN 0 ELSE data_written

\* Fault: None is taken for 0 bytes, so a FIN without data counts as sent.
FinAcceptedByCount(s, data_written) == Consumed(s, data_written) = Len(data[s])

\* FIN went out only if all the data did, in a frame.
FinAccepted(s, data_written) == data_written = Len(data[s])

\* Ok(written, data_written): drain, prune and the flags; complete is written > 0.
Written(s, data_written, complete) ==
    LET consumed == Consumed(s, data_written)
        sent     == fin[s] /\ FinAccepted(s, data_written)
        rest     == SubSeq(data[s], consumed + 1, Len(data[s]))
    IN  /\ data' = [data EXCEPT ![s] = rest]
        /\ fin' = [fin EXCEPT ![s] = @ /\ ~sent]
        /\ order' = IF rest = <<>> /\ (fin[s] => sent) THEN order \ {s} ELSE order
        /\ wrote_any' = (wrote_any \/ consumed > 0 \/ sent)
        /\ wrote_packet' = (wrote_packet \/ complete)
        /\ todo' = todo \ {s}
        /\ UNCHANGED <<phase, blocked, result, app>>

\* ngtcp2 writes a STREAM frame with the first k bytes, and with FIN if that is all
\* of them.  The packet may be complete, and is without MORE.
Accepted(s, k, complete) ==
    /\ Asked(s)
    /\ quic[s].state = "open" /\ ~conn.draining /\ conn.cwnd > 0
    /\ k <= Len(data[s]) /\ k <= quic[s].credit /\ k <= conn.cwnd
    /\ k = 0 <=> data[s] = <<>>
    /\ IsLast(s) => complete
    /\ Written(s, k, complete)
    /\ LET ends == fin[s] /\ k = Len(data[s])
       IN  quic' = [quic EXCEPT ![s] = [state |-> IF ends THEN "shut" ELSE "open",
                                        credit |-> @.credit - k,
                                        accepted |-> @.accepted \o SubSeq(data[s], 1, k),
                                        fin |-> ends]]
    /\ conn' = [conn EXCEPT !.cwnd = @ - k, !.filling = ~complete]

\* ngtcp2 writes no STREAM frame: the congestion window is used up, or the packet
\* being filled has no room left, or a probe takes a packet of its own.
NoFrame(s) ==
    /\ Asked(s)
    /\ quic[s].state = "open" /\ ~conn.draining
    /\ \/ /\ conn.cwnd = 0 /\ ~conn.filling
          /\ Written(s, None, FALSE)
          /\ UNCHANGED conn
       \/ /\ conn.filling
          /\ Written(s, None, TRUE)
          /\ conn' = [conn EXCEPT !.filling = FALSE]
       \/ /\ ~conn.filling /\ conn.probes > 0
          /\ Written(s, None, TRUE)
          /\ conn' = [conn EXCEPT !.probes = @ - 1]
    /\ UNCHANGED quic

\* Err(StreamDataBlocked): break out of the pass.
DataBlocked(s) ==
    /\ Asked(s)
    /\ quic[s].state = "open" /\ ~conn.draining
    /\ data[s] # <<>> /\ quic[s].credit = 0
    /\ blocked' = TRUE
    /\ UNCHANGED <<pending, phase, todo, wrote_any, wrote_packet, result, quic, conn, app>>

\* Err(StreamShutWr): the data can no longer be sent.
ShutWr(s) ==
    /\ Asked(s)
    /\ quic[s].state \in {"shut", "resetting", "reset"} /\ ~conn.draining
    /\ Removed(s)
    /\ todo' = todo \ {s}
    /\ UNCHANGED <<phase, wrote_any, wrote_packet, blocked, result, quic, conn, app>>

\* Any other error: STREAM_NOT_FOUND for a stream ngtcp2 has closed or dropped,
\* an error that ends the connection when it is draining.
OtherError(s) ==
    /\ Asked(s)
    /\ quic[s].state \in {"idle", "closed"} \/ conn.draining
    /\ phase' = "idle" /\ todo' = {} /\ result' = "err"
    /\ UNCHANGED <<pending, wrote_any, wrote_packet, blocked, quic, conn, app>>

PassDone == phase = "streams" /\ (todo = {} \/ blocked)

\* Fault: a blocked stream ends the call before the packet is completed.
write_control_packets_unless_blocked ==
    /\ conn' = [conn EXCEPT !.filling = @ /\ blocked]
    /\ UNCHANGED quic

\* Completes the packet being filled and sends what else is due, RESET_STREAM
\* frames included.
write_control_packets ==
    /\ conn' = [conn EXCEPT !.filling = FALSE]
    /\ quic' = [s \in Streams |->
                  IF quic[s].state = "resetting" /\ conn.cwnd > 0
                  THEN [quic[s] EXCEPT !.state = "reset"] ELSE quic[s]]

\* Fault: the loop goes on until the queue is empty.
LoopEndsWhenEmpty == blocked \/ order = {}

LoopEnds == (~wrote_any /\ ~wrote_packet) \/ blocked \/ order = {}

ControlPackets ==
    /\ PassDone /\ ~conn.draining
    /\ write_control_packets
    /\ \/ /\ LoopEnds
          /\ phase' = "idle" /\ todo' = {} /\ result' = "ok"
          /\ UNCHANGED <<wrote_any, wrote_packet, blocked>>
       \/ /\ ~LoopEnds
          /\ StartPass
          /\ UNCHANGED result
    /\ UNCHANGED <<pending, app>>

ControlError ==
    /\ PassDone /\ conn.draining
    /\ phase' = "idle" /\ todo' = {} /\ result' = "err"
    /\ UNCHANGED <<pending, wrote_any, wrote_packet, blocked, quic, conn, app>>

-----------------------------------------------------------------------------
(* The peer and the network, between two calls of write_packets.           *)

\* MAX_STREAM_DATA
ExtendCredit(s) ==
    /\ phase = "idle" /\ quic[s].state = "open" /\ quic[s].credit = 0
    /\ quic' = [quic EXCEPT ![s].credit = MaxCredit]
    /\ UNCHANGED <<pending, flush, conn, app>>

\* An ACK opens the congestion window.
OpenWindow ==
    /\ phase = "idle" /\ conn.cwnd < MaxCredit
    /\ conn' = [conn EXCEPT !.cwnd = MaxCredit]
    /\ UNCHANGED <<pending, flush, quic, app>>

\* STOP_SENDING: ngtcp2 answers with RESET_STREAM on its own.
StopSending(s) ==
    /\ "stop" \in Events
    /\ phase = "idle" /\ quic[s].state = "open"
    /\ quic' = [quic EXCEPT ![s].state = "resetting"]
    /\ UNCHANGED <<pending, flush, conn, app>>

\* Both directions are finished and acknowledged: ngtcp2 forgets the stream.  The
\* application learns of it later, from the event queue.
StreamClosed(s) ==
    /\ "close" \in Events
    /\ phase = "idle" /\ quic[s].state \in {"shut", "reset"}
    /\ quic' = [quic EXCEPT ![s].state = "closed"]
    /\ UNCHANGED <<pending, flush, conn, app>>

\* EarlyDataRejected: ngtcp2 drops the streams and restarts their numbering; the
\* pending queue is left as it is, so what it holds counts as written to the stream
\* that gets the number next (RejectedDataDiscarded is about that).
EarlyDataRejected ==
    /\ phase = "idle" /\ conn.early = "undecided"
    /\ conn' = [conn EXCEPT !.early = "rejected"]
    /\ quic' = [s \in Streams |-> [state |-> "idle", credit |-> 0, accepted |-> <<>>, fin |-> FALSE]]
    /\ offered' = data
    /\ finished' = fin
    /\ UNCHANGED <<pending, flush>>

HandshakeCompleted ==
    /\ phase = "idle" /\ conn.early = "undecided"
    /\ conn' = [conn EXCEPT !.early = "accepted"]
    /\ UNCHANGED <<pending, flush, quic, app>>

EnterDraining ==
    /\ "drain" \in Events
    /\ phase = "idle" /\ ~conn.draining
    /\ conn' = [conn EXCEPT !.draining = TRUE]
    /\ UNCHANGED <<pending, flush, quic, app>>

-----------------------------------------------------------------------------

StreamStep(s) ==
    \/ SkipEmpty(s)
    \/ \E k \in 0..MaxCredit : \E complete \in BOOLEAN : Accepted(s, k, complete)
    \/ NoFrame(s)
    \/ DataBlocked(s)
    \/ ShutWr(s)
    \/ OtherError(s)

FlushStep == ControlPackets \/ ControlError \/ \E s \in Streams : StreamStep(s)

Next ==
    \/ \E s \in Streams :
        \/ OpenStream(s)
        \/ \E n \in 0..MaxBytes : \E f \in BOOLEAN : WriteStream(s, n, f)
        \/ ResetStream(s)
        \/ ExtendCredit(s)
        \/ StopSending(s)
        \/ StreamClosed(s)
    \/ StartFlush
    \/ FlushStep
    \/ OpenWindow
    \/ EarlyDataRejected
    \/ HandshakeCompleted
    \/ EnterDraining

Spec == Init /\ [][Next]_vars

\* write_packets is straight-line code and runs to its end; the driver keeps
\* calling recv_event, which flushes in each of its rounds; the peer keeps reading
\* and acknowledging, and recv_event reads the socket between two flushes.
FairSpec ==
    /\ Spec
    /\ WF_vars(FlushStep)
    /\ WF_vars(StartFlush)
    /\ SF_vars(OpenWindow)
    /\ \A s \in Streams : SF_vars(ExtendCredit(s))

-----------------------------------------------------------------------------
(* Properties                                                              *)

\* Types of the queue, of the loop's state and of ngtcp2's; an id outside order has
\* no entry, so entries and order never disagree.
TypeOK ==
    /\ data \in [Streams -> Seq({0, 1} \X Nat)]
    /\ fin \in [Streams -> BOOLEAN]
    /\ order \subseteq Streams
    /\ \A s \in Streams \ order : data[s] = <<>> /\ ~fin[s]
    /\ phase \in {"idle", "streams"}
    /\ todo \subseteq Streams /\ (phase = "idle" => todo = {})
    /\ wrote_any \in BOOLEAN /\ wrote_packet \in BOOLEAN /\ blocked \in BOOLEAN
    /\ result \in {"none", "ok", "err"}
    /\ quic \in [Streams -> [state : {"idle", "open", "shut", "resetting", "reset", "closed"},
                             credit : Nat, accepted : Seq({0, 1} \X Nat), fin : BOOLEAN]]
    /\ conn \in [cwnd : Nat, filling : BOOLEAN, draining : BOOLEAN,
                 early : {"none", "undecided", "accepted", "rejected"}, probes : Nat]
    /\ offered \in [Streams -> Seq({0, 1} \X Nat)]
    /\ finished \in [Streams -> BOOLEAN]

\* While a stream can be written, what ngtcp2 accepted followed by what is still
\* queued is exactly what was written to it, in order: no byte is lost, sent
\* twice or overtaken across partial writes, blocked passes and retries.
NoByteLostOrDuplicated ==
    \A s \in Streams :
        quic[s].state = "open" => quic[s].accepted \o data[s] = offered[s]

\* FIN is never dropped and never early: until ngtcp2 has carried it, it stays in
\* the queue (a zero-length FIN too, when ngtcp2 wrote no frame for it), and when
\* it has, every byte went before it.
FinKeptUntilCarried ==
    \A s \in Streams :
        /\ quic[s].state = "open" /\ finished[s] => fin[s] /\ s \in order
        /\ quic[s].fin => quic[s].accepted = offered[s]

\* When write_packets returns Ok, ngtcp2 is not left with a half-filled packet:
\* every byte it accepted with WRITE_MORE is in a packet handed to the socket.
NoPacketLeftOpen == phase = "idle" /\ result = "ok" => ~conn.filling

\* Each call of write_packets comes to an end: every pass that is followed by
\* another one used up queued data, congestion window or a probe.
FlushTerminates == phase = "streams" ~> phase = "idle"

\* As long as the streams are not torn down and the connection lives, everything
\* queued is eventually accepted by ngtcp2, FIN included.
QueueDrains ==
    \A s \in Streams : (s \in order) ~> (s \notin order \/ quic[s].state # "open")

\* The promise of StreamSender: a stream is done for it when ngtcp2 takes no more
\* data of it.
SenderState(s) ==
    CASE quic[s].state = "idle" -> "idle" [] quic[s].state = "open" -> "open" [] OTHER -> "done"

Sender == INSTANCE StreamSender WITH
    state <- [s \in Streams |-> SenderState(s)],
    written <- offered, finished <- finished,
    sent <- [s \in Streams |-> quic[s].accepted],
    ended <- [s \in Streams |-> quic[s].fin]

\* Queue, passes, credit, congestion window, errors and resets together implement
\* the promise: whatever ngtcp2 answers, write_packets sends of each stream just
\* what write_stream was given, in order, and FIN last.
SenderImplemented == Sender!Spec

\* client.rs and server.rs, doc of flush: an error is returned when ngtcp2 returned
\* an unrecoverable error, that is, when the connection is over.
ErrorOnlyWhenUnrecoverable == result = "err" => conn.draining

\* lib.rs, doc of EarlyDataRejected: at that point the streams opened in 0-RTT and
\* the data waiting to be sent are discarded, and the application opens the streams
\* again and sends again.  So no byte queued for 0-RTT is sent after a rejection.
RejectedDataDiscarded ==
    conn.early = "rejected" =>
        \A s \in Streams : \A i \in 1..Len(quic[s].accepted) : quic[s].accepted[i][1] = 1
=============================================================================
