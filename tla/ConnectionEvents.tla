-------------------------- MODULE ConnectionEvents --------------------------
(***************************************************************************)
(* How one connection is driven and how its end is reported: connect,      *)
(* recv_event, flush, send_datagram and close of ClientConnection          *)
(* (tokio-ngtcp2/src/client.rs) and of AcceptedConnection                  *)
(* (tokio-ngtcp2/src/server.rs).  The two are written separately and       *)
(* differ where role is tested.                                            *)
(*                                                                         *)
(* An event starts in the queue of the sans-IO Connection, into which the  *)
(* ngtcp2 callbacks push it, is moved to the queue of the tokio connection *)
(* by drain_events, and reaches the application from recv_event.  Events   *)
(* are numbered as they happen; the end of the connection is Closed.  A    *)
(* future of the application may be dropped at any await.                  *)
(***************************************************************************)
EXTENDS Naturals, Sequences

CONSTANTS
    Roles,          \* "client": ClientConnection, "handle": AcceptedConnection
    MaxEvents       \* bound: the events ngtcp2 raises

ASSUME ConnectionEventsAssumption ==
    Roles \subseteq {"client", "handle"} /\ MaxEvents \in Nat

VARIABLES
    role,       \* which of the two the connection is
    quic,       \* external: the state of the ngtcp2 connection
    callbacks,  \* Connection: user_data.events
    produced,   \* how many events the callbacks have raised
    closed,     \* self.closed
    events,     \* self.events
    pc,         \* the await (or the call) the driving task is at
    ret,        \* what the last recv_event returned
    delivered,  \* history: the events recv_event returned
    local       \* history: close() ran to its end

conn == <<quic, callbacks, produced>>
tokio == <<closed, events, pc, ret>>
vars == <<conn, tokio, delivered, local, role>>

Closed == 0     \* ConnectionEvent::ConnectionClosed

\* ngtcp2: "refused" after read_pkt, "broken" after another call failed with an
\* error that is not recoverable, "idle" after the idle timer fired.
QuicStates ==
    {"handshake", "open", "closing", "draining", "refused", "broken", "idle"}
-----------------------------------------------------------------------------
(* What ngtcp2 may do in a call: the state it is in afterwards, whether the *)
(* call succeeds and how many events its callbacks raise.                   *)
Raise(most) == 0..(IF produced + most <= MaxEvents THEN most ELSE MaxEvents - produced)

Running == quic \in {"handshake", "open"}

\* ngtcp2_conn_write_pkt, writev_stream, writev_datagram.  The first packet of
\* a connection with a session ticket makes 0-RTT possible ("open").  In the
\* closing and draining periods the call fails.
Writes ==
    CASE Running ->
            [quic : {quic, "open"}, ok : {TRUE}, raised : Raise(1)]
            \cup [quic : {"broken"}, ok : {FALSE}, raised : {0}]
      [] quic \in {"refused", "broken", "idle"} -> [quic : {quic}, ok : BOOLEAN, raised : {0}]
      [] OTHER -> [quic : {quic}, ok : {FALSE}, raised : {0}]

\* ngtcp2_conn_read_pkt.  An error that means "drop the packet" changes
\* nothing.  The frames before the CONNECTION_CLOSE of a packet raise their
\* events; after a Stateless Reset or a CONNECTION_CLOSE the connection drains.
Reads ==
    IF Running
    THEN [quic : {quic, "open", "draining", "refused"}, raised : Raise(2)]
    ELSE [quic : IF quic = "idle" THEN {quic} ELSE {quic, "draining"}, raised : {0}]

\* ngtcp2_conn_handle_expiry.  Once fired, the idle timer stays expired.
Expiries ==
    IF Running
    THEN [quic : {quic}, ok : {TRUE}, raised : Raise(1)]
         \cup [quic : {"idle", "broken"}, ok : {FALSE}, raised : Raise(1)]
    ELSE [quic : {quic}, ok : {TRUE}, raised : {0}]
         \cup [quic : {"idle"}, ok : {FALSE}, raised : {0}]

\* The sans-IO queue after a call that raised n events.
Raised(n) == callbacks \o [i \in 1..n |-> produced + i]
-----------------------------------------------------------------------------
\* Fault: the draining period is not looked for.
OverWhenClosing == quic = "closing"

\* is_in_closing_period() || is_in_draining_period()
Over == quic \in {"closing", "draining"}

is_closed == closed \/ Over

\* The queue after push_connection_closed, which also sets `closed`.
push_connection_closed(es) == IF closed THEN es ELSE Append(es, Closed)

\* Fault: what the callbacks raised is thrown away.
drain_events_dropping(es, cbs) == es

drain_events(es, cbs) == es \o cbs

\* poll_event, and the return from recv_event with what it took from the queue
\* es, or with Err(ConnectionClosed) when there is nothing.
Returned(es) ==
    /\ pc' = "app"
    /\ events' = IF es = <<>> THEN es ELSE Tail(es)
    /\ delivered' = IF es = <<>> THEN delivered ELSE Append(delivered, Head(es))
    /\ ret' = IF es = <<>> THEN "ConnectionClosed" ELSE "event"

Failed(why) ==
    /\ pc' = "app"
    /\ ret' = why

\* The application's call of recv_event, up to its loop.  (The event is also
\* what the non-blocking poll_event would give.)
RecvEvent ==
    /\ pc = "app"
    /\ \/ events # <<>> /\ Returned(events) /\ UNCHANGED closed
       \/ events = <<>> /\ is_closed
          /\ Returned(push_connection_closed(events)) /\ closed' = TRUE
       \/ events = <<>> /\ ~is_closed
          /\ pc' = "loop" /\ ret' = "none"
          /\ UNCHANGED <<closed, events, delivered>>
    /\ UNCHANGED <<conn, local, role>>

\* write_packets within flush.  The handle's flush_to_packets drains the events
\* whether or not the write succeeded; the client's leaves them to its caller.
Flushed(w) ==
    /\ quic' = w.quic
    /\ produced' = produced + w.raised
    /\ IF role = "handle"
       THEN /\ events' = drain_events(events, Raised(w.raised))
            /\ callbacks' = <<>>
       ELSE /\ callbacks' = Raised(w.raised)
            /\ UNCHANGED events

\* Fault: the events are sent for first, the end of the connection is looked
\* at afterwards.
LoopFlushFirst ==
    /\ pc = "loop"
    /\ events = <<>>
    /\ \E w \in Writes :
         /\ Flushed(w)
         /\ IF w.ok THEN pc' = "send" /\ ret' = ret ELSE Failed("error")
    /\ UNCHANGED <<closed, delivered, local, role>>

\* The loop of recv_event when nothing is to be returned: flush()?.
LoopFlush ==
    /\ pc = "loop"
    /\ events = <<>>
    /\ ~Over
    /\ \E w \in Writes :
         /\ Flushed(w)
         /\ IF w.ok THEN pc' = "send" /\ ret' = ret ELSE Failed("error")
    /\ UNCHANGED <<closed, delivered, local, role>>

\* The loop of recv_event when it has something to return.
LoopReturn ==
    /\ pc = "loop"
    /\ \/ events # <<>> /\ Returned(events) /\ UNCHANGED closed
       \/ events = <<>> /\ Over
          /\ Returned(push_connection_closed(events)) /\ closed' = TRUE
    /\ UNCHANGED <<conn, local, role>>

\* After the packets were sent: drain_events, poll_event, then select!.
Sent ==
    /\ pc = "send"
    /\ LET es == drain_events(events, callbacks)
       IN  IF es # <<>> THEN Returned(es)
           ELSE pc' = "select" /\ UNCHANGED <<events, ret, delivered>>
    /\ callbacks' = <<>>
    /\ UNCHANGED <<quic, produced, closed, local, role>>

\* Where the loop goes on after select!: recv_event's or connect's.
Again == IF pc = "select" THEN "loop" ELSE "connect"

\* Fault: an error of read_pkt returns before the events are drained.
ReadPacketErrorFirst ==
    /\ pc \in {"select", "connecting"}
    /\ \E r \in Reads :
         /\ quic' = r.quic
         /\ produced' = produced + r.raised
         /\ IF r.quic \in {"draining", "refused"}
            THEN callbacks' = Raised(r.raised) /\ UNCHANGED events
            ELSE callbacks' = <<>> /\ events' = drain_events(events, Raised(r.raised))
    /\ pc' = Again
    /\ UNCHANGED <<closed, ret, delivered, local, role>>

\* handle_packet, handle_datagram (also for a datagram from the queue the
\* Server fills): the events are drained even if read_pkt failed, and the
\* errors are left to the next round.  read_pkt returns ngtcp2's errors only,
\* which are never of the kind Internal, so that the arms for it do not run.
ReadPacket ==
    /\ pc \in {"select", "connecting"}
    /\ \E r \in Reads :
         /\ quic' = r.quic
         /\ produced' = produced + r.raised
         /\ events' = drain_events(events, Raised(r.raised))
    /\ callbacks' = <<>>
    /\ pc' = Again
    /\ UNCHANGED <<closed, ret, delivered, local, role>>

\* Fault: the handle ignores the error as the client does.
ExpiryErrorIgnored(x) == FALSE

\* The handle ends the connection on an error of handle_expiry that is neither
\* recoverable nor the end; the client drops the error.
ExpiryErrorEnds(x) == role = "handle" /\ ~x.ok

Timer ==
    /\ pc \in {"select", "connecting"}
    /\ \E x \in Expiries :
         LET es == drain_events(events, Raised(x.raised))
         IN  /\ quic' = x.quic
             /\ produced' = produced + x.raised
             /\ IF ExpiryErrorEnds(x)
                THEN Returned(push_connection_closed(es)) /\ closed' = TRUE
                ELSE /\ events' = es
                     /\ pc' = Again
                     /\ UNCHANGED <<closed, ret, delivered>>
    /\ callbacks' = <<>>
    /\ UNCHANGED <<local, role>>

\* recv_from fails.
SocketError ==
    /\ pc = "select"
    /\ Failed("recv error")
    /\ UNCHANGED <<conn, closed, events, delivered, local, role>>

\* The application drops the future of recv_event at an await.
Cancelled ==
    /\ pc \in {"send", "select"}
    /\ Failed("none")
    /\ UNCHANGED <<conn, closed, events, delivered, local, role>>
-----------------------------------------------------------------------------
\* The application's own flush.
FlushCall(w) ==
    /\ pc = "app"
    /\ Flushed(w)
    /\ UNCHANGED <<closed, pc, ret, delivered, local, role>>

Flush == \E w \in Writes : FlushCall(w)

\* send_datagram writes a packet and drains nothing.
SendDatagram ==
    /\ pc = "app"
    /\ \E w \in Writes :
         /\ quic' = w.quic
         /\ produced' = produced + w.raised
         /\ callbacks' = Raised(w.raised)
    /\ UNCHANGED <<tokio, delivered, local, role>>

\* close: nothing on a closed connection; `?` when ngtcp2 has no
\* CONNECTION_CLOSE to give (a step that changes nothing).  The connection is
\* closing once the packet is written, `closed` is set after it was sent.
Close ==
    /\ pc = "app"
    /\ ~is_closed
    /\ quic' = "closing"
    /\ pc' = "close"
    /\ ret' = "none"
    /\ UNCHANGED <<callbacks, produced, closed, events, delivered, local, role>>

CloseSent ==
    /\ pc = "close"
    /\ closed' = TRUE
    /\ local' = TRUE
    /\ pc' = "app"
    /\ UNCHANGED <<conn, events, ret, delivered, role>>

\* The future of close is dropped while the packet is being sent.
CloseCancelled ==
    /\ pc = "close"
    /\ pc' = "app"
    /\ UNCHANGED <<conn, closed, events, ret, delivered, local, role>>
-----------------------------------------------------------------------------
\* connect_inner: flush()?, then return if 0-RTT is possible or the handshake
\* is done.  (A connection that ended fails in flush, before is_closed.)
ConnectFlush ==
    /\ pc = "connect"
    /\ \E w \in Writes :
         /\ Flushed(w)
         /\ pc' = IF ~w.ok THEN "dead" ELSE IF w.quic = "open" THEN "app" ELSE "connecting"
    /\ UNCHANGED <<closed, ret, delivered, local, role>>

\* connect gives up at its deadline, or when recv_from fails.
ConnectFails ==
    /\ pc = "connecting"
    /\ pc' = "dead"
    /\ UNCHANGED <<conn, closed, events, ret, delivered, local, role>>

Init ==
    /\ role \in Roles
    /\ quic = IF role = "client" THEN "handshake" ELSE "open"
    /\ pc = IF role = "client" THEN "connect" ELSE "app"
    /\ callbacks = <<>> /\ events = <<>> /\ delivered = <<>>
    /\ produced = 0
    /\ closed = FALSE /\ local = FALSE
    /\ ret = "none"

Drive == ConnectFlush \/ RecvEvent \/ LoopReturn \/ LoopFlush \/ Sent

Next ==
    \/ Drive \/ ConnectFails
    \/ ReadPacket \/ Timer \/ SocketError \/ Cancelled
    \/ Flush \/ SendDatagram
    \/ Close \/ CloseSent \/ CloseCancelled

Spec == Init /\ [][Next]_vars

\* The application keeps calling recv_event and does not drop every call at the
\* same await; an expired timer is a ready branch of select! in every round; and
\* close goes on when its packet was sent.
FairSpec ==
    /\ Spec
    /\ WF_vars(Drive) /\ SF_vars(Sent) /\ SF_vars(Timer)
    /\ WF_vars(CloseSent)
-----------------------------------------------------------------------------
Everything == delivered \o events \o callbacks

\* The end is among the events of q.
HasEnd(q) == \E i \in 1..Len(q) : q[i] = Closed

Ended == HasEnd(delivered \o events)

\* The state is well formed: the event for the end is only in the queue once
\* `closed` is set, and no more is delivered than happened.
TypeOK ==
    /\ role \in Roles
    /\ quic \in QuicStates
    /\ callbacks \in Seq(1..MaxEvents)
    /\ events \in Seq(0..MaxEvents) /\ delivered \in Seq(0..MaxEvents)
    /\ produced \in 0..MaxEvents
    /\ closed \in BOOLEAN /\ local \in BOOLEAN
    /\ pc \in {"connect", "connecting", "dead", "app", "loop", "send", "select", "close"}
    /\ ret \in {"none", "event", "ConnectionClosed", "error", "recv error"}
    /\ Ended => closed
    /\ Len(delivered) <= produced + 1

\* The first n events, and with the end of the connection in place p.
FirstEvents(n) == [i \in 1..n |-> i]
EndAt(n, p) == [i \in 1..(n + 1) |-> IF i < p THEN i ELSE IF i = p THEN Closed ELSE i - 1]

\* "イベントは発生順に返る": whatever calls the application mixes and at
\* whatever await it drops them, every event the callbacks raised is delivered,
\* queued or still to be drained, once, in the order in which it happened, and the
\* end of the connection is among them at most once.
EventsInOrder ==
    \/ Everything = FirstEvents(produced)
    \/ \E p \in 1..(produced + 1) : Everything = EndAt(produced, p)

\* ConnectionClosed is the last event: when the peer ended the connection, or a
\* timer did, no event that came before it is behind it or left in the sans-IO
\* queue.
ClosedIsLast ==
    Ended /\ quic # "closing" => Everything[Len(Everything)] = Closed

\* "先に flush すると終了イベントを通知できない": recv_event does not report the
\* end of a connection as a failed write.
EndIsNoError ==
    [][ret' = "error" /\ ret # "error" => ~Over]_vars

\* When the peer ends the connection, an application that keeps calling
\* recv_event is told so (or has closed it itself).
PeerCloseReported ==
    quic = "draining" ~> local \/ HasEnd(delivered) \/ pc = "dead"

\* When the idle timer fires, an application that keeps calling recv_event on an
\* accepted connection is told so (or has closed the connection itself).
HandleIdleTimeoutReported ==
    role = "handle" /\ quic = "idle" ~> local \/ HasEnd(delivered)

\* lib.rs, ConnectionEvent::ConnectionClosed: the event is raised for an idle
\* timeout, whichever side the application is on (or it has closed the connection
\* itself).
IdleTimeoutReported ==
    quic = "idle" ~> local \/ HasEnd(delivered) \/ pc = "dead"
=============================================================================
