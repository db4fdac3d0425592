---------------------------- MODULE StreamSender ----------------------------
(***************************************************************************)
(* What the sending side of the tokio layer promises the caller of         *)
(* write_stream: of each stream the peer is sent a prefix of what was      *)
(* written to it, growing at the end, and FIN only when that is all.       *)
(* There is no queue, packet, credit or pass here; StreamWriter is shown   *)
(* to implement this.                                                      *)
(***************************************************************************)
EXTENDS Naturals, Sequences

CONSTANT Streams

VARIABLES
    state,      \* "idle", "open", or "done": nothing more is sent
    written,    \* the bytes write_stream was given
    finished,   \* whether it was given FIN
    sent,       \* the bytes ngtcp2 accepted
    ended       \* whether it accepted FIN

vars == <<state, written, finished, sent, ended>>

Init ==
    /\ state = [s \in Streams |-> "idle"]
    /\ written = [s \in Streams |-> <<>>] /\ sent = [s \in Streams |-> <<>>]
    /\ finished = [s \in Streams |-> FALSE] /\ ended = [s \in Streams |-> FALSE]

\* t begins with s; t ends with s.
Extends(t, s) == Len(s) <= Len(t) /\ SubSeq(t, 1, Len(s)) = s
EndsWith(t, s) == Len(s) <= Len(t) /\ SubSeq(t, Len(t) - Len(s) + 1, Len(t)) = s

\* Only the value of f at s changes.
OnlyAt(f, g, s) == \A u \in Streams : u # s => g[u] = f[u]

Open(s) ==
    /\ state[s] = "idle"
    /\ state' = [state EXCEPT ![s] = "open"]
    /\ UNCHANGED <<written, finished, sent, ended>>

\* After FIN nothing is written.
Write(s) ==
    /\ state[s] # "idle" /\ ~finished[s]
    /\ Extends(written'[s], written[s])
    /\ OnlyAt(written, written', s) /\ OnlyAt(finished, finished', s)
    /\ UNCHANGED <<state, sent, ended>>

\* More of what was written is sent, and with the last of it FIN.
Send(s) ==
    /\ state[s] = "open"
    /\ Extends(sent'[s], sent[s]) /\ Extends(written[s], sent'[s])
    /\ ended'[s] <=> state'[s] = "done"
    /\ ended'[s] => finished[s] /\ sent'[s] = written[s]
    /\ state'[s] \in {"open", "done"}
    /\ OnlyAt(sent, sent', s) /\ OnlyAt(ended, ended', s) /\ OnlyAt(state, state', s)
    /\ UNCHANGED <<written, finished>>

\* The stream is reset, or the peer asked for that.
Abandon(s) ==
    /\ state[s] = "open"
    /\ state' = [state EXCEPT ![s] = "done"]
    /\ UNCHANGED <<written, finished, sent, ended>>

\* What is queued for a stream that is not open is dropped.
Forget(s) ==
    /\ state[s] = "idle"
    /\ written' = [written EXCEPT ![s] = <<>>]
    /\ finished' = [finished EXCEPT ![s] = FALSE]
    /\ UNCHANGED <<state, sent, ended>>

\* 0-RTT is rejected: the streams start again, and may start with the end of what
\* was written to them.
Restart ==
    /\ state' = [s \in Streams |-> "idle"]
    /\ sent' = [s \in Streams |-> <<>>] /\ ended' = [s \in Streams |-> FALSE]
    /\ \A s \in Streams : EndsWith(written[s], written'[s]) /\ (finished'[s] => finished[s])

Next ==
    \/ \E s \in Streams : Open(s) \/ Write(s) \/ Send(s) \/ Abandon(s) \/ Forget(s)
    \/ Restart

Spec == Init /\ [][Next]_vars
=============================================================================
