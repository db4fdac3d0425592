---------------------------- MODULE ResetLimiter ----------------------------
(***************************************************************************)
(* The token bucket that limits Stateless Resets (StatelessResetLimiter,   *)
(* tokio-ngtcp2/src/server.rs) and the handler that draws from it          *)
(* (Server::send_stateless_reset).  Time is the argument ts: the limiter   *)
(* has no timer and is refilled when it is asked, at times the peers       *)
(* choose.                                                                 *)
(*                                                                         *)
(* Resets are counted in a window that may be opened at any moment, so a   *)
(* statement about the window is one about every interval of time.         *)
(***************************************************************************)
EXTENDS Integers

CONSTANTS
    STATELESS_RESET_BURST,  \* 100 in the code
    STATELESS_RESET_RATE,   \* 33 per second
    NANOS_PER_SEC,          \* 10^9
    U64Max,                 \* 2^64 - 1, where the arithmetic saturates
    MaxTime,                \* bound: the last time a packet arrives
    MaxStep                 \* bound: the longest silence between packets

ASSUME ResetLimiterAssumption ==
    /\ STATELESS_RESET_BURST \in Nat \ {0}
    /\ STATELESS_RESET_RATE \in Nat \ {0}
    /\ NANOS_PER_SEC \in Nat \ {0}
    /\ U64Max \in Nat /\ NANOS_PER_SEC <= U64Max
    /\ STATELESS_RESET_RATE <= NANOS_PER_SEC
    /\ STATELESS_RESET_BURST <= U64Max
    /\ MaxTime \in Nat /\ MaxTime <= U64Max
    /\ MaxStep \in Nat

VARIABLES
    limiter,    \* [bucket, last_refill_ts]
    now,        \* timestamp() of the latest packet
    window      \* history: [since, bucket, last, granted, sent, capped]

vars == <<limiter, now, window>>
-----------------------------------------------------------------------------
Saturated(n) == IF n > U64Max THEN U64Max ELSE n

SaturatingSub(m, n) == IF m > n THEN m - n ELSE 0

Least2(m, n) == IF m < n THEN m ELSE n

\* The permits that `elapsed` nanoseconds are worth, and the time that so
\* many permits cost.
Permits(elapsed) == Saturated(elapsed * STATELESS_RESET_RATE) \div NANOS_PER_SEC

Cost(permits) == Saturated(permits * NANOS_PER_SEC) \div STATELESS_RESET_RATE

\* Faults: the fraction of a permit is dropped with the time it took; the
\* time paid for is not taken off.
refill_truncating(l, ts) ==
    LET more == Permits(SaturatingSub(ts, l.last_refill_ts))
    IN  IF more = 0 THEN l
        ELSE [bucket |-> Least2(l.bucket + more, STATELESS_RESET_BURST),
              last_refill_ts |-> ts]

refill_for_free(l, ts) ==
    LET more == Permits(SaturatingSub(ts, l.last_refill_ts))
    IN  [l EXCEPT !.bucket = Least2(@ + more, STATELESS_RESET_BURST)]

\* The early return for more = 0 leaves both fields as they are, which is
\* what the assignments would do.
refill(l, ts) ==
    LET more == Permits(SaturatingSub(ts, l.last_refill_ts))
    IN  IF more = 0 THEN l
        ELSE [bucket |-> Least2(Saturated(l.bucket + more), STATELESS_RESET_BURST),
              last_refill_ts |-> Saturated(l.last_refill_ts + Cost(more))]

\* The limiter after try_acquire, and whether it granted a permit.
Granted(l, ts) == refill(l, ts).bucket # 0

\* Fault: a request that is refused starts the wait anew.
try_acquire_penalty(l, ts) ==
    IF Granted(l, ts) THEN [refill(l, ts) EXCEPT !.bucket = SaturatingSub(@, 1)]
    ELSE [l EXCEPT !.last_refill_ts = ts + Cost(1)]

try_acquire(l, ts) ==
    [refill(l, ts) EXCEPT !.bucket = SaturatingSub(@, 1)]
-----------------------------------------------------------------------------
NewWindow(l) ==
    [since |-> now, bucket |-> l.bucket, last |-> l.last_refill_ts,
     granted |-> 0, sent |-> 0, capped |-> FALSE]

Init ==
    /\ limiter = [bucket |-> STATELESS_RESET_BURST, last_refill_ts |-> 0]
    /\ now = 0
    /\ window = NewWindow(limiter)

\* Time passes between two packets.
Tick(d) ==
    /\ now + d <= MaxTime
    /\ now' = now + d
    /\ UNCHANGED <<limiter, window>>

\* The permit is drawn before the CID is looked at: none is given back when
\* the server has no secret, the CID was handed over to a live connection or
\* the packet is too short to be answered (answerable = FALSE).
SendStatelessReset(answerable) ==
    LET granted == Granted(limiter, now)
        full == limiter.bucket + Permits(SaturatingSub(now, limiter.last_refill_ts))
                    > STATELESS_RESET_BURST
    IN  /\ limiter' = try_acquire(limiter, now)
        /\ window' = [window EXCEPT
                        !.granted = IF granted THEN @ + 1 ELSE @,
                        !.sent = IF granted /\ answerable THEN @ + 1 ELSE @,
                        !.capped = @ \/ full]
        /\ UNCHANGED now

OpenWindow ==
    /\ window' = NewWindow(limiter)
    /\ UNCHANGED <<limiter, now>>

Next ==
    \/ \E d \in 1..MaxStep : Tick(d)
    \/ \E answerable \in BOOLEAN : SendStatelessReset(answerable)
    \/ OpenWindow

Spec == Init /\ [][Next]_vars
-----------------------------------------------------------------------------
\* The bucket never holds more than a burst, and the refill time never runs
\* ahead of the clock (saturating_sub would then silently stop the refill).
TypeOK ==
    /\ limiter \in [bucket : 0..STATELESS_RESET_BURST, last_refill_ts : 0..now]
    /\ now \in 0..MaxTime
    /\ window \in [since : 0..now, bucket : 0..STATELESS_RESET_BURST,
                   last : 0..limiter.last_refill_ts,
                   granted : Nat, sent : Nat, capped : BOOLEAN]
    /\ window.sent <= window.granted

\* The time one permit takes, rounded down, and the longest time that can be
\* left unpaid after a refill.
Period == NANOS_PER_SEC \div STATELESS_RESET_RATE

\* As long as the multiplication has not saturated (17 years of uptime), no
\* interval of time sees more resets than one burst, one more for each period
\* that passed in it, and one for the period it began in: however the packets
\* are spaced, the rounding in refill never mints permits.
RateBound ==
    now * STATELESS_RESET_RATE <= U64Max =>
        (window.sent - STATELESS_RESET_BURST) * Period
            <= (now - window.since) + Period + 1

\* "端数を切り捨てないよう": while the bucket has not overflowed, and nothing
\* is left to refill, the permits granted and those in the bucket are all that
\* the elapsed time is worth, but for the fraction of one.  However often the
\* limiter is polled, no time is lost.
NoTimeLost ==
    (/\ now * STATELESS_RESET_RATE <= U64Max
     /\ ~window.capped
     /\ Permits(SaturatingSub(now, limiter.last_refill_ts)) = 0)
    => (window.granted + limiter.bucket - window.bucket + 1) * NANOS_PER_SEC
            > (now - window.last) * STATELESS_RESET_RATE

\* The permit is drawn before it is known whether a reset may be sent, so packets
\* that are never answered use up the bucket; but only for a while: whatever was
\* drawn, once a permit's worth of time passed in silence there is a permit.
RecoversAfterSilence ==
    [][(now' - now) * STATELESS_RESET_RATE >= NANOS_PER_SEC => Granted(limiter, now')]_vars
=============================================================================
