------------------------ MODULE StatelessResetProofs ------------------------
(***************************************************************************)
(* Stateless Resets for every token length, random length, burst, rate and *)
(* clock.  Of the rate limiter: the bucket is well formed, no interval of  *)
(* time sees more resets than the rate allows, and no time is lost to      *)
(* rounding.  Of the exchange: the composition keeps what is proved of the *)
(* limiter alone, and every reset is shorter than the packet it answers.   *)
(***************************************************************************)
EXTENDS StatelessReset, TLAPS

-----------------------------------------------------------------------------
(* The rate limiter.                                                       *)

\* Integer division by a positive number rounds down.
LEMMA Division ==
    ASSUME NEW a \in Nat, NEW b \in Nat \ {0}
    PROVE  /\ a \div b \in Nat
           /\ b * (a \div b) <= a
           /\ a < b * (a \div b) + b
BY SMT

\* A common positive factor can be cancelled.
LEMMA Cancel ==
    ASSUME NEW a \in Int, NEW b \in Int, NEW c \in Nat \ {0}, a * c < b * c
    PROVE  a < b
BY SMT

\* What refill does with e elapsed nanoseconds.  The time it takes for the
\* permits is time that elapsed; each permit costs a period at least and is
\* worth the time it costs at least; and unless the multiplication saturates,
\* little more than a period is left over.
LEMMA RefillTime ==
    ASSUME NEW e \in Nat
    PROVE  /\ Permits(e) \in Nat
           /\ Cost(Permits(e)) \in Nat
           /\ Cost(Permits(e)) <= e
           /\ Permits(e) * Period <= Cost(Permits(e))
           /\ Cost(Permits(e)) * STATELESS_RESET_RATE <= Permits(e) * NANOS_PER_SEC
           /\ e * STATELESS_RESET_RATE <= U64Max => e - Cost(Permits(e)) <= Period + 1
<1> DEFINE N == NANOS_PER_SEC
           R == STATELESS_RESET_RATE
           m == Saturated(e * R)
           p == Permits(e)
           c == Cost(p)
<1>1. N \in Nat \ {0} /\ R \in Nat \ {0} /\ U64Max \in Nat
  BY ResetLimiterAssumption
<1>2. e * R \in Nat
  BY <1>1
<1>3. m \in Nat /\ m <= e * R /\ m <= U64Max /\ (e * R <= U64Max => m = e * R)
  BY <1>1, <1>2 DEF Saturated
<1>4. p \in Nat /\ N * p <= m /\ m < N * p + N
  <2>1. p = m \div N
    BY DEF Permits
  <2> QED
    BY <1>1, <1>3, <2>1, Division
<1>5. Saturated(p * N) = p * N
  <2> HIDE DEF m, p, N, R
  <2>1. p * N = N * p /\ p * N \in Nat
    BY <1>1, <1>4
  <2> QED
    BY <1>1, <1>3, <1>4, <2>1 DEF Saturated
<1>6. c \in Nat /\ R * c <= p * N /\ p * N < R * c + R
  <2>1. c = (p * N) \div R
    BY <1>5 DEF Cost
  <2>2. p * N \in Nat
    BY <1>1, <1>4
  <2> QED
    BY <1>1, <2>1, <2>2, Division
<1>7. Period \in Nat /\ R * Period <= N /\ N < R * Period + R
  BY <1>1, Division DEF Period
<1> HIDE DEF N, R, m, p, c
<1>8. c <= e
  <2>1. c * R < (e + 1) * R
    BY <1>1, <1>2, <1>3, <1>4, <1>6
  <2> QED
    BY <2>1, <1>1, <1>6, Cancel
<1>9. p * Period <= c
  <2>1. p * (R * Period) <= p * N
    BY <1>1, <1>4, <1>7
  <2>2. (p * Period) * R < (c + 1) * R
    BY <2>1, <1>1, <1>4, <1>6, <1>7
  <2> QED
    BY <2>2, <1>1, <1>4, <1>6, <1>7, Cancel
<1>10. ASSUME e * R <= U64Max PROVE e - c <= Period + 1
  <2>1. e * R < N * p + N
    BY <1>10, <1>3, <1>4
  <2>2. e * R < (c + Period + 2) * R
    BY <2>1, <1>1, <1>4, <1>6, <1>7
  <2>3. e < c + Period + 2
    BY <2>2, <1>1, <1>6, <1>7, Cancel
  <2> QED
    BY <2>3, <1>6, <1>7
<1>11. c * R <= p * N
  BY <1>1, <1>6
<1> QED
  BY <1>4, <1>6, <1>8, <1>9, <1>10, <1>11 DEF N, R, p, c
-----------------------------------------------------------------------------
Limiters(ts) == [bucket : 0..STATELESS_RESET_BURST, last_refill_ts : 0..ts]

\* refill adds the permits up to the burst and moves the refill time by what
\* they cost, also when there are none.
LEMMA Refilled ==
    ASSUME NEW ts \in 0..MaxTime, NEW l \in Limiters(ts),
           NEW k, k = Permits(SaturatingSub(ts, l.last_refill_ts))
    PROVE  /\ k \in Nat
           /\ refill(l, ts) \in Limiters(ts)
           /\ refill(l, ts).last_refill_ts = l.last_refill_ts + Cost(k)
           /\ refill(l, ts).bucket <= l.bucket + k
           /\ l.bucket + k <= STATELESS_RESET_BURST
                => refill(l, ts).bucket = l.bucket + k
<1> DEFINE B == STATELESS_RESET_BURST
           e == ts - l.last_refill_ts
<1>1. /\ B \in Nat \ {0} /\ U64Max \in Nat /\ B <= U64Max
      /\ MaxTime \in Nat /\ MaxTime <= U64Max
      /\ STATELESS_RESET_RATE \in Nat \ {0} /\ NANOS_PER_SEC \in Nat
  BY ResetLimiterAssumption
<1>2. /\ l.bucket \in Nat /\ l.bucket <= B
      /\ l.last_refill_ts \in Nat /\ l.last_refill_ts <= ts
      /\ ts \in Nat /\ ts <= U64Max
  BY <1>1 DEF Limiters
<1>3. e \in Nat /\ SaturatingSub(ts, l.last_refill_ts) = e
  BY <1>2 DEF SaturatingSub
<1>4. k \in Nat /\ Cost(k) \in Nat /\ Cost(k) <= e
      /\ Cost(k) * STATELESS_RESET_RATE <= k * NANOS_PER_SEC
  BY <1>3, RefillTime
<1>5. CASE k = 0
  <2>1. refill(l, ts) = l
    BY <1>5 DEF refill
  <2>2. Cost(k) = 0
    BY <1>1, <1>4, <1>5
  <2> QED
    BY <1>1, <1>2, <1>5, <2>1, <2>2
<1>6. CASE k # 0
  <2> DEFINE b == Least2(Saturated(l.bucket + k), B)
             t == Saturated(l.last_refill_ts + Cost(k))
  <2>1. refill(l, ts) = [bucket |-> b, last_refill_ts |-> t]
    BY <1>6 DEF refill
  <2>2. b \in 0..B /\ b <= l.bucket + k /\ (l.bucket + k <= B => b = l.bucket + k)
    <3> DEFINE s == l.bucket + k
    <3>1. s \in Nat
      BY <1>2, <1>4
    <3> HIDE DEF s
    <3>2. Least2(Saturated(s), B) \in 0..B /\ Least2(Saturated(s), B) <= s
          /\ (s <= B => Least2(Saturated(s), B) = s)
      BY <1>1, <3>1 DEF Least2, Saturated
    <3> QED
      BY <3>2 DEF s
  <2>3. t = l.last_refill_ts + Cost(k) /\ t \in 0..ts
    BY <1>1, <1>2, <1>4 DEF Saturated
  <2> HIDE DEF b, t
  <2>4. refill(l, ts).bucket = b /\ refill(l, ts).last_refill_ts = t
    BY <2>1
  <2>5. refill(l, ts) \in Limiters(ts)
    BY <2>1, <2>2, <2>3 DEF Limiters
  <2> QED
    BY <1>4, <2>2, <2>3, <2>4, <2>5
<1> QED
  BY <1>5, <1>6

\* One call of try_acquire: a permit is granted exactly when the refilled
\* bucket has one, and then it is taken out.
LEMMA Acquired ==
    ASSUME NEW ts \in 0..MaxTime, NEW l \in Limiters(ts)
    PROVE  /\ try_acquire(l, ts) \in Limiters(ts)
           /\ try_acquire(l, ts).last_refill_ts = refill(l, ts).last_refill_ts
           /\ try_acquire(l, ts).bucket + (IF Granted(l, ts) THEN 1 ELSE 0)
                = refill(l, ts).bucket
<1> DEFINE f == refill(l, ts)
<1>1. f \in Limiters(ts)
  BY Refilled
<1> HIDE DEF f
<1>2. f.bucket \in 0..STATELESS_RESET_BURST /\ f.last_refill_ts \in 0..ts
  BY <1>1 DEF Limiters
<1>3. try_acquire(l, ts) = [bucket |-> SaturatingSub(f.bucket, 1),
                            last_refill_ts |-> f.last_refill_ts]
  BY <1>1 DEF try_acquire, f, Limiters
<1>4. /\ SaturatingSub(f.bucket, 1) \in 0..STATELESS_RESET_BURST
      /\ SaturatingSub(f.bucket, 1) + (IF f.bucket # 0 THEN 1 ELSE 0) = f.bucket
  BY <1>2, ResetLimiterAssumption DEF SaturatingSub
<1> QED
  BY <1>2, <1>3, <1>4 DEF Granted, f, Limiters
-----------------------------------------------------------------------------
\* Permits granted in the window and permits still in the bucket are paid for
\* by a burst and by the time up to the refill time.
RatePart ==
    (now * STATELESS_RESET_RATE <= U64Max /\ window.granted > 0) =>
        (window.granted + limiter.bucket - STATELESS_RESET_BURST) * Period
            <= limiter.last_refill_ts - window.since + Period + 1

\* The time the refill time moved by is there as permits, granted or not.
TimePart ==
    ~window.capped =>
        (limiter.last_refill_ts - window.last) * STATELESS_RESET_RATE
            <= (window.granted + limiter.bucket - window.bucket) * NANOS_PER_SEC

IndInv == TypeOK /\ RatePart /\ TimePart

\* The constants and the state as the numbers they are.
LEMMA Numbers ==
    ASSUME TypeOK
    PROVE  /\ STATELESS_RESET_BURST \in Nat \ {0} /\ Period \in Nat
           /\ STATELESS_RESET_RATE \in Nat \ {0} /\ NANOS_PER_SEC \in Nat \ {0}
           /\ U64Max \in Nat /\ now \in Nat /\ now \in 0..MaxTime
           /\ limiter \in Limiters(now)
           /\ limiter.bucket \in Nat /\ limiter.bucket <= STATELESS_RESET_BURST
           /\ limiter.last_refill_ts \in Nat /\ limiter.last_refill_ts <= now
           /\ window.since \in Nat /\ window.since <= now
           /\ window.bucket \in Nat /\ window.bucket <= STATELESS_RESET_BURST
           /\ window.last \in Nat /\ window.last <= limiter.last_refill_ts
           /\ window.granted \in Nat /\ window.sent \in Nat
           /\ window.sent <= window.granted
           /\ window.capped \in BOOLEAN
<1>1. Period \in Nat
  BY ResetLimiterAssumption, Division DEF Period
<1> QED
  BY <1>1, ResetLimiterAssumption DEF TypeOK, Limiters

\* A new limiter, with a full bucket at time 0, satisfies the invariant.
LEMMA InitInv == Init => IndInv
<1> SUFFICES ASSUME Init PROVE IndInv
  OBVIOUS
<1>1. TypeOK
  BY ResetLimiterAssumption DEF Init, NewWindow, TypeOK
<1>2. RatePart /\ TimePart
  BY ResetLimiterAssumption DEF Init, NewWindow, RatePart, TimePart
<1> QED
  BY <1>1, <1>2 DEF IndInv

\* Time that passes between two packets only loosens the bounds.
LEMMA TickInv ==
    ASSUME IndInv, NEW d \in 1..MaxStep, Tick(d)
    PROVE  IndInv'
<1>1. d \in Nat /\ now' = now + d /\ now' \in 0..MaxTime
      /\ limiter' = limiter /\ window' = window
  BY Numbers, ResetLimiterAssumption DEF Tick, IndInv
<1>2. now <= now' /\ now' \in Nat
  BY <1>1, Numbers DEF IndInv
<1>3. TypeOK'
  BY <1>1, <1>2, Numbers DEF IndInv, TypeOK
<1>4. now' * STATELESS_RESET_RATE <= U64Max => now * STATELESS_RESET_RATE <= U64Max
  <2>1. now * STATELESS_RESET_RATE <= now' * STATELESS_RESET_RATE
    BY <1>1, <1>2, Numbers DEF IndInv
  <2> QED
    BY <2>1, <1>2, Numbers DEF IndInv
<1>5. RatePart' /\ TimePart'
  BY <1>1, <1>4 DEF IndInv, RatePart, TimePart
<1> QED
  BY <1>3, <1>5 DEF IndInv

\* A window may be opened at any moment: nothing has been granted in it yet, and
\* the bucket and the refill time it starts from are the limiter's own.
LEMMA OpenWindowInv ==
    ASSUME IndInv, OpenWindow
    PROVE  IndInv'
<1>1. limiter' = limiter /\ now' = now
      /\ window' = [since |-> now, bucket |-> limiter.bucket,
                    last |-> limiter.last_refill_ts,
                    granted |-> 0, sent |-> 0, capped |-> FALSE]
  BY DEF OpenWindow, NewWindow
<1>2. TypeOK'
  BY <1>1, Numbers DEF IndInv, TypeOK
<1>3. RatePart' /\ TimePart'
  BY <1>1, Numbers DEF IndInv, RatePart, TimePart
<1> QED
  BY <1>2, <1>3 DEF IndInv

\* The heart of the argument: the permits refill adds cost a period each, the
\* ceiling of the bucket only takes permits away, and the first permit of a
\* window is granted from a bucket of at most a burst, at a refill time at
\* most a period and one nanosecond before the window was opened.
LEMMA SendInv ==
    ASSUME IndInv, NEW answerable \in BOOLEAN, SendStatelessReset(answerable)
    PROVE  IndInv'
<1> DEFINE e == SaturatingSub(now, limiter.last_refill_ts)
           k == Permits(e)
           c == Cost(k)
           g == IF Granted(limiter, now) THEN 1 ELSE 0
           full == limiter.bucket + k > STATELESS_RESET_BURST
           G == window.granted
           N == NANOS_PER_SEC
           R == STATELESS_RESET_RATE
           B == STATELESS_RESET_BURST
           P == Period
           b == limiter.bucket
           t == limiter.last_refill_ts
           f == refill(limiter, now).bucket
           lim == try_acquire(limiter, now)
<1>0. TypeOK /\ RatePart /\ TimePart
  BY DEF IndInv
<1>1. e \in Nat /\ e = now - t /\ e <= now
  BY <1>0, Numbers DEF SaturatingSub
<1>2. /\ k \in Nat /\ c \in Nat /\ c <= e /\ k * P <= c /\ c * R <= k * N
      /\ e * R <= U64Max => e - c <= P + 1
  BY <1>1, RefillTime
<1>3. /\ refill(limiter, now) \in Limiters(now)
      /\ refill(limiter, now).last_refill_ts = t + c
      /\ f <= b + k
      /\ b + k <= B => f = b + k
  BY <1>0, Numbers, Refilled
<1>4. f \in Nat /\ f <= B
  BY <1>3, Numbers, <1>0 DEF Limiters
<1>5. lim \in Limiters(now) /\ lim.last_refill_ts = t + c /\ lim.bucket + g = f
  BY <1>0, <1>3, Numbers, Acquired
<1>6. lim.bucket \in Nat /\ lim.bucket <= B
  BY <1>5, Numbers, <1>0 DEF Limiters
<1>7. limiter' = lim /\ now' = now
  BY DEF SendStatelessReset
<1>7a. window' = [window EXCEPT
                    !.granted = IF Granted(limiter, now) THEN @ + 1 ELSE @,
                    !.sent = IF Granted(limiter, now) /\ answerable THEN @ + 1 ELSE @,
                    !.capped = @ \/ full]
  BY DEF SendStatelessReset
<1>8. g \in {0, 1}
  OBVIOUS
<1>9. /\ window'.granted = G + g
      /\ window'.since = window.since /\ window'.bucket = window.bucket
      /\ window'.last = window.last
      /\ window'.sent \in {window.sent, window.sent + g}
  BY <1>0, <1>7a, Numbers DEF TypeOK
<1>9a. window'.capped = (window.capped \/ full)
  BY <1>0, <1>7a DEF TypeOK
<1> HIDE DEF g, k, c, f, lim, full, e
<1>9b. limiter'.bucket = lim.bucket /\ limiter'.last_refill_ts = t + c
  BY <1>5, <1>7
<1>9c. /\ window'.granted + limiter'.bucket - B = G + g + lim.bucket - B
       /\ limiter'.last_refill_ts - window'.since + P + 1 = t + c - window.since + P + 1
       /\ window'.granted + limiter'.bucket - window'.bucket
            = G + g + lim.bucket - window.bucket
       /\ limiter'.last_refill_ts - window'.last = t + c - window.last
  BY <1>0, <1>2, <1>6, <1>8, <1>9, <1>9b, Numbers
<1>10. TypeOK'
  <2>1. window' \in [since : 0..now, bucket : 0..STATELESS_RESET_BURST,
                     last : 0..lim.last_refill_ts,
                     granted : Nat, sent : Nat, capped : BOOLEAN]
    <3>1. window.last \in 0..lim.last_refill_ts
      BY <1>0, <1>2, <1>5, Numbers
    <3>2. /\ window'.granted \in Nat /\ window'.sent \in Nat
          /\ window'.capped \in BOOLEAN
      BY <1>0, <1>8, <1>9, <1>9a, Numbers
    <3>3. window' = [since |-> window'.since, bucket |-> window'.bucket,
                     last |-> window'.last, granted |-> window'.granted,
                     sent |-> window'.sent, capped |-> window'.capped]
      BY <1>0, <1>7a DEF TypeOK
    <3>4. window.since \in 0..now /\ window.bucket \in 0..STATELESS_RESET_BURST
      BY <1>0, Numbers
    <3> QED
      BY <1>9, <3>1, <3>2, <3>3, <3>4
  <2>2. window'.sent <= window'.granted
    BY <1>0, <1>8, <1>9, Numbers
  <2>3. now' \in 0..MaxTime /\ limiter' \in Limiters(now')
    BY <1>0, <1>5, <1>7, Numbers
  <2> QED
    BY <1>7, <2>1, <2>2, <2>3 DEF TypeOK, Limiters
<1>11. RatePart'
  <2> SUFFICES ASSUME now * R <= U64Max, G + g > 0
               PROVE  (G + g + lim.bucket - B) * P <= t + c - window.since + P + 1
    BY <1>7, <1>9, <1>9c DEF RatePart
  <2>1. CASE G > 0
    <3>1. (G + b - B) * P <= t - window.since + P + 1
      BY <1>0, <2>1 DEF RatePart
    <3>2. (G + f - B) * P <= (G + b + k - B) * P
      BY <1>0, <1>2, <1>3, <1>4, Numbers
    <3>3. (G + b + k - B) * P = (G + b - B) * P + k * P
      BY <1>0, <1>2, Numbers
    <3>4. (G + f - B) * P <= t - window.since + P + 1 + c
      BY <1>0, <1>2, <1>4, <3>1, <3>2, <3>3, Numbers
    <3>5. G + g + lim.bucket - B = G + f - B
      BY <1>0, <1>4, <1>5, <1>6, <1>8, Numbers
    <3> QED
      BY <1>0, <1>2, <3>4, <3>5, Numbers
  <2>2. CASE G = 0
    <3>1. e * R <= U64Max
      BY <1>0, <1>1, Numbers
    <3>2. now - t - c <= P + 1
      BY <1>0, <1>1, <1>2, <3>1, Numbers
    <3>3. 0 <= t + c - window.since + P + 1
      BY <1>0, <1>2, <3>2, Numbers
    <3>4. G + g + lim.bucket - B <= 0
      BY <1>0, <1>4, <1>5, <1>6, <1>8, <2>2, Numbers
    <3>5. (G + g + lim.bucket - B) * P <= 0
      BY <1>0, <1>6, <1>8, <3>4, Numbers
    <3> QED
      BY <1>0, <1>2, <1>6, <1>8, <3>3, <3>5, Numbers
  <2> QED
    BY <1>0, <2>1, <2>2, Numbers
<1>12. TimePart'
  <2> SUFFICES ASSUME ~(window.capped \/ full)
               PROVE  (t + c - window.last) * R
                        <= (G + g + lim.bucket - window.bucket) * N
    BY <1>9a, <1>9c DEF TimePart
  <2>1. f = b + k
    BY <1>0, <1>2, <1>3, Numbers DEF full
  <2>2. (t - window.last) * R <= (G + b - window.bucket) * N
    BY <1>0 DEF TimePart
  <2>3. (t + c - window.last) * R = (t - window.last) * R + c * R
    BY <1>0, <1>2, Numbers
  <2>4. (G + b + k - window.bucket) * N = (G + b - window.bucket) * N + k * N
    BY <1>0, <1>2, Numbers
  <2>5. G + g + lim.bucket - window.bucket = G + b + k - window.bucket
    <3>1. lim.bucket + g = b + k
      BY <1>5, <2>1
    <3>2. g \in Nat /\ lim.bucket \in Nat /\ G \in Nat /\ window.bucket \in Nat
          /\ b \in Nat /\ k \in Nat
      BY <1>0, <1>2, <1>6, <1>8, Numbers
    <3> QED
      BY <3>1, <3>2
  <2> QED
    BY <1>0, <1>2, <2>2, <2>3, <2>4, <2>5, Numbers
<1> QED
  BY <1>10, <1>11, <1>12 DEF IndInv

\* The invariant holds at every step of the limiter: new, try_acquire and the
\* passing of time.
THEOREM Inductive == Spec => []IndInv
<1>1. IndInv /\ [Next]_vars => IndInv'
  <2> SUFFICES ASSUME IndInv, [Next]_vars PROVE IndInv'
    OBVIOUS
  <2>1. CASE UNCHANGED vars
    BY <2>1 DEF vars, IndInv, TypeOK, RatePart, TimePart
  <2> QED
    BY <2>1, TickInv, SendInv, OpenWindowInv DEF Next
<1> QED
  BY <1>1, InitInv, PTL DEF Spec

\* The bucket holds between none and a burst of permits, and the refill time
\* never overtakes the clock.
THEOREM TypeCorrect == Spec => []TypeOK
BY Inductive, PTL DEF IndInv

\* Whatever the burst, the rate and the times the packets arrive at, no
\* interval of time sees more Stateless Resets than the rate allows.
THEOREM RateIsBounded == Spec => []RateBound
<1>1. IndInv => RateBound
  <2> SUFFICES ASSUME IndInv, now * STATELESS_RESET_RATE <= U64Max
               PROVE  (window.sent - STATELESS_RESET_BURST) * Period
                        <= (now - window.since) + Period + 1
    BY DEF RateBound
  <2> DEFINE B == STATELESS_RESET_BURST
             P == Period
  <2>0. TypeOK /\ RatePart
    BY DEF IndInv
  <2>1. CASE window.granted = 0
    <3>1. window.sent - B <= 0
      BY <2>0, <2>1, Numbers
    <3>2. (window.sent - B) * P <= 0
      BY <2>0, <3>1, Numbers
    <3> QED
      BY <2>0, <3>2, Numbers
  <2>2. CASE window.granted > 0
    <3>1. (window.granted + limiter.bucket - B) * P
            <= limiter.last_refill_ts - window.since + P + 1
      BY <2>0, <2>2 DEF RatePart
    <3>2. (window.sent - B) * P <= (window.granted + limiter.bucket - B) * P
      BY <2>0, Numbers
    <3> QED
      BY <2>0, <3>1, <3>2, Numbers
  <2> QED
    BY <2>0, <2>1, <2>2, Numbers
<1> QED
  BY <1>1, Inductive, PTL

\* Whatever the burst, the rate and the times the packets arrive at, the
\* rounding in refill loses no time: the permits are those the time is worth.
THEOREM TimeIsNotLost == Spec => []NoTimeLost
<1>1. IndInv => NoTimeLost
  <2> DEFINE e == SaturatingSub(now, limiter.last_refill_ts)
             N == NANOS_PER_SEC
             R == STATELESS_RESET_RATE
  <2> SUFFICES ASSUME IndInv, now * R <= U64Max, ~window.capped, Permits(e) = 0
               PROVE  (window.granted + limiter.bucket - window.bucket + 1) * N
                        > (now - window.last) * R
    BY DEF NoTimeLost
  <2>0. TypeOK /\ TimePart
    BY DEF IndInv
  <2>1. e \in Nat /\ e = now - limiter.last_refill_ts /\ e <= now
    BY <2>0, Numbers DEF SaturatingSub
  <2>2. e * R \in Nat /\ e * R <= U64Max
    BY <2>0, <2>1, Numbers
  <2>3. (e * R) \div N = 0
    BY <2>0, <2>2, Numbers DEF Permits, Saturated
  <2>4. e * R < N
    BY <2>0, <2>2, <2>3, Division, Numbers
  <2>5. (limiter.last_refill_ts - window.last) * R
            <= (window.granted + limiter.bucket - window.bucket) * N
    BY <2>0 DEF TimePart
  <2>6. (now - window.last) * R
            = (limiter.last_refill_ts - window.last) * R + e * R
    BY <2>0, <2>1, Numbers
  <2>7. (window.granted + limiter.bucket - window.bucket + 1) * N
            = (window.granted + limiter.bucket - window.bucket) * N + N
    BY <2>0, Numbers
  <2> QED
    BY <2>0, <2>2, <2>4, <2>5, <2>6, <2>7, Numbers
<1> QED
  BY <1>1, Inductive, PTL

\* Time worth a permit makes one.
LEMMA SilencePays ==
    ASSUME NEW ts \in 0..MaxTime, NEW l \in Limiters(ts),
           (ts - l.last_refill_ts) * STATELESS_RESET_RATE >= NANOS_PER_SEC
    PROVE  Granted(l, ts)
<1> DEFINE e == ts - l.last_refill_ts
           N == NANOS_PER_SEC
           R == STATELESS_RESET_RATE
           B == STATELESS_RESET_BURST
           m == Saturated(e * R)
           k == Permits(e)
<1>1. /\ N \in Nat \ {0} /\ R \in Nat \ {0} /\ B \in Nat \ {0} /\ U64Max \in Nat /\ N <= U64Max
      /\ B <= U64Max /\ MaxTime \in Nat
  BY ResetLimiterAssumption
<1>2. /\ l.bucket \in Nat /\ l.bucket <= B /\ e \in Nat
      /\ SaturatingSub(ts, l.last_refill_ts) = e
  BY <1>1 DEF Limiters, SaturatingSub
<1>3. m \in Nat /\ m >= N
  <2>1. e * R \in Nat /\ e * R >= N
    BY <1>1, <1>2
  <2> QED
    BY <1>1, <2>1 DEF Saturated
<1>4. k \in Nat /\ k >= 1
  <2> HIDE DEF m
  <2>1. k = m \div N
    BY DEF Permits, m
  <2>2. m \div N \in Nat /\ m < N * (m \div N) + N
    BY <1>1, <1>3, Division
  <2>3. m \div N # 0
    BY <1>1, <1>3, <2>2
  <2> QED
    BY <2>1, <2>2, <2>3
<1> HIDE DEF k
<1>5. refill(l, ts).bucket = Least2(Saturated(l.bucket + k), B)
  BY <1>2, <1>4 DEF refill, k
<1>6. Least2(Saturated(l.bucket + k), B) # 0
  BY <1>1, <1>2, <1>4 DEF Least2, Saturated
<1> QED
  BY <1>5, <1>6 DEF Granted

\* However the bucket was used up, a permit's worth of silence refills it.
THEOREM SilenceRecovers == Spec => RecoversAfterSilence
<1>1. ASSUME IndInv, [Next]_vars, (now' - now) * STATELESS_RESET_RATE >= NANOS_PER_SEC
      PROVE  Granted(limiter, now')
  <2>0. TypeOK
    BY <1>1 DEF IndInv
  <2>1. now \in Nat /\ limiter \in Limiters(now) /\ limiter.last_refill_ts \in Nat
        /\ limiter.last_refill_ts <= now
        /\ STATELESS_RESET_RATE \in Nat \ {0} /\ NANOS_PER_SEC \in Nat \ {0}
    BY <2>0, Numbers
  <2>2. now' # now
    BY <1>1, <2>1
  <2>3. PICK d \in 1..MaxStep : Tick(d)
    BY <1>1, <2>2 DEF Next, vars, SendStatelessReset, OpenWindow
  <2>4. d \in Nat /\ now' = now + d /\ now' \in 0..MaxTime
    BY <2>1, <2>3, ResetLimiterAssumption DEF Tick
  <2>5. limiter \in Limiters(now')
    BY <2>1, <2>4 DEF Limiters
  <2>6. (now' - limiter.last_refill_ts) * STATELESS_RESET_RATE
            >= (now' - now) * STATELESS_RESET_RATE
    <3> DEFINE R == STATELESS_RESET_RATE
               x == now - limiter.last_refill_ts
    <3>1. x \in Nat /\ now' - limiter.last_refill_ts = x + d /\ now' - now = d
      BY <2>1, <2>4
    <3> HIDE DEF x
    <3>2. (x + d) * R = x * R + d * R /\ x * R >= 0
      BY <2>1, <2>4, <3>1
    <3> QED
      BY <2>1, <2>4, <3>1, <3>2
  <2>7. (now' - limiter.last_refill_ts) * STATELESS_RESET_RATE >= NANOS_PER_SEC
    BY <1>1, <2>1, <2>4, <2>6
  <2> QED
    BY <2>4, <2>5, <2>7, SilencePays
<1>2. IndInv /\ [Next]_vars =>
        [(now' - now) * STATELESS_RESET_RATE >= NANOS_PER_SEC => Granted(limiter, now')]_vars
  BY <1>1
<1> QED
  BY <1>2, Inductive, PTL DEF Spec, RecoversAfterSilence

-----------------------------------------------------------------------------
(* The exchange.                                                           *)

\* The limiter inside send_stateless_reset takes the steps of ResetLimiter: what
\* arrives from the peer only chooses when it is asked.
THEOREM LimiterUnaffected == ResetSpec => Spec
<1>1. ResetInit => Init
  BY DEF ResetInit
<1>2. [ResetNext]_rvars => [Next]_vars
  <2> SUFFICES ASSUME [ResetNext]_rvars PROVE [Next]_vars
    OBVIOUS
  <2>1. ASSUME NEW taken \in BOOLEAN, send_stateless_reset(taken) PROVE Next
    <3>1. SendStatelessReset(Answers(flight.len, taken))
      BY <2>1 DEF send_stateless_reset
    <3>2. Answers(flight.len, taken) \in BOOLEAN
      BY DEF Answers
    <3> QED
      BY <3>1, <3>2 DEF Next
  <2>2. CASE PeerAnswers \/ Ends \/ PeerSends
    BY <2>2 DEF PeerAnswers, Ends, PeerSends
  <2> QED
    BY <2>1, <2>2 DEF ResetNext, ServerReceives, Next, rvars
<1> QED
  BY <1>1, <1>2, PTL DEF ResetSpec, Spec

\* The rate limit holds of the server's resets.
THEOREM ResetRateIsBounded == ResetSpec => []RateBound
BY LimiterUnaffected, RateIsBounded, PTL

\* The lengths a reset can have.
LEMMA ResetLength ==
    ASSUME NEW n \in Nat, write_stateless_reset(n) > 0
    PROVE  /\ write_stateless_reset(n) \in Nat
           /\ write_stateless_reset(n) < n
           /\ write_stateless_reset(n) >= MIN_RANDOM_LEN + TOKEN_LEN
           /\ write_stateless_reset(n) <= MAX_RANDOM_LEN + TOKEN_LEN
BY StatelessResetAssumption DEF write_stateless_reset, Least2, SaturatingSub

\* The length of a datagram is a number.
FlightLen == flight.len \in Nat

\* Datagrams have lengths.
LEMMA LengthsAreNumbers == ResetSpec => []FlightLen
<1>1. ResetInit => FlightLen
  BY DEF ResetInit, FlightLen, NoFlight
<1>2. FlightLen /\ [ResetNext]_rvars => FlightLen'
  <2> SUFFICES ASSUME FlightLen, [ResetNext]_rvars PROVE FlightLen'
    OBVIOUS
  <2>1. ASSUME NEW taken \in BOOLEAN, send_stateless_reset(taken) PROVE FlightLen'
    BY <2>1, ResetLength DEF FlightLen, send_stateless_reset, Answers, NoFlight, Datagram
  <2>2. CASE PeerAnswers
    BY <2>2, ResetLength DEF FlightLen, PeerAnswers, NoFlight, Datagram
  <2>3. CASE Ends \/ PeerSends
    BY <2>3, StatelessResetAssumption DEF FlightLen, Ends, PeerSends, NoFlight, Datagram
  <2> QED
    BY <2>1, <2>2, <2>3 DEF ResetNext, ServerReceives, rvars, FlightLen
<1> QED
  BY <1>1, <1>2, PTL DEF ResetSpec

\* The datagram on its way: who it goes to, its length, and the length of a reset.
FlightOK ==
    /\ secret \in BOOLEAN /\ short_cid_lengths \subseteq CidLengths
    /\ flight \in {NoFlight} \cup [to : {"server", "peer"}, len : 1..MaxLen, reset : BOOLEAN]
    /\ flight.reset => flight.len <= MAX_RANDOM_LEN + TOKEN_LEN

\* The state stays well formed, and the random bytes of a reset fit into the array
\* that write_stateless_reset slices, whatever length the packet had.
THEOREM ResetTypeCorrect == ResetSpec => []ResetTypeOK
<1>1. ResetInit => FlightOK
  BY DEF ResetInit, FlightOK, NoFlight
<1>2. FlightOK /\ [ResetNext]_rvars => FlightOK'
  <2> SUFFICES ASSUME FlightOK, [ResetNext]_rvars PROVE FlightOK'
    OBVIOUS
  <2>0. flight.len \in 0..MaxLen /\ flight.len \in Nat
    BY StatelessResetAssumption DEF FlightOK, NoFlight
  <2>1. ASSUME NEW len, len = write_stateless_reset(flight.len), len > 0
        PROVE  len \in 1..MaxLen /\ len <= MAX_RANDOM_LEN + TOKEN_LEN
    BY <2>0, <2>1, ResetLength, StatelessResetAssumption
  <2>2. ASSUME NEW taken \in BOOLEAN, send_stateless_reset(taken) PROVE FlightOK'
    BY <2>1, <2>2 DEF FlightOK, send_stateless_reset, Answers, NoFlight, Datagram, fixed
  <2>3. CASE PeerAnswers
    BY <2>1, <2>3 DEF FlightOK, PeerAnswers, NoFlight, Datagram, fixed
  <2>4. CASE Ends
    BY <2>4 DEF FlightOK, Ends, NoFlight, fixed
  <2>5. CASE PeerSends
    <3>1. PICK len \in 1..MaxLen : flight' = Datagram("server", len, FALSE)
      BY <2>5 DEF PeerSends
    <3>2. Datagram("server", len, FALSE) \in [to : {"server", "peer"}, len : 1..MaxLen, reset : BOOLEAN]
      BY DEF Datagram
    <3>3. ~flight'.reset
      BY <3>1 DEF Datagram
    <3> QED
      BY <2>5, <3>1, <3>2, <3>3 DEF FlightOK, PeerSends, fixed
  <2> QED
    BY <2>2, <2>3, <2>4, <2>5 DEF ResetNext, ServerReceives, rvars, fixed, FlightOK
<1>3. TypeOK /\ FlightOK => ResetTypeOK
  BY DEF FlightOK, ResetTypeOK
<1> QED
  BY <1>1, <1>2, <1>3, LimiterUnaffected, TypeCorrect, PTL DEF ResetSpec

\* A reset is shorter than the packet it answers, and long enough to be told.
THEOREM EveryResetShrinks == ResetSpec => ResetsShrink
<1> DEFINE Shrinks == flight'.reset /\ flight' # flight =>
                        /\ flight'.len < flight.len
                        /\ flight'.len >= MIN_RANDOM_LEN + TOKEN_LEN
<1>1. FlightLen /\ [ResetNext]_rvars => [Shrinks]_rvars
  <2> SUFFICES ASSUME FlightLen, ResetNext PROVE Shrinks
    OBVIOUS
  <2>1. ASSUME NEW taken \in BOOLEAN, send_stateless_reset(taken) PROVE Shrinks
    BY <2>1, ResetLength DEF FlightLen, send_stateless_reset, Answers, NoFlight, Datagram
  <2>2. CASE PeerAnswers
    BY <2>2, ResetLength DEF FlightLen, PeerAnswers, NoFlight, Datagram
  <2>3. CASE Ends \/ PeerSends
    BY <2>3 DEF Ends, PeerSends, NoFlight, Datagram
  <2> QED
    BY <2>1, <2>2, <2>3 DEF ResetNext, ServerReceives
<1> QED
  BY <1>1, LengthsAreNumbers, PTL DEF ResetSpec, ResetsShrink
=============================================================================
