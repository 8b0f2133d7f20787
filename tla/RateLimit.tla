------------------------------ MODULE RateLimit ------------------------------
(***************************************************************************)
(* The speed limits of a transfer (util/progress/rate_limit.rs): a maximum *)
(* speed kept by delaying the next read, a minimum speed below which the   *)
(* transfer is given up, and a timer that gives up on a silent peer.  The  *)
(* two directions use the same SpeedLimit: receiving delays the read after *)
(* the one that was too fast (Http1Conn::poll_read), sending sleeps inside *)
(* the write loop of the request body (encode_request_body).               *)
(*                                                                         *)
(* Time is counted in ticks, Period of them to SPEED_CHECK_PERIOD; a rate  *)
(* is a number of bytes per period.  None is 0 for an instant: the clock   *)
(* starts at 1.                                                            *)
(***************************************************************************)
EXTENDS Naturals, FiniteSets

CONSTANTS
    Period, MaxRate, MinRate, Interval,
    Chunk,      \* the most one read or write transfers
    Horizon     \* the clock stops here

VARIABLES
    mode,       \* "recv" or "send"
    now,
    max, min,   \* SpeedLimit of the maximum and of the minimum speed
    doing,      \* "idle", "io" (waiting for the socket), "sleep", "slow", "silent"
    wrote,      \* bytes of this turn of the write loop
    total,      \* bytes transferred
    excuse      \* why the peer cannot be expected to keep the minimum speed

vars == <<mode, now, max, min, doing, wrote, total, excuse>>

\* SpeedLimit::new; `since` and `bytes` describe the interval below the minimum.
SpeedLimitNew(rate, interval) ==
    [rate |-> rate, interval |-> interval, allowed |-> rate, start |-> 0, elapsed |-> 0,
     data |-> 0, delay |-> 0, timeout |-> 1 + interval, since |-> 0, slow |-> 0, bytes |-> 0]

limited_time(l) == (l.data * Period) \div l.rate

init_if_not_start(l) == IF l.start = 0 THEN [l EXCEPT !.start = now] ELSE l
next_period(l) == [l EXCEPT !.data = 0, !.start = 0, !.elapsed = 0]
next_interval(l) == [l EXCEPT !.since = 0, !.slow = 0, !.bytes = 0]
reset_pending_timeout(l) == [l EXCEPT !.timeout = now + l.interval]

Counted(l, n) == [l EXCEPT !.elapsed = @ + (now - l.start), !.data = @ + n, !.start = 0]

\* After a read of n bytes: the next one is delayed when this one was too fast.
delay_max_speed_limit(l, n) ==
    IF l.start = 0 THEN l
    ELSE LET c == Counted(l, n)
         IN  IF c.elapsed < Period
             THEN IF c.data >= c.allowed THEN [c EXCEPT !.delay = now + (limited_time(c) - c.elapsed)]
                  ELSE c
             ELSE IF c.elapsed < limited_time(c)
                  THEN [c EXCEPT !.delay = now + (limited_time(c) - c.elapsed)]
                  ELSE next_period(c)

\* Mutant: a period at or above the minimum does not end the slow interval.
SlowForEver(l, n) ==
    IF l.start = 0 THEN [ok |-> TRUE, l |-> l]
    ELSE LET s == [l EXCEPT !.since = IF @ = 0 THEN l.start ELSE @, !.slow = @ + (now - l.start),
                            !.bytes = @ + n]
             c == Counted(s, n)
         IN  IF c.elapsed < Period THEN [ok |-> TRUE, l |-> c]
             ELSE IF now - c.since > c.interval THEN [ok |-> FALSE, l |-> c]
                  ELSE [ok |-> TRUE, l |-> next_period(c)]

\* limit_min_speed and check_min_speed: each full period is compared with the
\* minimum; one that reaches it ends the slow interval, one that does not fails
\* once the interval is longer than allowed.
limit_min_speed(l, n) ==
    IF l.start = 0 THEN [ok |-> TRUE, l |-> l]
    ELSE LET s == [l EXCEPT !.since = IF @ = 0 THEN l.start ELSE @, !.slow = @ + (now - l.start),
                            !.bytes = @ + n]
             c == Counted(s, n)
         IN  IF c.elapsed < Period THEN [ok |-> TRUE, l |-> c]
             ELSE IF c.elapsed > limited_time(c)
                  THEN IF now - c.since > c.interval THEN [ok |-> FALSE, l |-> c]
                       ELSE [ok |-> TRUE, l |-> next_period(c)]
                  ELSE [ok |-> TRUE, l |-> next_period(next_interval(c))]

----------------------------------------------------------------------------
Init ==
    /\ mode \in {"recv", "send"}
    /\ now = 1
    /\ max = SpeedLimitNew(MaxRate, 0)
    /\ min = SpeedLimitNew(MinRate, Interval)
    /\ doing = "idle" /\ wrote = 0 /\ total = 0 /\ excuse = {}

\* For FastPeerNotBlamed: a read or write of n bytes that leaves the maximum with
\* the delay of x.
Excuses(n, x) ==
    (IF n < MinRate THEN {"short"} ELSE {}) \cup
    (IF x.delay >= now + Interval THEN {"held"} ELSE {})

Alive == doing \notin {"slow", "silent"}
Delayed == max.delay # 0 /\ now < max.delay

\* Time passes: the caller, the socket or the scheduler took it, unless the limit
\* itself holds the transfer back.
Tick ==
    /\ Alive /\ now < Horizon
    /\ now' = now + 1
    /\ excuse' = excuse \cup
         (CASE doing = "idle" -> {"idle"} [] Delayed -> {} [] OTHER -> {"waited"})
    /\ UNCHANGED <<mode, max, min, doing, wrote, total>>

\* The body is read on: the first poll of a read.
Begin ==
    /\ doing = "idle" /\ doing' = "io"
    /\ IF mode = "send"
       THEN min' = init_if_not_start(min) /\ max' = init_if_not_start(max)
       ELSE min' = (IF now >= min.timeout THEN min ELSE init_if_not_start(min)) /\ UNCHANGED max
    /\ UNCHANGED <<mode, now, wrote, total, excuse>>

\* poll_recv_pending_timeout, poll_send_pending_timeout: nothing was transferred
\* for the interval.
poll_pending_timeout ==
    /\ doing = "io" /\ now >= min.timeout
    /\ doing' = "silent"
    /\ UNCHANGED <<mode, now, max, min, wrote, total, excuse>>

\* poll_max_limited_delay: the delay of the last read is over.
poll_max_limited_delay ==
    /\ doing = "io" /\ mode = "recv" /\ now < min.timeout
    /\ max.delay # 0 /\ now >= max.delay
    /\ max' = next_period([max EXCEPT !.delay = 0])
    /\ UNCHANGED <<mode, now, min, doing, wrote, total, excuse>>

\* The socket gives n bytes.
recv ==
    /\ doing = "io" /\ mode = "recv" /\ now < min.timeout /\ max.delay = 0
    /\ \E n \in 1..Chunk :
       \E m \in {limit_min_speed(min, n)}, x \in {init_if_not_start(max)} :
         /\ total' = total + n
         /\ excuse' = excuse \cup Excuses(n, delay_max_speed_limit(x, n))
         /\ IF m.ok
            THEN /\ min' = reset_pending_timeout(m.l)
                 /\ max' = delay_max_speed_limit(x, n)
                 /\ doing' = "idle"
            ELSE min' = m.l /\ doing' = "slow" /\ max' = x
    /\ UNCHANGED <<mode, now, wrote>>

\* The socket is polled and not ready: the clock of the maximum runs from here.
recv_pending ==
    /\ doing = "io" /\ mode = "recv" /\ now < min.timeout /\ max.delay = 0 /\ max.start = 0
    /\ max' = init_if_not_start(max)
    /\ UNCHANGED <<mode, now, min, doing, wrote, total, excuse>>

\* The buffer of n bytes is written; limit_max_speed then sleeps if it was too fast.
send ==
    /\ doing = "io" /\ mode = "send" /\ now < min.timeout
    /\ \E n \in 1..Chunk :
       \E x \in {delay_max_speed_limit(max, n)} :
         /\ total' = total + n
         /\ excuse' = excuse \cup Excuses(n, x)
         /\ max' = x
         /\ min' = reset_pending_timeout(min)
         /\ wrote' = n
    /\ doing' = "sleep"
    /\ UNCHANGED <<mode, now>>

\* The sleep, if any, is over; the minimum is checked last.
send_checked ==
    /\ doing = "sleep" /\ ~Delayed
    /\ max' = IF max.delay # 0 THEN next_period([max EXCEPT !.delay = 0]) ELSE max
    /\ \E m \in {limit_min_speed(min, wrote)} :
         /\ min' = m.l
         /\ doing' = IF m.ok THEN "idle" ELSE "slow"
    /\ UNCHANGED <<mode, now, wrote, total, excuse>>

Next ==
    \/ Tick \/ Begin \/ poll_pending_timeout \/ poll_max_limited_delay
    \/ recv \/ recv_pending \/ send \/ send_checked

Spec == Init /\ [][Next]_vars

----------------------------------------------------------------------------
(* The maximum speed is kept over the whole transfer, however the reads, the   *)
(* pauses of the caller and the timers interleave: what was transferred never  *)
(* exceeds what the rate allows for the time that has passed by more than one  *)
(* period's allowance and one read ("maximum number of bytes per second        *)
(* allowed for data transfer", delay_max_speed_limit, limit_max_speed).        *)
MaxSpeedKept ==
    total * Period <= MaxRate * (now - 1) + Period * (MaxRate + Chunk)

(* A transfer is given up as too slow only when it was: for longer than the    *)
(* interval, and with fewer bytes in the time spent transferring since then    *)
(* than the minimum speed asks for (limit_min_speed, check_min_speed).         *)
SlowIsSlow ==
    doing = "slow" => now - min.since > Interval /\ min.bytes * Period < MinRate * min.slow

(* The limits do not work against each other: a caller that reads on at once   *)
(* and a peer that gives a period's minimum with every read are not given up   *)
(* on although the maximum speed holds the reads back (poll_recv_pending_-     *)
(* timeout and the minimum both run during that delay) - unless the delay of   *)
(* one read is as long as the interval (held): then the timer takes the        *)
(* client's own delay for a silent peer.                                       *)
FastPeerNotBlamed == excuse = {} => Alive
=============================================================================
