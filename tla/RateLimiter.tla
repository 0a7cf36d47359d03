---------------------------- MODULE RateLimiter ----------------------------
(***************************************************************************)
(* The rate limiter that the runtime hands to every capability: one row    *)
(* per key and window kind, which holds the start of the current window    *)
(* and what was consumed in it.  consume() reads both rows, decides and    *)
(* writes both without an await, so it is one step.                        *)
(***************************************************************************)
EXTENDS Naturals, Sequences, FiniteSets

CONSTANTS MinuteTicks,   \* MINUTE_MS
          HourTicks,     \* HOUR_MS
          Keys,          \* bucket keys in use
          LimitOf,       \* the limits a key is used with
          MaxClock       \* bound

\* A limit of 0 would refuse everything; the channels give positive ones.
LimitsArePositive ==
  /\ {MinuteTicks, HourTicks} \subseteq Nat \ {0}
  /\ \A k \in Keys : LimitOf[k] \in [perMinute : Nat \ {0}, perHour : Nat]

VARIABLES buckets,       \* rate_limit_buckets: key -> [minute, hour]
          consumed,      \* ghost: key -> times at which a unit was granted
          clock

NoRow == [start |-> 0, count |-> 0]       \* no row yet: nothing counted
NoHour == 0                               \* perHour left out

\* Mutant: the window is rolled forward on every request.
windowStartAlways(row, now, len) == now

windowStart(row, now, len) ==
  IF row.count = 0 \/ now - row.start >= len THEN now ELSE row.start

Counted(row, now, len) ==
  IF row.start = windowStart(row, now, len) THEN row.count ELSE 0

\* What consume answers for a key whose buckets are b.
Allowed(k) ==
  LET lim == LimitOf[k]
  IN  /\ Counted(buckets[k].minute, clock, MinuteTicks) < lim.perMinute
      /\ lim.perHour # NoHour =>
           Counted(buckets[k].hour, clock, HourTicks) < lim.perHour

Written(row, len) == [start |-> windowStart(row, clock, len),
                      count |-> Counted(row, clock, len) + 1]

\* The rows after a unit was granted; a refused request writes nothing.
Charged(k) ==
  [minute |-> Written(buckets[k].minute, MinuteTicks),
   hour   |-> IF LimitOf[k].perHour = NoHour THEN buckets[k].hour
              ELSE Written(buckets[k].hour, HourTicks)]

\* Grants a unit of each key in ks.
Charge(ks) ==
  /\ buckets' = [k \in Keys |-> IF k \in ks THEN Charged(k) ELSE buckets[k]]
  /\ consumed' = [k \in Keys |-> IF k \in ks THEN Append(consumed[k], clock)
                                 ELSE consumed[k]]

LimiterInit ==
  /\ buckets = [k \in Keys |-> [minute |-> NoRow, hour |-> NoRow]]
  /\ consumed = [k \in Keys |-> << >>]
  /\ clock = 0

consume(k) == Allowed(k) /\ Charge({k}) /\ UNCHANGED clock

LimiterTick ==
  clock < MaxClock /\ clock' = clock + 1 /\ UNCHANGED <<buckets, consumed>>

\* The limiter by itself, with callers that ask at any time.
LimiterNext == LimiterTick \/ \E k \in Keys : consume(k)
-----------------------------------------------------------------------------
GrantedWithin(k, t, len) ==
  Cardinality({i \in DOMAIN consumed[k] :
                 consumed[k][i] >= t /\ consumed[k][i] < t + len})

\* A window begins with its first request, so two windows that touch any span
\* of the same length grant less than twice the limit in it.
RateBounded ==
  \A k \in Keys, t \in 0..clock :
    /\ GrantedWithin(k, t, MinuteTicks) < 2 * LimitOf[k].perMinute
    /\ LimitOf[k].perHour # NoHour =>
         GrantedWithin(k, t, HourTicks) < 2 * LimitOf[k].perHour

\* What the name promises: the limit holds in every span, not only in windows.
Sliding ==
  \A k \in Keys, t \in 0..clock :
    GrantedWithin(k, t, MinuteTicks) <= LimitOf[k].perMinute
=============================================================================
