-------------------------------- MODULE Cron --------------------------------
(***************************************************************************)
(* computeNext: the search for the next minute that matches the fields of  *)
(* a cron expression in the schedule's time zone.  Time is counted in UTC  *)
(* minutes; one step is one iteration of the loop.  The month, the day of  *)
(* the month and the day of the week all depend on the local day only and  *)
(* a mismatch in any of them skips alike, so the fields keep one set of    *)
(* days.  A zone's offset changes once, at `change` (daylight saving).     *)
(* The lengths of the hour and the day are constants: the loop uses no     *)
(* other property of 60 and 24.                                            *)
(***************************************************************************)
EXTENDS Integers

CONSTANTS MinutesPerHour, HoursPerDay,
          Days,        \* local days, from 0
          Zones,       \* [before, after, change]: minutes ahead of UTC
                       \* before and from the minute `change` on
          MaxFrom,     \* bound: the latest `from`
          MaxIterations \* MAX_ITERATIONS: the loop gives up

VARIABLES fields,  \* [days, hours, minutes]: the parsed expression
          zone,
          from,    \* the caller's `from`, a whole minute
          d,       \* the candidate
          i,       \* iterations done
          phase    \* search, found, or failed

vars == <<fields, zone, from, d, i, phase>>

\* The search is sound for zones whose clock is set back or not at all, at a
\* full hour, and within a day or at its end.
CronConstants ==
  /\ {MinutesPerHour, HoursPerDay} \subseteq Nat \ {0}
  /\ \A z \in Zones :
       LET day == HoursPerDay * MinutesPerHour
           old == z.change + z.before
           new == z.change + z.after
       IN  /\ {z.before, z.after, z.change} \subseteq Int
           /\ \/ z.after = z.before
              \/ /\ z.after < z.before
                 /\ old % MinutesPerHour = 0
                 /\ new \div day = old \div day \/ old % day = 0

Fields == [days    : SUBSET Days \ {{}},
           hours   : SUBSET (0 .. HoursPerDay - 1) \ {{}},
           minutes : SUBSET (0 .. MinutesPerHour - 1) \ {{}}]

-----------------------------------------------------------------------------
\* getFields: the local day, hour and minute of a UTC minute.
Local(t) == t + (IF t < zone.change THEN zone.before ELSE zone.after)
DayOf(t) == Local(t) \div (HoursPerDay * MinutesPerHour)
HourOf(t) == (Local(t) \div MinutesPerHour) % HoursPerDay
MinuteOf(t) == Local(t) % MinutesPerHour

Matches(t) == /\ DayOf(t) \in fields.days
              /\ HourOf(t) \in fields.hours
              /\ MinuteOf(t) \in fields.minutes

\* Minutes to the next local day, and to the next local hour.
ToNextDay(t) ==
  (HoursPerDay - 1 - HourOf(t)) * MinutesPerHour
    + (MinutesPerHour - MinuteOf(t))

\* Mutant: the minute within the hour is forgotten.
ToNextHourFull(t) == MinutesPerHour

ToNextHour(t) == MinutesPerHour - MinuteOf(t)

Advance(n) ==
  d' = d + n /\ i' = i + 1 /\ UNCHANGED <<fields, zone, from, phase>>

Searching == phase = "search" /\ i < MaxIterations

skipDay ==
  /\ Searching
  /\ DayOf(d) \notin fields.days
  /\ Advance(ToNextDay(d))

skipHour ==
  /\ Searching
  /\ DayOf(d) \in fields.days /\ HourOf(d) \notin fields.hours
  /\ Advance(ToNextHour(d))

skipMinute ==
  /\ Searching
  /\ DayOf(d) \in fields.days /\ HourOf(d) \in fields.hours
  /\ MinuteOf(d) \notin fields.minutes
  /\ Advance(1)

return ==
  /\ Searching
  /\ Matches(d)
  /\ phase' = "found"
  /\ UNCHANGED <<fields, zone, from, d, i>>

throw ==
  /\ phase = "search" /\ i = MaxIterations
  /\ phase' = "failed"
  /\ UNCHANGED <<fields, zone, from, d, i>>

-----------------------------------------------------------------------------
Init ==
  /\ fields \in Fields
  /\ zone \in Zones
  /\ from \in 0 .. MaxFrom
  /\ d = from + 1 /\ i = 0
  /\ phase = "search"

Next == skipDay \/ skipHour \/ skipMinute \/ return \/ throw

Spec == Init /\ [][Next]_vars

-----------------------------------------------------------------------------
\* The search jumps over no minute that matches, so the fire time it returns
\* is the first one after `from`, and a search that gives up has passed none.
\* "Skip optimizations use local-time offsets so they're safe across timezone
\* boundaries." (cron.ts)
NoOccurrenceSkipped == \A t \in from + 1 .. d - 1 : ~Matches(t)
=============================================================================
