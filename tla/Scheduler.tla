------------------------------ MODULE Scheduler -----------------------------
(***************************************************************************)
(* Schedules and one-shot timers of one agent: the schedules table, the    *)
(* map of callbacks, the single wake time of the host, and the alarm       *)
(* handler that works through the schedules that are due.                  *)
(*                                                                         *)
(* handleAlarmFired reads the due rows once and then awaits a hook and an  *)
(* execution for each; between those awaits tools and clients change the   *)
(* table.  Every other operation is a single step that ends with           *)
(* refreshAlarm.  The table and the wake time are durable; callbacks and   *)
(* the running handler are in memory and are lost on eviction.             *)
(***************************************************************************)
EXTENDS Integers, Sequences, FiniteSets, SequencesExt

CONSTANTS Timers,      \* ids of one-shot timers
          Prompts,     \* ids of the user's cron schedules with a prompt
          Callbacks,   \* ids of the capabilities' cron schedules
          Declared,    \* timers a capability declares in schedules()
          None,        \* no time
          Period,      \* every cron expression fires at its multiples
          Delay,       \* delaySeconds of every setTimer
          Lifetime,    \* maxDuration of a schedule that has one
          Retention,   \* sessions kept per prompt schedule
          MaxClock,    \* bound: the clock stops here
          CanFail,     \* executions and hooks may throw
          CanEvict     \* the Durable Object may be evicted

Crons == Prompts \cup Callbacks
Ids == Timers \cup Crons
Times == 0 .. (MaxClock + Period + Delay + Lifetime)

ASSUME SchedulerAssumption ==
  /\ Timers \cap Crons = {} /\ Prompts \cap Callbacks = {}
  /\ Declared \subseteq Timers
  /\ IsFiniteSet(Ids)
  /\ None \notin Nat
  /\ {Period, Delay, Lifetime, Retention} \subseteq Nat \ {0}
  /\ MaxClock \in Nat
  /\ {CanFail, CanEvict} \subseteq BOOLEAN

VARIABLES table,      \* schedules: [enabled, next, expires, status] per id
          callbacks,  \* ids in scheduleCallbacks
          wake,       \* the host's wake time
          phase,      \* idle, loop, hooks, executing: handleAlarmFired
          due,        \* its snapshot of due rows not yet finished
          firedAt,    \* its `now`
          clock,
          ran,        \* ghost: occurrences executed, per cron schedule
          kept,       \* sessions of each prompt schedule, newest first
          cancelled   \* ghost: timers cancelled and not set again

vars == <<table, callbacks, wake, phase, due, firedAt, clock, ran, kept,
          cancelled>>
handler == <<phase, due, firedAt>>
ghosts == <<ran, kept, cancelled>>

Existing == DOMAIN table
Active(i) == i \in Existing /\ table[i].enabled

ScheduleRow == [enabled : BOOLEAN, next : Times, expires : Times \cup {None},
                status : {"idle", "running", "failed"}]

\* The row of the snapshot that the handler is working on.
Current == Head(due)

-----------------------------------------------------------------------------
\* ScheduleStore
With(t, i, row) == [j \in DOMAIN t \cup {i} |-> IF j = i THEN row ELSE t[j]]
Without(t, i) == [j \in DOMAIN t \ {i} |-> t[j]]

NewRow(next, expires) ==
  [enabled |-> TRUE, next |-> next, expires |-> expires, status |-> "idle"]

\* Mutant: the status is written with an upsert.
SetStatusUpsert(i, status) ==
  IF i \in Existing THEN [table EXCEPT ![i].status = status]
                    ELSE With(table, i, [status |-> status])

\* An UPDATE of a row that is gone changes nothing.
SetStatus(i, status) ==
  IF i \in Existing THEN [table EXCEPT ![i].status = status] ELSE table

\* nextFireTime(cron, after)
nextFireTime(t) == (t \div Period + 1) * Period

\* Enabled rows with a fire time at or before now, oldest first, as a
\* snapshot; rows of one time come in either order.
DueRows ==
  {[id |-> i, at |-> table[i].next, expires |-> table[i].expires] :
     i \in {j \in Existing : table[j].enabled /\ table[j].next <= clock}}

DueOrders ==
  {s \in SetToSeqs(DueRows) :
     \A a, b \in DOMAIN s : a < b => s[a].at <= s[b].at}

\* getEarliestFireTime of a table
EarliestFireTime(t) ==
  LET times == {t[i].next : i \in {j \in DOMAIN t : t[j].enabled}}
  IN  IF times = {} THEN None
      ELSE CHOOSE m \in times : \A n \in times : m <= n

\* Mutant: the wake time is only set, never moved to an earlier one.
refreshAlarmKeeps ==
  wake' = IF wake = None THEN EarliestFireTime(table') ELSE wake

\* setWakeTime or cancelWakeTime for the table the operation leaves.
refreshAlarm == wake' = EarliestFireTime(table')

-----------------------------------------------------------------------------
\* Operations of capabilities, tools and clients.  They run while no alarm
\* is handled or while the handler awaits a hook or an execution; from one
\* await to the next the handler is not interrupted.
AtAwait == phase # "loop"

createSchedule(i, expires) ==
  /\ AtAwait /\ i \in Prompts \ Existing
  /\ table' = With(table, i, NewRow(nextFireTime(clock), expires))
  /\ refreshAlarm
  /\ UNCHANGED <<callbacks, handler, clock, ghosts>>

\* Capability-owned rows are refused; prompts and timers no capability has
\* declared can be changed by the client.
Manageable == Prompts \cup (Timers \ Declared)

\* { enabled }: the fire time is left as it is.
toggleSchedule(i) ==
  /\ AtAwait /\ i \in Manageable \cap Existing
  /\ table' = [table EXCEPT ![i].enabled = ~@]
  /\ refreshAlarm
  /\ UNCHANGED <<callbacks, handler, clock, ghosts>>

\* { cron } or { timezone }: the fire time is computed anew.
updateCron(i) ==
  /\ AtAwait /\ i \in Manageable \cap Existing
  /\ table' = [table EXCEPT ![i].next = nextFireTime(clock)]
  /\ refreshAlarm
  /\ UNCHANGED <<callbacks, handler, clock, ghosts>>

deleteSchedule(i) ==
  /\ AtAwait /\ i \in Manageable \cap Existing
  /\ table' = Without(table, i)
  /\ callbacks' = callbacks \ {i}
  /\ refreshAlarm
  /\ cancelled' = cancelled \cup ({i} \cap Timers)
  /\ UNCHANGED <<handler, clock, ran, kept>>

\* An existing row is replaced and its callback kept, unless none is known:
\* then the row is already deleted when the call throws.
setTimer(i, given) ==
  /\ AtAwait /\ i \in Timers
  /\ IF given \/ i \in callbacks
       THEN /\ table' = With(table, i, NewRow(clock + Delay, None))
            /\ callbacks' = callbacks \cup {i}
            /\ refreshAlarm
            /\ cancelled' = cancelled \ {i}
       ELSE /\ i \in Existing
            /\ table' = Without(table, i)
            /\ cancelled' = cancelled \cup {i}
            /\ UNCHANGED <<callbacks, wake>>
  /\ UNCHANGED <<handler, clock, ran, kept>>

cancelTimer(i) ==
  /\ AtAwait /\ i \in Timers
  /\ i \in Existing \/ i \in callbacks
  /\ table' = Without(table, i)
  /\ callbacks' = callbacks \ {i}
  /\ refreshAlarm
  /\ cancelled' = cancelled \cup {i}
  /\ UNCHANGED <<handler, clock, ran, kept>>

\* Run by ensureAgent: all declared callbacks are registered and the missing
\* cron rows are created.
syncCapabilitySchedules ==
  /\ AtAwait
  /\ Callbacks \cup Declared # {}
  /\ callbacks' = callbacks \cup Callbacks \cup Declared
  /\ table' = [i \in Existing \cup Callbacks |->
                 IF i \in Existing THEN table[i]
                                   ELSE NewRow(nextFireTime(clock), None)]
  /\ refreshAlarm
  /\ UNCHANGED <<handler, clock, ghosts>>

-----------------------------------------------------------------------------
\* handleAlarmFired

\* The host calls it once the wake time has come; the alarm is then unset.
alarm ==
  /\ phase = "idle"
  /\ wake # None /\ wake <= clock
  /\ wake' = None
  /\ due' \in DueOrders
  /\ firedAt' = clock
  /\ phase' = "loop"
  /\ UNCHANGED <<table, callbacks, clock, ghosts>>

Working(i) == phase = "loop" /\ due # <<>> /\ i = Current.id

Expired == Current.expires # None /\ Current.expires <= firedAt

Continue == phase' = "loop" /\ due' = Tail(due) /\ UNCHANGED firedAt

dropExpired(i) ==
  /\ Working(i) /\ Expired
  /\ table' = Without(table, i)
  /\ callbacks' = callbacks \ {i}
  /\ Continue
  /\ UNCHANGED <<wake, clock, ghosts>>

\* executeScheduledCallback up to the call: an empty map is filled from the
\* capabilities' declarations; without a callback the execution fails.
Registered == IF callbacks = {} THEN Callbacks \cup Declared ELSE callbacks

StartCallback(i) ==
  /\ callbacks' = Registered
  /\ IF i \in Registered
       THEN /\ table' = SetStatus(i, "running")
            /\ phase' = "executing" /\ UNCHANGED <<due, firedAt>>
       ELSE table' = SetStatus(i, "failed") /\ Continue

fireTimer(i) ==
  /\ Working(i) /\ ~Expired /\ i \in Timers
  /\ StartCallback(i)
  /\ UNCHANGED <<wake, clock, ghosts>>

\* Mutant: the fire time is advanced only after the execution.
fireCronLate(i) ==
  /\ Working(i) /\ ~Expired /\ i \in Crons
  /\ phase' = "hooks"
  /\ UNCHANGED <<table, due, firedAt, callbacks, wake, clock, ghosts>>

\* The fire time moves on before anything is awaited.
fireCron(i) ==
  /\ Working(i) /\ ~Expired /\ i \in Crons
  /\ table' = IF i \in Existing
                THEN [table EXCEPT ![i].next = nextFireTime(firedAt)]
                ELSE table
  /\ phase' = "hooks"
  /\ UNCHANGED <<due, firedAt, callbacks, wake, clock, ghosts>>

\* onScheduleFire and the bundle's onAlarm have answered: skip ...
hookSkips(i) ==
  /\ phase = "hooks" /\ i = Current.id
  /\ Continue
  /\ UNCHANGED <<table, callbacks, wake, clock, ghosts>>

\* ... or the static hook threw, which ends the handler before refreshAlarm;
\* the host then delivers the alarm again ...
hookThrows(i) ==
  /\ CanFail
  /\ phase = "hooks" /\ i = Current.id
  /\ phase' = "idle" /\ due' = <<>>
  /\ wake' = clock
  /\ UNCHANGED <<table, firedAt, callbacks, clock, ghosts>>

\* ... or the schedule is executed.  A prompt runs in a session of its own.
execute(i) ==
  /\ phase = "hooks" /\ i = Current.id
  /\ ran' = [ran EXCEPT ![i] = Append(@, Current.at)]
  /\ IF i \in Prompts
       THEN /\ table' = SetStatus(i, "running")
            /\ kept' = [kept EXCEPT ![i] = <<Current.at>> \o @]
            /\ phase' = "executing"
            /\ UNCHANGED <<due, firedAt, callbacks>>
       ELSE StartCallback(i) /\ UNCHANGED kept
  /\ UNCHANGED <<wake, clock, cancelled>>

\* cleanupScheduleSessions: list() is newest first, and the front of it is
\* what is deleted.
cleanupScheduleSessions(s) ==
  IF Len(s) > Retention THEN SubSeq(s, Len(s) - Retention + 1, Len(s)) ELSE s

executionSucceeds(i) ==
  /\ phase = "executing" /\ i = Current.id
  /\ IF i \in Timers
       THEN table' = Without(table, i) /\ callbacks' = callbacks \ {i}
       ELSE table' = SetStatus(i, "idle") /\ UNCHANGED callbacks
  /\ kept' = IF i \in Prompts
               THEN [kept EXCEPT ![i] = cleanupScheduleSessions(@)] ELSE kept
  /\ Continue
  /\ UNCHANGED <<wake, clock, ran, cancelled>>

\* Mutant: the failure is logged only.
executionFailsUnmarked(i) ==
  /\ CanFail
  /\ phase = "executing" /\ i = Current.id
  /\ Continue
  /\ UNCHANGED <<table, callbacks, wake, clock, ghosts>>

\* markFailed: a timer keeps its row, and with it its fire time in the past.
executionFails(i) ==
  /\ CanFail
  /\ phase = "executing" /\ i = Current.id
  /\ table' = SetStatus(i, "failed")
  /\ Continue
  /\ UNCHANGED <<callbacks, wake, clock, ghosts>>

\* Mutant: the handler returns without setting the next wake time.
finishAlarmUnset ==
  /\ phase = "loop" /\ due = <<>>
  /\ phase' = "idle"
  /\ UNCHANGED <<table, due, firedAt, callbacks, wake, clock, ghosts>>

finishAlarm ==
  /\ phase = "loop" /\ due = <<>>
  /\ phase' = "idle"
  /\ UNCHANGED <<table, due, firedAt, callbacks, clock, ghosts>>
  /\ refreshAlarm

\* An alarm whose handler did not finish is delivered again.
evict ==
  /\ CanEvict /\ AtAwait
  /\ callbacks # {} \/ phase # "idle"
  /\ wake' = IF phase = "idle" THEN wake ELSE clock
  /\ phase' = "idle" /\ due' = <<>>
  /\ callbacks' = {}
  /\ UNCHANGED <<table, firedAt, clock, ghosts>>

Tick ==
  /\ AtAwait /\ clock < MaxClock
  /\ clock' = clock + 1
  /\ UNCHANGED <<table, callbacks, wake, handler, ghosts>>

-----------------------------------------------------------------------------
Init ==
  /\ table = [i \in {} |-> NewRow(0, None)]
  /\ callbacks = {}
  /\ wake = None
  /\ phase = "idle" /\ due = <<>> /\ firedAt = 0
  /\ clock = 0
  /\ ran = [i \in Crons |-> <<>>]
  /\ kept = [i \in Prompts |-> <<>>]
  /\ cancelled = {}

AlarmStep ==
  \/ alarm \/ finishAlarm
  \/ \E i \in Ids :
       \/ dropExpired(i) \/ fireTimer(i) \/ fireCron(i)
       \/ hookSkips(i) \/ hookThrows(i) \/ execute(i)
       \/ executionSucceeds(i) \/ executionFails(i)

Next ==
  \/ AlarmStep
  \/ \E i \in Ids :
       \/ \E e \in {None, clock + Lifetime} : createSchedule(i, e)
       \/ toggleSchedule(i) \/ updateCron(i) \/ deleteSchedule(i)
       \/ \E given \in BOOLEAN : setTimer(i, given)
       \/ cancelTimer(i)
  \/ syncCapabilitySchedules
  \/ evict
  \/ Tick

Spec == Init /\ [][Next]_vars

\* The host delivers a due alarm and resumes the handler's awaits.
FairSpec == Spec /\ WF_vars(AlarmStep)

-----------------------------------------------------------------------------
TypeOK ==
  /\ Existing \subseteq Ids
  /\ \A i \in Existing : table[i] \in ScheduleRow
  /\ callbacks \subseteq Timers \cup Callbacks
  /\ wake \in Times \cup {None}
  /\ phase \in {"idle", "loop", "hooks", "executing"}
  /\ \A k \in DOMAIN due : due[k].id \in Ids
  /\ phase \in {"hooks", "executing"} => due # <<>>
  /\ firedAt <= clock
  /\ clock \in 0 .. MaxClock

\* While no alarm is being handled, no enabled schedule can be slept through:
\* the host has a wake time no later than its fire time, or one that has
\* already come.  Every operation must leave this so, also a hook that throws
\* and an eviction in the middle of the handler.
AlarmCovers ==
  phase = "idle" =>
    \A i \in Existing : table[i].enabled =>
      wake # None /\ (wake <= table[i].next \/ wake <= clock)

\* An occurrence of a cron schedule is executed at most once, although the
\* alarm is delivered again after an eviction and the table changes between
\* the handler's awaits: the fire time is advanced before the first of them.
OccurrenceAtMostOnce ==
  \A i \in Crons : \A a, b \in DOMAIN ran[i] : a < b => ran[i][a] < ran[i][b]

\* The status column tells the truth while the process lives: a schedule
\* shown as running is the one the handler is executing.
RunningIsExecuting ==
  \A i \in Existing :
    table[i].status = "running" => phase = "executing" /\ i = Current.id

\* A cron schedule that is due is dealt with: its fire time moves on, or it is
\* disabled or deleted.  In particular a timer that fails over and over does
\* not keep the others from their turn.
DueIsHandled ==
  \A i \in Crons, n \in 0 .. MaxClock :
    (Active(i) /\ table[i].next = n /\ n <= clock)
      ~> ~(Active(i) /\ table[i].next = n)

\* A timer whose delay has not passed goes only by cancelTimer, by
\* deleteSchedule or by being set again: "Create a one-shot timer that fires
\* after `delaySeconds` and self-deletes." (agent-runtime.ts)
PendingTimerKept ==
  [][\A i \in Timers :
       Active(i) /\ table[i].next > clock /\ i \notin DOMAIN table'
         => i \in cancelled']_vars

\* After the clean-up the session of the latest run is among those kept:
\* "Delete oldest scheduled sessions for a schedule, keeping up to retention
\* count." (agent-runtime.ts)
LatestRunKept ==
  \A i \in Prompts :
    kept[i] # <<>> /\ phase = "idle" => kept[i][1] = Last(ran[i])
=============================================================================
