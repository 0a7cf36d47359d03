--------------------------- MODULE OutsideProofs ---------------------------
(***************************************************************************)
(* What an agent leaves outside of its turns: its alarms and schedules     *)
(* (Scheduler), the next times of these (Cron), the apps it has deployed   *)
(* (AppRegistry), the remote browsers of its sessions (Browser) and the    *)
(* file of a skill (Skills), each under any constants.                     *)
(***************************************************************************)
EXTENDS Scheduler, Outside, FiniteSetTheorems, SequenceTheorems, TLAPS

-----------------------------------------------------------------------------
(***************************************************************************)
(* The scheduler for any finite sets of timers and schedules, any period,  *)
(* delay and life time, with failures and evictions.                       *)
(*                                                                         *)
(* AlarmCovers says nothing while the handler runs; whichever way it ends, *)
(* the wake time is computed from the whole table or is the current time.  *)
(* The strengthening is therefore only what keeps the minimum of           *)
(* getEarliestFireTime defined: fire times are natural numbers.            *)
(* RunningIsExecuting is inductive while nothing is evicted.               *)
(* OccurrenceAtMostOnce needs a relation between the occurrences executed, *)
(* the table and the handler's snapshot; it is stated where it is used.    *)
(***************************************************************************)

Row == [enabled : BOOLEAN, next : Nat, expires : Nat \cup {None},
        status : {"idle", "running", "failed"}]

RowsOf(t) == \A i \in DOMAIN t : t[i] \in Row

Rows ==
  /\ RowsOf(table)
  /\ clock \in Nat
  /\ firedAt \in Nat
  /\ wake \in Nat \cup {None}

AlarmInv == Rows /\ AlarmCovers

-----------------------------------------------------------------------------
\* A set of times that is not empty has a first one.
LEMMA FirstTime ==
  ASSUME NEW T, T \subseteq Nat, T # {}
  PROVE  \E m \in T : \A n \in T : m <= n
<1> DEFINE R == {xy \in Nat \X Nat : xy[1] < xy[2]}
<1>1. PICK x \in T : \A y \in T : ~ (<<y, x>> \in R)
  <2>1. IsWellFoundedOn(R, Nat)
    BY NatLessThanWellFounded DEF OpToRel
  <2> HIDE DEF R
  <2>2. QED
    BY <2>1, WFMin
<1>2. ASSUME NEW y \in T PROVE x <= y
  <2>1. x \in Nat /\ y \in Nat
    OBVIOUS
  <2>2. y < x => <<y, x>> \in R
    BY <2>1
  <2>3. ~ (y < x)
    BY <1>1, <2>2
  <2>4. QED
    BY <2>1, <2>3
<1>3. QED
  BY <1>2

\* The wake time that refreshAlarm sets covers every enabled row of the table
\* it is computed from.
LEMMA EarliestCovers ==
  ASSUME NEW t, RowsOf(t), NEW i \in DOMAIN t, t[i].enabled
  PROVE  EarliestFireTime(t) # None /\ EarliestFireTime(t) <= t[i].next
<1> DEFINE times == {t[k].next : k \in {j \in DOMAIN t : t[j].enabled}}
<1>1. t[i].next \in times /\ times \subseteq Nat
  BY DEF RowsOf, Row
<1>2. \E m \in times : \A n \in times : m <= n
  BY <1>1, FirstTime
<1>3. EarliestFireTime(t) = CHOOSE m \in times : \A n \in times : m <= n
  BY <1>1 DEF EarliestFireTime
<1> HIDE DEF times
<1>4. EarliestFireTime(t) \in times
      /\ \A n \in times : EarliestFireTime(t) <= n
  BY <1>2, <1>3
<1>5. QED
  BY <1>1, <1>4, SchedulerAssumption

\* The earliest fire time is a time, or none if no row has one.
LEMMA EarliestType ==
  ASSUME NEW t, RowsOf(t)
  PROVE  EarliestFireTime(t) \in Nat \cup {None}
<1> DEFINE times == {t[k].next : k \in {j \in DOMAIN t : t[j].enabled}}
<1>1. times \subseteq Nat
  BY DEF RowsOf, Row
<1>2. CASE times = {}
  BY <1>2 DEF EarliestFireTime
<1>3. CASE times # {}
  <2>1. \E m \in times : \A n \in times : m <= n
    BY <1>1, <1>3, FirstTime
  <2>2. EarliestFireTime(t) = CHOOSE m \in times : \A n \in times : m <= n
    BY <1>3 DEF EarliestFireTime
  <2> HIDE DEF times
  <2>3. QED
    BY <1>1, <2>1, <2>2
<1>4. QED
  BY <1>2, <1>3

\* An operation that ends with refreshAlarm leaves every schedule covered.
LEMMA Refreshed ==
  ASSUME RowsOf(table'), refreshAlarm
  PROVE  AlarmCovers' /\ wake' \in Nat \cup {None}
BY EarliestCovers, EarliestType DEF AlarmCovers, refreshAlarm, Existing

\* Fire times are natural numbers, and so is what nextFireTime returns.
LEMMA NextFireTimeNat ==
  ASSUME NEW t \in Nat
  PROVE  nextFireTime(t) \in Nat
<1>1. Period \in Nat \ {0}
  BY SchedulerAssumption
<1>2. t \div Period \in Nat
  BY <1>1
<1>3. QED
  BY <1>1, <1>2 DEF nextFireTime

\* What the store's statements make of a table of rows.
LEMMA StoreRows ==
  ASSUME RowsOf(table), NEW i
  PROVE  /\ RowsOf(Without(table, i))
         /\ \A s \in {"idle", "running", "failed"} : RowsOf(SetStatus(i, s))
         /\ \A r \in Row : RowsOf(With(table, i, r))
<1>1. RowsOf(Without(table, i))
  BY DEF RowsOf, Without
<1>2. ASSUME NEW s \in {"idle", "running", "failed"}
      PROVE  RowsOf(SetStatus(i, s))
  BY <1>2 DEF RowsOf, SetStatus, Existing, Row
<1>3. ASSUME NEW r \in Row PROVE RowsOf(With(table, i, r))
  BY <1>3 DEF RowsOf, With
<1>4. QED
  BY <1>1, <1>2, <1>3

\* What createSchedule inserts is a row.
LEMMA NewRowIsRow ==
  ASSUME NEW n \in Nat, NEW e \in Nat \cup {None}
  PROVE  NewRow(n, e) \in Row
BY DEF NewRow, Row

\* Steps inside the handler: nothing to show of the wake time.
LEMMA InHandler ==
  ASSUME RowsOf(table'), clock' \in Nat, firedAt' \in Nat,
         wake' \in Nat \cup {None}, phase' # "idle"
  PROVE  AlarmInv'
BY DEF AlarmInv, Rows, AlarmCovers

-----------------------------------------------------------------------------
\* AlarmInv holds of an empty table,
LEMMA InitAlarmInv == Init => AlarmInv
BY DEF Init, AlarmInv, Rows, RowsOf, AlarmCovers, Existing

\* StartCallback leaves a table of rows and the handler running.
LEMMA StartCallbackStep ==
  ASSUME Rows, NEW i, StartCallback(i)
  PROVE  RowsOf(table') /\ phase' # "idle" /\ firedAt' = firedAt
BY StoreRows DEF Rows, StartCallback, Continue

\* and each operation and each step of the alarm handler preserves it.
LEMMA NextAlarmInv ==
  ASSUME AlarmInv, [Next]_vars
  PROVE  AlarmInv'
<1> USE DEF AlarmInv, Rows, handler
<1>0. Delay \in Nat /\ Lifetime \in Nat /\ None \notin Nat
  BY SchedulerAssumption
<1>1. ASSUME NEW i \in Ids, NEW e \in {None, clock + Lifetime},
             createSchedule(i, e)
      PROVE  AlarmInv'
  <2>1. NewRow(nextFireTime(clock), e) \in Row
    <3>1. e \in Nat \cup {None} /\ nextFireTime(clock) \in Nat
      BY <1>0, <1>1, NextFireTimeNat
    <3>2. QED
      BY <3>1, NewRowIsRow
  <2>2. RowsOf(table')
    BY <1>1, <2>1, StoreRows DEF createSchedule
  <2>3. QED
    BY <1>1, <2>2, Refreshed DEF createSchedule
<1>2. ASSUME NEW i \in Ids, toggleSchedule(i) PROVE AlarmInv'
  <2>1. RowsOf(table')
    BY <1>2 DEF toggleSchedule, RowsOf, Row
  <2>2. QED
    BY <1>2, <2>1, Refreshed DEF toggleSchedule
<1>3. ASSUME NEW i \in Ids, updateCron(i) PROVE AlarmInv'
  <2>1. RowsOf(table')
    BY <1>3, NextFireTimeNat DEF updateCron, RowsOf, Row
  <2>2. QED
    BY <1>3, <2>1, Refreshed DEF updateCron
<1>4. ASSUME NEW i \in Ids, deleteSchedule(i) PROVE AlarmInv'
  BY <1>4, StoreRows, Refreshed DEF deleteSchedule
<1>5. ASSUME NEW i \in Ids, NEW given \in BOOLEAN, setTimer(i, given)
      PROVE  AlarmInv'
  <2>1. CASE given \/ i \in callbacks
    <3>1. NewRow(clock + Delay, None) \in Row
      <4>1. clock + Delay \in Nat
        BY <1>0
      <4>2. QED
        BY <4>1, NewRowIsRow
    <3>2. RowsOf(table')
      BY <1>5, <2>1, <3>1, StoreRows DEF setTimer
    <3>3. QED
      BY <1>5, <2>1, <3>2, Refreshed DEF setTimer
  <2>2. CASE ~(given \/ i \in callbacks)
    <3>1. table' = Without(table, i) /\ UNCHANGED <<wake, phase, clock, firedAt>>
      BY <1>5, <2>2 DEF setTimer
    <3>2. RowsOf(table')
      BY <3>1, StoreRows
    <3>3. \A j \in DOMAIN table' : j \in DOMAIN table /\ table'[j] = table[j]
      BY <3>1 DEF Without
    <3>4. QED
      BY <3>1, <3>2, <3>3 DEF AlarmCovers, Existing
  <2>3. QED
    BY <2>1, <2>2
<1>6. ASSUME NEW i \in Ids, cancelTimer(i) PROVE AlarmInv'
  BY <1>6, StoreRows, Refreshed DEF cancelTimer
<1>7. CASE syncCapabilitySchedules
  <2>1. NewRow(nextFireTime(clock), None) \in Row
    BY NextFireTimeNat, NewRowIsRow
  <2>2. RowsOf(table')
    BY <1>7, <2>1 DEF syncCapabilitySchedules, RowsOf, Existing
  <2>3. QED
    BY <1>7, <2>2, Refreshed DEF syncCapabilitySchedules
<1>8. CASE alarm
  BY <1>8, InHandler DEF alarm
<1>9. CASE finishAlarm
  BY <1>9, Refreshed DEF finishAlarm
<1>10. ASSUME NEW i \in Ids, dropExpired(i) PROVE AlarmInv'
  BY <1>10, StoreRows, InHandler DEF dropExpired, Continue
<1>11. ASSUME NEW i \in Ids, fireTimer(i) PROVE AlarmInv'
  BY <1>11, StartCallbackStep, InHandler DEF fireTimer
<1>12. ASSUME NEW i \in Ids, fireCron(i) PROVE AlarmInv'
  <2>1. RowsOf(table')
    BY <1>12, NextFireTimeNat DEF fireCron, RowsOf, Row, Existing
  <2>2. QED
    BY <1>12, <2>1, InHandler DEF fireCron
<1>13. ASSUME NEW i \in Ids, hookSkips(i) PROVE AlarmInv'
  BY <1>13, InHandler DEF hookSkips, Continue
<1>14. ASSUME NEW i \in Ids, hookThrows(i) PROVE AlarmInv'
  BY <1>0, <1>14 DEF hookThrows, AlarmCovers, Existing
<1>15. ASSUME NEW i \in Ids, execute(i) PROVE AlarmInv'
  <2>1. CASE i \in Prompts
    BY <1>15, <2>1, StoreRows, InHandler DEF execute
  <2>2. CASE i \notin Prompts
    BY <1>15, <2>2, StartCallbackStep, InHandler DEF execute
  <2>3. QED
    BY <2>1, <2>2
<1>16. ASSUME NEW i \in Ids, executionSucceeds(i) PROVE AlarmInv'
  BY <1>16, StoreRows, InHandler DEF executionSucceeds, Continue
<1>17. ASSUME NEW i \in Ids, executionFails(i) PROVE AlarmInv'
  BY <1>17, StoreRows, InHandler DEF executionFails, Continue
<1>18. CASE evict
  BY <1>0, <1>18 DEF evict, AlarmCovers, Existing
<1>19. CASE Tick
  BY <1>19 DEF Tick, AlarmCovers, Existing, RowsOf, Row
<1>20. CASE UNCHANGED vars
  BY <1>20 DEF vars, AlarmCovers, Existing
<1>21. QED
  BY <1>1, <1>2, <1>3, <1>4, <1>5, <1>6, <1>7, <1>8, <1>9, <1>10, <1>11,
     <1>12, <1>13, <1>14, <1>15, <1>16, <1>17, <1>18, <1>19, <1>20
  DEF Next, AlarmStep

-----------------------------------------------------------------------------
\* No enabled schedule is ever slept through, for any number of schedules and
\* timers and any times: every operation ends with refreshAlarm, and the exits
\* of handleAlarmFired that skip it are delivered again by the host.
THEOREM NothingSleptThrough == Spec => []AlarmCovers
<1>1. Init => AlarmInv
  BY InitAlarmInv
<1>2. AlarmInv /\ [Next]_vars => AlarmInv'
  BY NextAlarmInv
<1>3. AlarmInv => AlarmCovers
  BY DEF AlarmInv
<1>4. QED
  BY <1>1, <1>2, <1>3, PTL DEF Spec

-----------------------------------------------------------------------------
(***************************************************************************)
(* RunningIsExecuting, while the process lives: the status is set when the *)
(* execution starts and cleared in the same step that ends it, and no two  *)
(* executions overlap.                                                     *)
(***************************************************************************)
\* A table in which no row came to be running.
NoNewRunning ==
  \A i \in DOMAIN table' : table'[i].status = "running" =>
    i \in DOMAIN table /\ table[i].status = "running"

\* A step that leaves the snapshot alone and sets no row to running.
LEMMA StillExecuting ==
  ASSUME RunningIsExecuting, NoNewRunning, UNCHANGED <<phase, due>>
  PROVE  RunningIsExecuting'
BY DEF RunningIsExecuting, NoNewRunning, Existing, Current

\* The same where nothing executes, so that no row is running.
LEMMA NoneExecuting ==
  ASSUME RunningIsExecuting, NoNewRunning, phase # "executing"
  PROVE  RunningIsExecuting'
BY DEF RunningIsExecuting, NoNewRunning, Existing

\* The start of an execution.
LEMMA ExecutionStarts ==
  ASSUME RunningIsExecuting, phase # "executing", NEW i, i = Current.id,
         table' = SetStatus(i, "running"), phase' = "executing", due' = due
  PROVE  RunningIsExecuting'
BY DEF RunningIsExecuting, SetStatus, Existing, Current

\* Setting a row to idle or failed leaves only other rows running.
LEMMA FailedIsNotRunning ==
  ASSUME Rows, NEW i, NEW s \in {"idle", "failed"},
         NEW j \in DOMAIN SetStatus(i, s), SetStatus(i, s)[j].status = "running"
  PROVE  j # i /\ j \in DOMAIN table /\ SetStatus(i, s)[j] = table[j]
<1>1. CASE i \in DOMAIN table
  BY <1>1 DEF SetStatus, Existing, Rows, RowsOf, Row
<1>2. CASE i \notin DOMAIN table
  BY <1>2 DEF SetStatus, Existing
<1>3. QED
  BY <1>1, <1>2

\* Starting a callback sets running only on the row it executes, or fails.
LEMMA StartCallbackRunning ==
  ASSUME Rows, RunningIsExecuting, phase # "executing", NEW i, i = Current.id,
         StartCallback(i)
  PROVE  RunningIsExecuting'
<1>1. CASE i \in Registered
  BY <1>1, ExecutionStarts DEF StartCallback
<1>2. CASE i \notin Registered
  <2>1. NoNewRunning
    BY <1>2, FailedIsNotRunning DEF StartCallback, NoNewRunning
  <2>2. QED
    BY <2>1, NoneExecuting
<1>3. QED
  BY <1>1, <1>2

\* The end of an execution.
LEMMA ExecutionEnds ==
  ASSUME Rows, RunningIsExecuting, NEW i, i = Current.id,
         table' \in {SetStatus(i, "idle"), SetStatus(i, "failed"), Without(table, i)}
  PROVE  RunningIsExecuting'
<1>1. \A j \in DOMAIN table' :
        table'[j].status = "running" => j # i /\ j \in DOMAIN table /\ table'[j] = table[j]
  <2>1. CASE table' = Without(table, i)
    BY <2>1 DEF Without
  <2>2. CASE table' \in {SetStatus(i, "idle"), SetStatus(i, "failed")}
    BY <2>2, FailedIsNotRunning
  <2>3. QED
    BY <2>1, <2>2
<1>2. QED
  BY <1>1 DEF RunningIsExecuting, Existing

\* While the process lives, each step keeps running true.
LEMMA NextRunning ==
  ASSUME ~CanEvict, Rows, RunningIsExecuting, [Next]_vars
  PROVE  RunningIsExecuting'
<1> USE DEF handler
<1>1. ASSUME NEW i \in Ids, NEW e, createSchedule(i, e) PROVE RunningIsExecuting'
  BY <1>1, StillExecuting DEF createSchedule, NoNewRunning, With, NewRow
<1>2. ASSUME NEW i \in Ids, toggleSchedule(i) PROVE RunningIsExecuting'
  BY <1>2, StillExecuting DEF toggleSchedule, NoNewRunning, Existing
<1>3. ASSUME NEW i \in Ids, updateCron(i) PROVE RunningIsExecuting'
  BY <1>3, StillExecuting DEF updateCron, NoNewRunning, Existing
<1>4. ASSUME NEW i \in Ids, deleteSchedule(i) PROVE RunningIsExecuting'
  BY <1>4, StillExecuting DEF deleteSchedule, NoNewRunning, Without
<1>5. ASSUME NEW i \in Ids, NEW given \in BOOLEAN, setTimer(i, given)
      PROVE  RunningIsExecuting'
  BY <1>5, StillExecuting DEF setTimer, NoNewRunning, With, Without, NewRow
<1>6. ASSUME NEW i \in Ids, cancelTimer(i) PROVE RunningIsExecuting'
  BY <1>6, StillExecuting DEF cancelTimer, NoNewRunning, Without
<1>7. CASE syncCapabilitySchedules
  BY <1>7, StillExecuting DEF syncCapabilitySchedules, NoNewRunning, NewRow, Existing
<1>8. CASE alarm
  BY <1>8, NoneExecuting DEF alarm, NoNewRunning
<1>9. CASE finishAlarm
  BY <1>9, NoneExecuting DEF finishAlarm, NoNewRunning
<1>10. ASSUME NEW i \in Ids, dropExpired(i) PROVE RunningIsExecuting'
  BY <1>10, NoneExecuting DEF dropExpired, Working, NoNewRunning, Without
<1>11. ASSUME NEW i \in Ids, fireTimer(i) PROVE RunningIsExecuting'
  BY <1>11, StartCallbackRunning DEF fireTimer, Working
<1>12. ASSUME NEW i \in Ids, fireCron(i) PROVE RunningIsExecuting'
  BY <1>12, NoneExecuting DEF fireCron, Working, NoNewRunning, Existing
<1>13. ASSUME NEW i \in Ids, hookSkips(i) PROVE RunningIsExecuting'
  BY <1>13, NoneExecuting DEF hookSkips, NoNewRunning
<1>14. ASSUME NEW i \in Ids, hookThrows(i) PROVE RunningIsExecuting'
  BY <1>14, NoneExecuting DEF hookThrows, NoNewRunning
<1>15. ASSUME NEW i \in Ids, execute(i) PROVE RunningIsExecuting'
  <2>1. CASE i \in Prompts
    BY <1>15, <2>1, ExecutionStarts DEF execute
  <2>2. CASE i \notin Prompts
    BY <1>15, <2>2, StartCallbackRunning DEF execute
  <2>3. QED
    BY <2>1, <2>2
<1>16. ASSUME NEW i \in Ids, executionSucceeds(i) PROVE RunningIsExecuting'
  BY <1>16, ExecutionEnds DEF executionSucceeds
<1>17. ASSUME NEW i \in Ids, executionFails(i) PROVE RunningIsExecuting'
  BY <1>17, ExecutionEnds DEF executionFails
<1>18. CASE Tick
  BY <1>18, StillExecuting DEF Tick, NoNewRunning
<1>19. CASE UNCHANGED vars
  BY <1>19, StillExecuting DEF vars, NoNewRunning
<1>20. ~evict
  BY DEF evict
<1>21. QED
  BY <1>1, <1>2, <1>3, <1>4, <1>5, <1>6, <1>7, <1>8, <1>9, <1>10, <1>11,
     <1>12, <1>13, <1>14, <1>15, <1>16, <1>17, <1>18, <1>19, <1>20
  DEF Next, AlarmStep

\* While the Durable Object is not evicted, a row shown as running is the one
\* handleAlarmFired is executing, however executions fail and whatever tools and
\* clients do to the table while it awaits.
THEOREM RunningIsTrue == ASSUME ~CanEvict PROVE Spec => []RunningIsExecuting
<1>1. Init => RunningIsExecuting /\ AlarmInv
  BY InitAlarmInv DEF Init, RunningIsExecuting, Existing
<1>2. RunningIsExecuting /\ AlarmInv /\ [Next]_vars => (RunningIsExecuting /\ AlarmInv)'
  BY NextRunning, NextAlarmInv DEF AlarmInv
<1>3. QED
  BY <1>1, <1>2, PTL DEF Spec

-----------------------------------------------------------------------------
(***************************************************************************)
(* OccurrenceAtMostOnce, with failures and evictions.  All occurrences     *)
(* executed of a schedule lie before its fire time; those of the snapshot  *)
(* that still wait lie after what was executed, since no two rows of it    *)
(* have one id.  While the hooks are awaited the row of the snapshot and   *)
(* the row of the table disagree: the latter has already moved on, which   *)
(* is what an eviction at that point, or another alarm, will see.          *)
(***************************************************************************)
DueRow == [id : Ids, at : Nat, expires : Nat \cup {None}]

\* All occurrences executed of schedule i are before time t.
RanBefore(r, i, t) == \A a \in DOMAIN r[i] : r[i][a] < t

\* The rows of the snapshot d from the n-th on wait to be executed.
Waiting(d, r, n) ==
  /\ d \in Seq(DueRow)
  /\ \A k, l \in DOMAIN d : k # l => d[k].id # d[l].id
  /\ \A k \in DOMAIN d : k >= n /\ d[k].id \in Crons => RanBefore(r, d[k].id, d[k].at)

OnceTypes ==
  /\ DOMAIN table \subseteq Ids /\ IsFiniteSet(DOMAIN table)
  /\ ran \in [Crons -> Seq(Nat)]
  /\ firedAt <= clock
  /\ phase \in {"idle", "loop", "hooks", "executing"}
  /\ phase \in {"hooks", "executing"} => due # <<>>

OnceTable ==
  \A i \in Crons :
    /\ RanBefore(ran, i, clock + 1)
    /\ i \in DOMAIN table => RanBefore(ran, i, table[i].next)

OnceDue ==
  /\ Waiting(due, ran, IF phase = "executing" THEN 2 ELSE 1)
  /\ \A k \in DOMAIN due : due[k].at <= firedAt
  /\ phase = "hooks" =>
       Current.id \in Crons /\
       (Current.id \in DOMAIN table => table[Current.id].next > firedAt)

OnceInv ==
  AlarmInv /\ OnceTypes /\ OnceTable /\ OnceDue /\ OccurrenceAtMostOnce

\* A schedule's next fire time is later than the time it is computed from.
LEMMA NextFireTimeLater ==
  ASSUME NEW t \in Nat
  PROVE  nextFireTime(t) \in Nat /\ nextFireTime(t) > t
<1>1. Period \in Nat /\ Period > 0
  BY SchedulerAssumption
<1>2. (t \div Period + 1) * Period > t
  BY <1>1, Z3
<1>3. QED
  BY <1>2, NextFireTimeNat DEF nextFireTime

\* What ran before a time ran before any later one.
LEMMA RanBeforeLater ==
  ASSUME NEW r \in [Crons -> Seq(Nat)], NEW i \in Crons,
         NEW t \in Nat, NEW u \in Nat, t <= u, RanBefore(r, i, t)
  PROVE  RanBefore(r, i, u)
<1>1. \A a \in DOMAIN r[i] : r[i][a] \in Nat
  OBVIOUS
<1>2. QED
  BY <1>1 DEF RanBefore

\* The rest of the snapshot waits, and with it the head if that has not been
\* executed.
LEMMA WaitingTail ==
  ASSUME NEW d, NEW r, NEW n \in {1, 2}, Waiting(d, r, n), d # <<>>
  PROVE  /\ Waiting(Tail(d), r, 1) /\ Waiting(d, r, 2)
         /\ \A k \in DOMAIN Tail(d) : \E l \in DOMAIN d : Tail(d)[k] = d[l]
<1>1. /\ Tail(d) \in Seq(DueRow)
      /\ \A k \in DOMAIN Tail(d) : /\ k \in Nat /\ k + 1 \in DOMAIN d
                                   /\ Tail(d)[k] = d[k + 1] /\ k + 1 >= 2 /\ k + 1 >= n
  BY DEF Waiting
<1>2. \A k \in DOMAIN d : k \in Nat /\ (k >= 2 => k >= n)
  BY DEF Waiting
<1>3. Waiting(Tail(d), r, 1)
  <2>1. \A k, l \in DOMAIN Tail(d) : k # l => k + 1 # l + 1
    BY <1>1
  <2>2. QED
    BY <1>1, <2>1 DEF Waiting
<1>4. QED
  BY <1>1, <1>2, <1>3 DEF Waiting

\* Executing the head leaves the rest waiting.
LEMMA WaitingExecute ==
  ASSUME NEW d, NEW r \in [Crons -> Seq(Nat)], Waiting(d, r, 1), d # <<>>,
         Head(d).id \in Crons
  PROVE  Waiting(d, [r EXCEPT ![Head(d).id] = Append(@, Head(d).at)], 2)
<1>1. 1 \in DOMAIN d /\ Head(d) = d[1] /\ \A k \in DOMAIN d : k \in Nat /\ (k >= 2 => k # 1 /\ k >= 1)
  BY DEF Waiting
<1>2. QED
  BY <1>1 DEF Waiting, RanBefore

\* The same for the occurrences: the new one is the latest.
AlsoRan(r, i, t) == [r EXCEPT ![i] = Append(@, t)]

Increasing(q) == \A a, b \in DOMAIN q : a < b => q[a] < q[b]

\* An occurrence later than all that ran keeps the record increasing.
LEMMA AppendIncreasing ==
  ASSUME NEW q \in Seq(Nat), NEW t \in Nat, Increasing(q),
         \A a \in DOMAIN q : q[a] < t
  PROVE  /\ Increasing(Append(q, t))
         /\ \A a \in DOMAIN Append(q, t) : Append(q, t)[a] < t + 1
<1>1. /\ DOMAIN Append(q, t) = DOMAIN q \cup {Len(q) + 1}
      /\ \A a \in DOMAIN q : Append(q, t)[a] = q[a] /\ q[a] \in Nat /\ a < Len(q) + 1
      /\ Append(q, t)[Len(q) + 1] = t
      /\ \A a \in DOMAIN q : ~ (Len(q) + 1 < a)
  OBVIOUS
<1>2. ASSUME NEW a \in DOMAIN Append(q, t), NEW b \in DOMAIN Append(q, t), a < b
      PROVE  Append(q, t)[a] < Append(q, t)[b]
  <2>1. a \in DOMAIN q
    BY <1>1, <1>2
  <2>2. CASE b \in DOMAIN q
    BY <1>1, <1>2, <2>1, <2>2 DEF Increasing
  <2>3. CASE b = Len(q) + 1
    BY <1>1, <2>1, <2>3
  <2>4. QED
    BY <1>1, <2>2, <2>3
<1>3. QED
  BY <1>1, <1>2 DEF Increasing

\* Executing an occurrence that is later than all executed before.
LEMMA RanExecute ==
  ASSUME NEW r \in [Crons -> Seq(Nat)], NEW i \in Crons, NEW t \in Nat,
         RanBefore(r, i, t), Increasing(r[i])
  PROVE  /\ AlsoRan(r, i, t) \in [Crons -> Seq(Nat)]
         /\ RanBefore(AlsoRan(r, i, t), i, t + 1)
         /\ Increasing(AlsoRan(r, i, t)[i])
         /\ \A j \in Crons \ {i} : AlsoRan(r, i, t)[j] = r[j]
<1>1. /\ AlsoRan(r, i, t) \in [Crons -> Seq(Nat)] /\ AlsoRan(r, i, t)[i] = Append(r[i], t)
      /\ \A j \in Crons \ {i} : AlsoRan(r, i, t)[j] = r[j]
  BY DEF AlsoRan
<1>2. /\ Increasing(Append(r[i], t))
      /\ \A a \in DOMAIN Append(r[i], t) : Append(r[i], t)[a] < t + 1
  BY AppendIncreasing DEF RanBefore
<1>3. QED
  BY <1>1, <1>2 DEF RanBefore

\* The snapshot that alarm takes: each due row once, none executed before.
LEMMA DueOrdersWait ==
  ASSUME AlarmInv, OnceTypes, OnceTable, NEW d \in DueOrders
  PROVE  Waiting(d, ran, 1) /\ \A k \in DOMAIN d : d[k].at <= clock
<1> DEFINE J == {j \in DOMAIN table : table[j].enabled /\ table[j].next <= clock}
           asDue(i) == [id |-> i, at |-> table[i].next, expires |-> table[i].expires]
<1>1. DueRows = {asDue(i) : i \in J}
  BY DEF DueRows, Existing
<1>2. \A i \in J : asDue(i) \in DueRow /\ asDue(i).id = i /\ asDue(i).at = table[i].next
                   /\ table[i].next <= clock
  BY DEF DueRow, AlarmInv, Rows, RowsOf, Row, OnceTypes
<1>3. IsFiniteSet(DueRows)
  <2>1. IsFiniteSet(J)
    BY FS_Subset DEF OnceTypes
  <2> DEFINE f == [i \in J |-> asDue(i)]
  <2>2. f \in Surjection(J, DueRows)
    BY <1>1 DEF Surjection
  <2> HIDE DEF f, J
  <2>3. QED
    BY <2>1, <2>2, FS_Surjection
<1>4. Cardinality(DueRows) \in Nat
  BY <1>3, FS_CardinalityType
<1>5. /\ d \in [1 .. Cardinality(DueRows) -> DueRows]
      /\ \A k, l \in DOMAIN d : k # l => d[k] # d[l]
  BY DEF DueOrders, SetToSeqs
<1>6. \A k \in DOMAIN d : \E i \in J : d[k] = asDue(i)
  BY <1>1, <1>5
<1>7. \A k \in DOMAIN d : /\ d[k] \in DueRow /\ d[k].id \in J
                          /\ d[k] = asDue(d[k].id)
                          /\ d[k].at = table[d[k].id].next /\ d[k].at <= clock
  BY <1>2, <1>6
<1> HIDE DEF J, asDue
<1>8. d \in Seq(DueRow)
  BY <1>4, <1>5, <1>7
<1>9. \A k, l \in DOMAIN d : k # l => d[k].id # d[l].id
  BY <1>5, <1>7
<1>10. \A k \in DOMAIN d : d[k].id \in Crons => RanBefore(ran, d[k].id, d[k].at)
  BY <1>7 DEF OnceTable, J
<1>11. QED
  BY <1>7, <1>8, <1>9, <1>10 DEF Waiting

\* The invariant without what NextAlarmInv shows.
OnceParts == OnceTypes /\ OnceTable /\ OnceDue /\ OccurrenceAtMostOnce

\* An operation on the table from outside of the handler, at an await: a fire
\* time that is new lies in the future.
LEMMA TableStep ==
  ASSUME OnceInv, RowsOf(table'),
         DOMAIN table' \subseteq Ids,
         \A i \in Crons \cap DOMAIN table' :
           \/ i \in DOMAIN table /\ table'[i].next = table[i].next
           \/ table'[i].next > clock,
         UNCHANGED <<phase, due, firedAt, clock, ran>>
  PROVE  OnceParts'
<1>1. IsFiniteSet(DOMAIN table')
  BY SchedulerAssumption, FS_Subset
<1>2. clock \in Nat /\ firedAt \in Nat /\ firedAt <= clock
      /\ \A i \in DOMAIN table' : table'[i].next \in Nat
  BY DEF OnceInv, AlarmInv, Rows, OnceTypes, RowsOf, Row
<1>3. OnceTypes'
  BY <1>1 DEF OnceInv, OnceTypes
<1>4. ASSUME NEW i \in Crons, i \in DOMAIN table', table'[i].next > clock
      PROVE  RanBefore(ran, i, table'[i].next)
  <2>1. RanBefore(ran, i, clock + 1) /\ clock + 1 \in Nat /\ clock + 1 <= table'[i].next
    BY <1>2, <1>4 DEF OnceInv, OnceTable
  <2>2. QED
    BY <1>2, <1>4, <2>1, RanBeforeLater DEF OnceInv, OnceTypes
<1>5. OnceTable'
  BY <1>4 DEF OnceInv, OnceTable, RanBefore
<1>6. OnceDue'
  BY <1>2 DEF OnceInv, OnceDue, Current
<1>7. QED
  BY <1>3, <1>5, <1>6 DEF OnceInv, OnceParts, OccurrenceAtMostOnce

\* A step of the handler that executes nothing: fire times stay, and the
\* snapshot stays or loses rows.
LEMMA HandlerStep ==
  ASSUME OnceInv, RowsOf(table'),
         DOMAIN table' \subseteq DOMAIN table,
         \A i \in Crons \cap DOMAIN table' : table'[i].next = table[i].next,
         \/ due # <<>> /\ due' = Tail(due) /\ phase' = "loop"
         \/ due # <<>> /\ due' = due /\ phase' = "executing"
         \/ due' = <<>> /\ phase' = "idle",
         UNCHANGED <<firedAt, clock, ran>>
  PROVE  OnceParts'
<1>1. IsFiniteSet(DOMAIN table') /\ DOMAIN table' \subseteq Ids
  BY FS_Subset DEF OnceInv, OnceTypes
<1>2. OnceTypes'
  BY <1>1 DEF OnceInv, OnceTypes
<1>3. OnceTable'
  BY DEF OnceInv, OnceTable, RanBefore
<1>4. OnceDue'
  <2> DEFINE n == IF phase = "executing" THEN 2 ELSE 1
  <2>1. Waiting(due, ran, n) /\ n \in {1, 2} /\ \A k \in DOMAIN due : due[k].at <= firedAt
    BY DEF OnceInv, OnceDue
  <2>2. CASE due # <<>> /\ due' = Tail(due) /\ phase' = "loop"
    BY <2>1, <2>2, WaitingTail DEF OnceDue
  <2>3. CASE due # <<>> /\ due' = due /\ phase' = "executing"
    BY <2>1, <2>3, WaitingTail DEF OnceDue
  <2>4. CASE due' = <<>> /\ phase' = "idle"
    BY <2>4 DEF OnceDue, Waiting
  <2>5. QED
    BY <2>2, <2>3, <2>4
<1>5. QED
  BY <1>2, <1>3, <1>4 DEF OnceInv, OnceParts, OccurrenceAtMostOnce

\* The first row of the snapshot that still waits.
LEMMA HeadRow ==
  ASSUME NEW d, NEW r, NEW n, Waiting(d, r, n), d # <<>>
  PROVE  1 \in DOMAIN d /\ Head(d) = d[1] /\ d[1] \in DueRow /\ Head(d).at \in Nat
<1>1. d \in Seq(DueRow)
  BY DEF Waiting
<1>2. 1 \in DOMAIN d /\ Head(d) = d[1] /\ d[1] \in DueRow
  BY <1>1
<1>3. QED
  BY <1>2 DEF DueRow

\* fireCron: the row of the table moves on to a time after the occurrence that
\* is about to be executed.
LEMMA FireCronStep ==
  ASSUME OnceInv, AlarmInv', NEW i \in Ids, fireCron(i)
  PROVE  OnceParts'
<1> DEFINE next == nextFireTime(firedAt)
<1>1. /\ firedAt \in Nat /\ clock \in Nat /\ firedAt <= clock /\ next \in Nat /\ next > firedAt
      /\ i \in Crons /\ due # <<>> /\ i = Current.id /\ phase = "loop"
  BY NextFireTimeLater DEF OnceInv, AlarmInv, Rows, OnceTypes, fireCron, Working
<1>2. /\ DOMAIN table' = DOMAIN table
      /\ \A j \in DOMAIN table \ {i} : table'[j] = table[j]
      /\ i \in DOMAIN table => table'[i].next = next
      /\ UNCHANGED <<due, firedAt, clock, ran>> /\ phase' = "hooks"
  <2>1. RowsOf(table)
    BY DEF OnceInv, AlarmInv, Rows
  <2>2. CASE i \in DOMAIN table
    <3>1. table' = [table EXCEPT ![i].next = next]
      BY <2>2 DEF fireCron, Existing
    <3> HIDE DEF next
    <3>2. QED
      BY <2>1, <2>2, <3>1 DEF fireCron, ghosts, RowsOf, Row
  <2>3. CASE i \notin DOMAIN table
    BY <2>3 DEF fireCron, ghosts, Existing
  <2>4. QED
    BY <2>2, <2>3
<1> HIDE DEF next
<1>3. Waiting(due, ran, 1) /\ \A k \in DOMAIN due : due[k].at <= firedAt
  BY <1>1 DEF OnceInv, OnceDue
<1>4. 1 \in DOMAIN due /\ Current = due[1] /\ Current.at \in Nat
  BY <1>1, <1>3, HeadRow DEF Current
<1>5. RanBefore(ran, i, next)
  <2>1. RanBefore(ran, i, Current.at) /\ Current.at <= next
    BY <1>1, <1>3, <1>4 DEF Waiting
  <2>2. QED
    BY <1>1, <1>4, <2>1, RanBeforeLater DEF OnceInv, OnceTypes
<1>6. OnceTypes'
  BY <1>1, <1>2 DEF OnceInv, OnceTypes
<1>7. OnceTable'
  <2>1. ASSUME NEW j \in Crons PROVE RanBefore(ran, j, clock + 1)
                 /\ (j \in DOMAIN table' => RanBefore(ran, j, table'[j].next))
    BY <1>2, <1>5 DEF OnceInv, OnceTable
  <2>2. QED
    BY <1>2, <2>1 DEF OnceTable
<1>8. OnceDue'
  <2>1. Current' = Current
    BY <1>2 DEF Current
  <2>2. QED
    BY <1>1, <1>2, <1>3, <2>1 DEF OnceDue
<1>9. QED
  BY <1>2, <1>6, <1>7, <1>8 DEF OnceInv, OnceParts, OccurrenceAtMostOnce

\* execute: the occurrence is later than those before it, and earlier than the
\* fire time to which fireCron has moved the row.
LEMMA ExecuteStep ==
  ASSUME OnceInv, RowsOf(table'), NEW i \in Ids, phase = "hooks", i = Current.id,
         ran' = [ran EXCEPT ![i] = Append(@, Current.at)],
         DOMAIN table' = DOMAIN table,
         \A j \in DOMAIN table : table'[j].next = table[j].next,
         \/ due' = Tail(due) /\ phase' = "loop"
         \/ due' = due /\ phase' = "executing",
         UNCHANGED <<firedAt, clock>>
  PROVE  OnceParts'
<1>1. /\ due # <<>> /\ Waiting(due, ran, 1) /\ firedAt \in Nat /\ clock \in Nat
      /\ firedAt <= clock /\ i \in Crons /\ ran \in [Crons -> Seq(Nat)]
      /\ \A k \in DOMAIN due : due[k].at <= firedAt
      /\ i \in DOMAIN table => table[i].next > firedAt
      /\ \A j \in DOMAIN table : table[j].next \in Nat
  BY DEF OnceInv, OnceDue, OnceTypes, AlarmInv, Rows, RowsOf, Row
<1>2. 1 \in DOMAIN due /\ Current = due[1] /\ Current.at \in Nat /\ Current.at <= firedAt
  BY <1>1, HeadRow DEF Current
<1>3. RanBefore(ran, i, Current.at)
  BY <1>1, <1>2 DEF Waiting
<1>4. PICK t \in Nat : t = Current.at
  BY <1>2
<1>5. /\ ran' \in [Crons -> Seq(Nat)] /\ RanBefore(ran', i, t + 1)
      /\ \A j \in Crons \ {i} : ran'[j] = ran[j]
      /\ Increasing(ran'[i])
  <2>1. ran' = AlsoRan(ran, i, t)
    BY <1>4 DEF AlsoRan
  <2>2. Increasing(ran[i]) /\ RanBefore(ran, i, t)
    BY <1>1, <1>3, <1>4 DEF OnceInv, OccurrenceAtMostOnce, Increasing
  <2>3. QED
    <3>1. /\ AlsoRan(ran, i, t) \in [Crons -> Seq(Nat)]
          /\ RanBefore(AlsoRan(ran, i, t), i, t + 1)
          /\ Increasing(AlsoRan(ran, i, t)[i])
          /\ \A j \in Crons \ {i} : AlsoRan(ran, i, t)[j] = ran[j]
      BY <1>1, <2>2, RanExecute, Zenon
    <3>2. QED
      BY <2>1, <3>1, Zenon
<1>6. Waiting(due, ran', 2)
  BY <1>1, WaitingExecute DEF Current
<1>7. OnceTypes'
  BY <1>1, <1>5 DEF OnceInv, OnceTypes
<1>8. OnceTable'
  <2>1. RanBefore(ran', i, clock + 1)
    <3>1. t + 1 \in Nat /\ clock + 1 \in Nat /\ t + 1 <= clock + 1
      BY <1>1, <1>2, <1>4
    <3>2. QED
      BY <1>1, <1>5, <3>1, RanBeforeLater
  <2>2. i \in DOMAIN table => RanBefore(ran', i, table[i].next)
    <3>1. i \in DOMAIN table => t + 1 \in Nat /\ table[i].next \in Nat /\ t + 1 <= table[i].next
      BY <1>1, <1>2, <1>4
    <3>2. QED
      BY <1>1, <1>5, <3>1, RanBeforeLater
  <2>3. ASSUME NEW j \in Crons, j # i
        PROVE  /\ RanBefore(ran', j, clock + 1)
               /\ j \in DOMAIN table => RanBefore(ran', j, table[j].next)
    BY <1>5, <2>3 DEF OnceInv, OnceTable, RanBefore
  <2>4. QED
    BY <2>1, <2>2, <2>3 DEF OnceTable
<1>9. OnceDue'
  <2>1. CASE due' = due /\ phase' = "executing"
    BY <1>1, <1>6, <2>1 DEF OnceDue
  <2>2. CASE due' = Tail(due) /\ phase' = "loop"
    BY <1>1, <1>6, <2>2, WaitingTail DEF OnceDue
  <2>3. QED
    BY <2>1, <2>2
<1>10. OccurrenceAtMostOnce'
  BY <1>5 DEF OnceInv, OccurrenceAtMostOnce, Increasing
<1>11. QED
  BY <1>7, <1>8, <1>9, <1>10 DEF OnceParts

\* What the store's statements leave of the fire times.
LEMMA StoreTimes ==
  ASSUME RowsOf(table), NEW i
  PROVE  /\ DOMAIN Without(table, i) \subseteq DOMAIN table
         /\ \A j \in DOMAIN Without(table, i) : Without(table, i)[j] = table[j]
         /\ \A s : /\ DOMAIN SetStatus(i, s) = DOMAIN table
                   /\ \A j \in DOMAIN table : SetStatus(i, s)[j].next = table[j].next
<1>1. ASSUME NEW s
      PROVE  /\ DOMAIN SetStatus(i, s) = DOMAIN table
             /\ \A j \in DOMAIN table : SetStatus(i, s)[j].next = table[j].next
  <2>1. CASE i \in DOMAIN table
    BY <2>1 DEF SetStatus, Existing, RowsOf, Row
  <2>2. CASE i \notin DOMAIN table
    BY <2>2 DEF SetStatus, Existing
  <2>3. QED
    BY <2>1, <2>2
<1>2. QED
  BY <1>1 DEF Without

\* Starting a callback changes no time in the table.
LEMMA StartCallbackTimes ==
  ASSUME RowsOf(table), NEW i, StartCallback(i)
  PROVE  /\ DOMAIN table' = DOMAIN table
         /\ \A j \in DOMAIN table : table'[j].next = table[j].next
         /\ \/ due' = Tail(due) /\ phase' = "loop"
            \/ due' = due /\ phase' = "executing"
         /\ firedAt' = firedAt
<1>1. \E s : table' = SetStatus(i, s)
  BY DEF StartCallback
<1>2. QED
  BY <1>1, StoreTimes DEF StartCallback, Continue

\* A row put into the table by an operation: it fires in the future, or it is a
\* timer.
LEMMA WithTimes ==
  ASSUME RowsOf(table), NEW i \in Ids, NEW n, NEW e,
         table' = With(table, i, NewRow(n, e)),
         DOMAIN table \subseteq Ids, n > clock \/ i \in Timers
  PROVE  /\ DOMAIN table' \subseteq Ids
         /\ \A j \in Crons \cap DOMAIN table' :
              \/ j \in DOMAIN table /\ table'[j].next = table[j].next
              \/ table'[j].next > clock
BY SchedulerAssumption DEF With, NewRow, Crons

\* Each step preserves OnceInv.
LEMMA NextOnceInv ==
  ASSUME OnceInv, [Next]_vars
  PROVE  OnceInv'
<1> USE DEF handler, ghosts
<1>1. AlarmInv'
  BY NextAlarmInv DEF OnceInv
<1> SUFFICES OnceParts'
  BY <1>1 DEF OnceInv, OnceParts
<1>2. /\ RowsOf(table) /\ RowsOf(table') /\ DOMAIN table \subseteq Ids
      /\ clock \in Nat /\ firedAt \in Nat /\ firedAt <= clock
  BY <1>1 DEF OnceInv, OnceTypes, AlarmInv, Rows
<1>3. nextFireTime(clock) > clock
  BY <1>2, NextFireTimeLater
<1>4. ASSUME NEW i \in Ids, NEW e, createSchedule(i, e) PROVE OnceParts'
  <2>1. UNCHANGED <<phase, due, firedAt, clock, ran>>
        /\ table' = With(table, i, NewRow(nextFireTime(clock), e))
    BY <1>4 DEF createSchedule
  <2>2. QED
    BY <1>2, <1>3, <2>1, WithTimes, TableStep
<1>5. ASSUME NEW i \in Ids, toggleSchedule(i) PROVE OnceParts'
  <2>1. /\ UNCHANGED <<phase, due, firedAt, clock, ran>>
        /\ DOMAIN table' = DOMAIN table
        /\ \A j \in DOMAIN table : table'[j].next = table[j].next
    BY <1>2, <1>5 DEF toggleSchedule, RowsOf, Row
  <2>2. QED
    BY <1>2, <2>1, TableStep
<1>6. ASSUME NEW i \in Ids, updateCron(i) PROVE OnceParts'
  <2>1. /\ UNCHANGED <<phase, due, firedAt, clock, ran>>
        /\ DOMAIN table' = DOMAIN table
        /\ \A j \in DOMAIN table : \/ table'[j].next = table[j].next
                                   \/ table'[j].next = nextFireTime(clock)
    BY <1>2, <1>6 DEF updateCron, RowsOf, Row
  <2>2. QED
    BY <1>2, <1>3, <2>1, TableStep
<1>7. ASSUME NEW i \in Ids, table' = Without(table, i),
             UNCHANGED <<phase, due, firedAt, clock, ran>>
      PROVE  OnceParts'
  BY <1>2, <1>7, StoreTimes, TableStep
<1>8. ASSUME NEW i \in Ids, NEW given, setTimer(i, given) PROVE OnceParts'
  <2>1. UNCHANGED <<phase, due, firedAt, clock, ran>> /\ i \in Timers
    BY <1>8 DEF setTimer
  <2>2. CASE table' = With(table, i, NewRow(clock + Delay, None))
    BY <1>2, <2>1, <2>2, WithTimes, TableStep
  <2>3. CASE table' = Without(table, i)
    BY <1>7, <2>1, <2>3
  <2>4. QED
    BY <1>8, <2>2, <2>3 DEF setTimer
<1>9. ASSUME NEW i \in Ids, deleteSchedule(i) \/ cancelTimer(i) PROVE OnceParts'
  BY <1>7, <1>9 DEF deleteSchedule, cancelTimer
<1>10. CASE syncCapabilitySchedules
  <2>1. /\ UNCHANGED <<phase, due, firedAt, clock, ran>>
        /\ DOMAIN table' = DOMAIN table \cup Callbacks
        /\ \A j \in DOMAIN table' :
             \/ j \in DOMAIN table /\ table'[j].next = table[j].next
             \/ table'[j].next = nextFireTime(clock)
    BY <1>10 DEF syncCapabilitySchedules, Existing, NewRow
  <2>2. DOMAIN table' \subseteq Ids
    BY <1>2, <2>1 DEF Ids, Crons
  <2>3. QED
    BY <1>2, <1>3, <2>1, <2>2, TableStep
<1>11. CASE alarm
  <2>1. Waiting(due', ran, 1) /\ \A k \in DOMAIN due' : due'[k].at <= clock
    BY <1>11, DueOrdersWait DEF alarm, OnceInv
  <2>2. OnceTypes' /\ OnceTable' /\ OccurrenceAtMostOnce'
    BY <1>2, <1>11 DEF alarm, OnceInv, OnceTypes, OnceTable, OccurrenceAtMostOnce
  <2>3. OnceDue'
    BY <1>11, <2>1 DEF alarm, OnceDue
  <2>4. QED
    BY <2>2, <2>3 DEF OnceParts
<1>12. CASE finishAlarm
  BY <1>12 DEF finishAlarm, OnceInv, OnceParts, OnceTypes, OnceTable, OnceDue,
               OccurrenceAtMostOnce
<1>13. ASSUME NEW i \in Ids, dropExpired(i) PROVE OnceParts'
  BY <1>2, <1>13, StoreTimes, HandlerStep DEF dropExpired, Working, Continue
<1>14. due # <<>> \/ phase \in {"idle", "loop"}
  BY DEF OnceInv, OnceTypes
<1>15. ASSUME NEW i \in Ids, fireTimer(i) PROVE OnceParts'
  <2>1. StartCallback(i) /\ due # <<>> /\ UNCHANGED <<clock, ran>>
    BY <1>15 DEF fireTimer, Working
  <2>2. QED
    BY <1>2, <2>1, StartCallbackTimes, HandlerStep
<1>16. ASSUME NEW i \in Ids, fireCron(i) PROVE OnceParts'
  BY <1>1, <1>16, FireCronStep
<1>17. ASSUME NEW i \in Ids, hookSkips(i) PROVE OnceParts'
  BY <1>2, <1>14, <1>17, HandlerStep DEF hookSkips, Continue
<1>18. ASSUME NEW i \in Ids, hookThrows(i) PROVE OnceParts'
  BY <1>2, <1>18, HandlerStep DEF hookThrows
<1>19. ASSUME NEW i \in Ids, execute(i) PROVE OnceParts'
  <2>1. /\ phase = "hooks" /\ i = Current.id /\ clock' = clock
        /\ ran' = [ran EXCEPT ![i] = Append(@, Current.at)]
    BY <1>19 DEF execute
  <2>2. /\ DOMAIN table' = DOMAIN table
        /\ \A j \in DOMAIN table : table'[j].next = table[j].next
        /\ \/ due' = Tail(due) /\ phase' = "loop"
           \/ due' = due /\ phase' = "executing"
        /\ firedAt' = firedAt
    <3>1. CASE i \in Prompts
      <4>1. table' = SetStatus(i, "running") /\ UNCHANGED <<due, firedAt>>
            /\ phase' = "executing"
        BY <1>19, <3>1 DEF execute
      <4>2. QED
        BY <1>2, <4>1, StoreTimes
    <3>2. CASE i \notin Prompts
      BY <1>2, <1>19, <3>2, StartCallbackTimes DEF execute
    <3>3. QED
      BY <3>1, <3>2
  <2>3. QED
    BY <1>2, <2>1, <2>2, ExecuteStep
<1>20. ASSUME NEW i \in Ids, executionSucceeds(i) \/ executionFails(i)
       PROVE  OnceParts'
  <2>1. /\ due # <<>> /\ due' = Tail(due) /\ phase' = "loop"
        /\ UNCHANGED <<firedAt, clock, ran>>
        /\ table' = Without(table, i) \/ \E s : table' = SetStatus(i, s)
    BY <1>14, <1>20 DEF executionSucceeds, executionFails, Continue
  <2>2. QED
    BY <1>2, <2>1, StoreTimes, HandlerStep
<1>21. CASE evict
  BY <1>2, <1>21, HandlerStep DEF evict
<1>22. CASE Tick
  <2>1. UNCHANGED <<table, phase, due, firedAt, ran>> /\ clock' = clock + 1
    BY <1>22 DEF Tick
  <2>2. OnceTable'
    <3>1. ASSUME NEW i \in Crons PROVE RanBefore(ran, i, clock + 1 + 1)
      BY <1>2, RanBeforeLater DEF OnceInv, OnceTypes, OnceTable
    <3>2. QED
      BY <2>1, <3>1 DEF OnceInv, OnceTable
  <2>3. QED
    BY <1>2, <2>1, <2>2 DEF OnceInv, OnceParts, OnceTypes, OnceDue, OccurrenceAtMostOnce, Current
<1>23. CASE UNCHANGED vars
  BY <1>23 DEF vars, OnceInv, OnceParts, OnceTypes, OnceTable, OnceDue,
               OccurrenceAtMostOnce, Current
<1>24. QED
  BY <1>4, <1>5, <1>6, <1>8, <1>9, <1>10, <1>11, <1>12, <1>13, <1>15, <1>16,
     <1>17, <1>18, <1>19, <1>20, <1>21, <1>22, <1>23
  DEF Next, AlarmStep

\* No occurrence of a cron schedule is executed twice, for any number of
\* schedules and any periods, although executions and hooks fail, the object is
\* evicted in the middle of the handler and the alarm is delivered again.
THEOREM OccurrencesRunOnce == Spec => []OccurrenceAtMostOnce
<1>1. Init => OnceInv
  BY InitAlarmInv, FS_EmptySet
  DEF Init, OnceInv, OnceTypes, OnceTable, OnceDue, OccurrenceAtMostOnce,
      RanBefore, Waiting
<1>2. OnceInv /\ [Next]_vars => OnceInv'
  BY NextOnceInv
<1>3. OnceInv => OccurrenceAtMostOnce
  BY DEF OnceInv
<1>4. QED
  BY <1>1, <1>2, <1>3, PTL DEF Spec

-----------------------------------------------------------------------------
(***************************************************************************)
(* The version an app is said to be at has a row, for any number of calls  *)
(* at a time and any commands of the sandbox that fail. A rollback writes  *)
(* the number it checked before its command, so what has to be kept is     *)
(* that the number still has a row when it does: rows of an app are never  *)
(* taken away one by one, and an app made later has another id.            *)
(***************************************************************************)

Shape ==
  /\ DOMAIN pc = Calls /\ DOMAIN call = Calls
  /\ DOMAIN app = {"id", "current", "versions"}
  /\ \A c \in Calls : call[c].op \in {"none", "deploy", "rollback", "delete"}

\* No id that a call or the row holds is given out again.
IdsAreFresh ==
  /\ ids \in Nat
  /\ app.id \in Nat /\ app.id <= ids
  /\ \A c \in Calls : call[c].id \in Nat /\ call[c].id <= ids

\* Where a call waits tells which operation it is of.
Awaits ==
  \A c \in Calls : /\ pc[c] = "copy" => call[c].op = "deploy"
                   /\ pc[c] = "rollback" => call[c].op = "rollback"

\* While a rollback is under way, its version is one of the app it was for.
RollbackFits ==
  \A c \in Calls :
    call[c].op = "rollback" /\ pc[c] \in {"point", "rollback"} /\ A!Mine(c) =>
      call[c].version \in DOMAIN app.versions

AppsInv == Shape /\ IdsAreFresh /\ Awaits /\ RollbackFits /\ A!PointerHasRow
-----------------------------------------------------------------------------
\* Put adds one key: deploying never takes the row of a version away.
LEMMA PutDomain ==
  ASSUME NEW f, NEW k, NEW v
  PROVE  DOMAIN A!Put(f, k, v) = DOMAIN f \cup {k}
BY DEF A!Put

\* Nothing is deployed and nobody is at work in the beginning.
LEMMA InitAppsInv == A!Init => AppsInv
BY DEF A!Init, AppsInv, Shape, IdsAreFresh, Awaits, RollbackFits, A!PointerHasRow,
       A!NoApp, A!Mine

\* Steps of a call that leave the rows alone and do not become a rollback.
LEMMA CommandStep ==
  ASSUME AppsInv, NEW c \in Calls, A!copy(c) \/ A!rm(c)
  PROVE  AppsInv'
<1>1. /\ UNCHANGED <<app, ids, call>>
      /\ \E w \in {"point", "idle", "delete"} :
           /\ A!Goes(c, w)
           /\ w = "point" => call[c].op = "deploy"
  BY DEF A!copy, A!rm, AppsInv, Awaits
<1>2. \A d \in Calls : A!Mine(d)' <=> A!Mine(d)
  BY <1>1 DEF A!Mine
<1>3. Shape' /\ IdsAreFresh' /\ A!PointerHasRow'
  BY <1>1 DEF AppsInv, Shape, IdsAreFresh, A!PointerHasRow, A!Goes
<1>4. Awaits'
  BY <1>1 DEF AppsInv, Shape, Awaits, A!Goes
<1>5. RollbackFits'
  BY <1>1, <1>2 DEF AppsInv, Shape, RollbackFits, A!Goes
<1>. QED  BY <1>3, <1>4, <1>5 DEF AppsInv

\* A deployment that finds no row makes one with an id no call knows.
LEMMA DeployStep ==
  ASSUME AppsInv, NEW c \in Calls, NEW b \in Builds, A!deploy(c, b)
  PROVE  AppsInv'
<1>. USE DEF AppsInv, Shape
<1>1. /\ pc' = [pc EXCEPT ![c] = "copy"]
      /\ DOMAIN call' = Calls
      /\ call'[c].op = "deploy" /\ call'[c].id = app'.id
      /\ \A d \in Calls \ {c} : call'[d] = call[d]
  BY DEF A!deploy, A!Goes
<1>2. CASE app # A!NoApp
  <2>1. app' = app /\ ids' = ids
    BY <1>2 DEF A!deploy
  <2>. QED  BY <1>1, <2>1 DEF IdsAreFresh, Awaits, RollbackFits, A!PointerHasRow, A!Mine
<1>3. CASE app = A!NoApp
  <2>1. /\ ids' = ids + 1 /\ app' = [A!NoApp EXCEPT !.id = ids + 1]
    BY <1>3 DEF A!deploy
  <2>2. /\ app'.id = ids + 1 /\ app'.current = 0
        /\ DOMAIN app' = {"id", "current", "versions"}
    BY <2>1 DEF A!NoApp
  <2>3. IdsAreFresh'
    BY <1>1, <2>1, <2>2 DEF IdsAreFresh
  <2>4. \A d \in Calls \ {c} : ~A!Mine(d)'
    BY <1>1, <2>2 DEF A!Mine, IdsAreFresh
  <2>. QED  BY <1>1, <2>2, <2>3, <2>4 DEF Awaits, RollbackFits, A!PointerHasRow
<1>. QED  BY <1>2, <1>3

\* The other calls begin with what they read of the row.
LEMMA CallStep ==
  ASSUME AppsInv, NEW c \in Calls, A!delete(c) \/ \E v \in A!Versions : A!rollback(c, v)
  PROVE  AppsInv'
<1>1. UNCHANGED <<app, ids>>
  BY DEF A!delete, A!rollback
<1>2. /\ \A d \in Calls \ {c} : call'[d] = call[d] /\ pc'[d] = pc[d]
      /\ DOMAIN call' = Calls /\ DOMAIN pc' = Calls
  BY DEF A!delete, A!rollback, A!Goes, AppsInv, Shape
<1>3. /\ call'[c].id = app.id
      /\ \/ call'[c].op = "delete" /\ pc'[c] = "rm"
         \/ /\ call'[c].op = "rollback" /\ pc'[c] = "point"
            /\ call'[c].version \in DOMAIN app.versions
  BY DEF A!delete, A!rollback, A!Goes, AppsInv, Shape
<1>. QED  BY <1>1, <1>2, <1>3
          DEF AppsInv, Shape, IdsAreFresh, Awaits, RollbackFits, A!PointerHasRow, A!Mine

\* A rollback's number is still a number of its app when the row takes it.
LEMMA RestoreStep ==
  ASSUME AppsInv, NEW c \in Calls, A!restore(c)
  PROVE  AppsInv'
<1>. USE DEF AppsInv, Shape
<1>1. /\ UNCHANGED <<ids, call>> /\ pc' = [pc EXCEPT ![c] = "idle"]
      /\ app'.id = app.id /\ app'.versions = app.versions
      /\ DOMAIN app' = DOMAIN app
  BY DEF A!restore, A!Goes
<1>2. A!PointerHasRow'
  BY DEF A!restore, Awaits, RollbackFits, A!PointerHasRow
<1>3. \A d \in Calls \ {c} : A!Mine(d)' => A!Mine(d)
  BY <1>1 DEF A!restore, A!Mine, A!NoApp
<1>. QED  BY <1>1, <1>2, <1>3 DEF IdsAreFresh, Awaits, RollbackFits

\* A deployment's version comes with its row.
LEMMA RegisterStep ==
  ASSUME AppsInv, NEW c \in Calls, A!register(c)
  PROVE  AppsInv'
<1>. USE DEF AppsInv, Shape
<1>1. UNCHANGED <<ids, call>> /\ pc' = [pc EXCEPT ![c] = "idle"]
  BY DEF A!register, A!Goes
<1>2. CASE app' = app
  BY <1>1, <1>2 DEF IdsAreFresh, Awaits, RollbackFits, A!PointerHasRow, A!Mine
<1>3. CASE A!Mine(c) /\ app' = [app EXCEPT !.current = @ + 1,
                !.versions = A!Put(@, app.current + 1, call[c].build)]
  <2>1. /\ app'.id = app.id /\ app'.current = app.current + 1
        /\ DOMAIN app'.versions = DOMAIN app.versions \cup {app.current + 1}
        /\ DOMAIN app' = DOMAIN app
    BY <1>3, PutDomain
  <2>2. \A d \in Calls : A!Mine(d)' => A!Mine(d)
    BY <1>1, <1>3, <2>1 DEF A!Mine
  <2>. QED  BY <1>1, <2>1, <2>2 DEF IdsAreFresh, Awaits, RollbackFits, A!PointerHasRow
<1>. QED  BY <1>2, <1>3 DEF A!register

\* A deletion takes all rows of the id: no rollback is for this app any more.
LEMMA RemoveStep ==
  ASSUME AppsInv, NEW c \in Calls, A!remove(c)
  PROVE  AppsInv'
<1>. USE DEF AppsInv, Shape
<1>1. UNCHANGED <<ids, call>> /\ pc' = [pc EXCEPT ![c] = "idle"]
  BY DEF A!remove, A!Goes
<1>2. app' = app \/ app' = A!NoApp
  BY DEF A!remove
<1>. QED  BY <1>1, <1>2 DEF IdsAreFresh, Awaits, RollbackFits, A!PointerHasRow, A!Mine, A!NoApp

\* The pointer's command is over: the call goes on as what it is.
LEMMA PointStep ==
  ASSUME AppsInv, NEW c \in Calls, A!point(c)
  PROVE  AppsInv'
<1>1. /\ UNCHANGED <<app, ids, call>> /\ pc[c] = "point"
      /\ pc' = [pc EXCEPT ![c] = call[c].op]
  BY DEF A!point, A!Goes
<1>2. Shape' /\ IdsAreFresh' /\ A!PointerHasRow'
  BY <1>1 DEF AppsInv, Shape, IdsAreFresh, A!PointerHasRow
<1>3. Awaits'
  <2>. SUFFICES ASSUME NEW d \in Calls
                PROVE  /\ pc'[d] = "copy" => call[d].op = "deploy"
                       /\ pc'[d] = "rollback" => call[d].op = "rollback"
    BY <1>1 DEF Awaits
  <2>1. CASE d = c
    BY <1>1, <2>1 DEF AppsInv, Shape
  <2>2. CASE d # c
    BY <1>1, <2>2 DEF AppsInv, Shape, Awaits
  <2>. QED  BY <2>1, <2>2
<1>4. RollbackFits'
  BY <1>1 DEF AppsInv, Shape, RollbackFits, A!Mine
<1>. QED  BY <1>2, <1>3, <1>4 DEF AppsInv
-----------------------------------------------------------------------------
\* The steps of all of them.
LEMMA AppsInvStep == AppsInv /\ [A!Next]_(A!vars) => AppsInv'
<1>. SUFFICES ASSUME AppsInv, [A!Next]_(A!vars) PROVE AppsInv'
  OBVIOUS
<1>1. CASE A!serve
  BY <1>1 DEF A!serve, AppsInv, Shape, IdsAreFresh, Awaits, RollbackFits,
              A!PointerHasRow, A!Mine
<1>2. CASE UNCHANGED A!vars
  BY <1>2 DEF A!vars, AppsInv, Shape, IdsAreFresh, Awaits, RollbackFits,
              A!PointerHasRow, A!Mine
<1>. QED  BY <1>1, <1>2, CommandStep, DeployStep, CallStep, RestoreStep,
             RegisterStep, RemoveStep, PointStep DEF A!Next

\* Every version an app is said to be at has a row, however the calls of
\* deploy_app, rollback_app and delete_app interleave at their commands.
THEOREM PointerAlwaysHasRow == A!Spec => []A!PointerHasRow
<1>1. AppsInv => A!PointerHasRow
  BY DEF AppsInv
<1>. QED  BY <1>1, AppsInvStep, InitAppsInv, PTL DEF A!Spec
-----------------------------------------------------------------------------
(***************************************************************************)
(* What requests are sent to is there, as long as one call is at work at a *)
(* time and deletions succeed.  The call holds the row it began with, and  *)
(* each row has its files except between a deletion's two steps.           *)
(***************************************************************************)
OneAtWork == \A c, d \in Calls : pc[c] # "idle" /\ pc[d] # "idle" => c = d

AtWork ==
  \A c \in Calls :
    /\ pc[c] # "idle" => A!Mine(c)
    /\ pc[c] = "point" => call[c].op \in {"deploy", "rollback"}
    /\ pc[c] = "deploy" \/ (pc[c] = "point" /\ call[c].op = "deploy")
         => call[c].version \in DOMAIN files
    /\ pc[c] \in {"copy", "point", "deploy"} /\ call[c].op = "deploy"
         => call[c].version = app.current + 1
    /\ pc[c] = "deploy" => call[c].op = "deploy"

RowsHaveFiles ==
  \/ \E c \in Calls : pc[c] = "delete"
  \/ DOMAIN app.versions \subseteq DOMAIN files

DeletedIsEmpty == (\E c \in Calls : pc[c] = "delete") => CURRENT = 0

FilesInv ==
  OneAtWork /\ AtWork /\ RowsHaveFiles /\ DeletedIsEmpty /\ A!ServedHasFiles

\* A deployment or a deletion begins with the row it finds or makes.
LEMMA BeginFiles ==
  ASSUME AppsInv, FilesInv, appsOrderly', NEW c \in Calls,
         \/ \E b \in Builds : A!deploy(c, b)
         \/ \E v \in A!Versions : A!rollback(c, v)
         \/ A!delete(c)
  PROVE  FilesInv'
<1>. USE DEF FilesInv, OneAtWork, AppsInv, Shape
<1>1. /\ UNCHANGED <<files, CURRENT>> /\ DOMAIN pc' = Calls
      /\ \A d \in Calls : pc[d] = "idle" /\ (d # c => pc'[d] = "idle")
  BY DEF A!Begins, A!deploy, A!rollback, A!delete, A!Goes
<1>2. CASE \E b \in Builds : A!deploy(c, b)
  <2>1. /\ pc'[c] = "copy" /\ call'[c].op = "deploy" /\ call'[c].id = app'.id
        /\ call'[c].version = app'.current + 1
    BY <1>2 DEF A!deploy, A!Goes
  <2>2. app' # A!NoApp /\ DOMAIN app'.versions \subseteq DOMAIN app.versions
    <3>1. CASE app # A!NoApp
      BY <1>2, <3>1 DEF A!deploy
    <3>2. CASE app = A!NoApp
      <4>1. app' = [A!NoApp EXCEPT !.id = ids + 1]
        BY <1>2, <3>2 DEF A!deploy
      <4>2. app'.id # A!NoApp.id
        BY <4>1 DEF A!NoApp, IdsAreFresh
      <4>. QED  BY <4>1, <4>2, <3>2 DEF A!NoApp
    <3>. QED  BY <3>1, <3>2
  <2>. QED  BY <1>1, <2>1, <2>2 DEF AtWork, RowsHaveFiles, DeletedIsEmpty, A!ServedHasFiles, A!Mine
<1>3. CASE \E v \in A!Versions : A!rollback(c, v)
  <2>1. /\ pc'[c] = "point" /\ call'[c].op = "rollback" /\ call'[c].id = app.id
        /\ UNCHANGED app /\ app # A!NoApp
    BY <1>3 DEF A!rollback, A!Goes, A!NoApp
  <2>. QED  BY <1>1, <2>1 DEF AtWork, RowsHaveFiles, DeletedIsEmpty, A!ServedHasFiles, A!Mine
<1>4. CASE A!delete(c)
  <2>1. /\ pc'[c] = "rm" /\ call'[c].op = "delete" /\ call'[c].id = app.id
        /\ UNCHANGED app /\ app # A!NoApp
    BY <1>4 DEF A!delete, A!Goes
  <2>. QED  BY <1>1, <2>1 DEF AtWork, RowsHaveFiles, DeletedIsEmpty, A!ServedHasFiles, A!Mine
<1>. QED  BY <1>2, <1>3, <1>4

\* The commands: a copy comes before the pointer, and a deletion that succeeds
\* takes the pointer with the files.
LEMMA CommandFiles ==
  ASSUME AppsInv, FilesInv, appsOrderly', NEW c \in Calls, A!copy(c) \/ A!point(c) \/ A!rm(c)
  PROVE  FilesInv'
<1>. USE DEF FilesInv, OneAtWork, AppsInv, Shape
<1>1. /\ UNCHANGED <<app, call>> /\ DOMAIN pc' = Calls
      /\ \A d \in Calls \ {c} : pc[d] = "idle" /\ pc'[d] = "idle"
  BY DEF A!copy, A!point, A!rm, A!Goes
<1>2. CASE A!copy(c)
  <2>1. /\ pc[c] = "copy" /\ UNCHANGED CURRENT
        /\ \/ pc'[c] = "idle"
           \/ pc'[c] = "point" /\ call[c].version \in DOMAIN files'
        /\ DOMAIN files \subseteq DOMAIN files'
    <3>1. \/ files' = A!Put(files, call[c].version, call[c].build) /\ A!Goes(c, "point")
          \/ /\ A!Goes(c, "idle")
             /\ \/ files' = A!Put(files, call[c].version, call[c].build)
                \/ files' = files
      BY <1>2 DEF A!copy
    <3>2. DOMAIN A!Put(files, call[c].version, call[c].build)
            = DOMAIN files \cup {call[c].version}
      BY PutDomain, Zenon
    <3>. QED  BY <1>2, <3>1, <3>2 DEF A!copy, A!Goes
  <2>. QED  BY <1>1, <2>1 DEF AtWork, Awaits, RowsHaveFiles, DeletedIsEmpty, A!ServedHasFiles, A!Mine
<1>3. CASE A!point(c)
  <2>1. /\ pc[c] = "point" /\ UNCHANGED files
        /\ pc'[c] = call[c].op /\ call[c].op \in {"deploy", "rollback"}
        /\ CURRENT' \in {CURRENT, call[c].version}
    BY <1>3 DEF A!point, A!Goes, AtWork
  <2>2. call[c].version \in DOMAIN files
    BY <1>1, <2>1 DEF AtWork, RollbackFits, RowsHaveFiles
  <2>. QED  BY <1>1, <2>1, <2>2 DEF AtWork, RowsHaveFiles, DeletedIsEmpty, A!ServedHasFiles, A!Mine
<1>4. CASE A!rm(c)
  <2>1. pc[c] = "rm" /\ pc'[c] = "delete" /\ CURRENT' = 0
    BY <1>4 DEF A!rm, A!Goes
  <2>. QED  BY <1>1, <2>1 DEF AtWork, RowsHaveFiles, DeletedIsEmpty, A!ServedHasFiles, A!Mine
<1>. QED  BY <1>2, <1>3, <1>4

\* The rows follow the commands: a version that gets a row has its files.
LEMMA RowFiles ==
  ASSUME AppsInv, FilesInv, appsOrderly', NEW c \in Calls, A!register(c) \/ A!restore(c) \/ A!remove(c)
  PROVE  FilesInv'
<1>. USE DEF FilesInv, OneAtWork, AppsInv, Shape
<1>1. /\ UNCHANGED <<files, CURRENT, call>>
      /\ DOMAIN pc' = Calls /\ pc'[c] = "idle"
      /\ \A d \in Calls \ {c} : pc[d] = "idle" /\ pc'[d] = "idle"
  BY DEF A!register, A!restore, A!remove, A!Goes
<1>2. DOMAIN app'.versions \subseteq DOMAIN files
  <2>1. CASE A!register(c)
    <3>1. /\ pc[c] = "deploy" /\ DOMAIN app.versions \subseteq DOMAIN files
          /\ app.current + 1 \in DOMAIN files
      BY <2>1, <1>1 DEF A!register, AtWork, RowsHaveFiles
    <3>2. \/ app' = app
          \/ app' = [app EXCEPT !.current = @ + 1,
                      !.versions = A!Put(@, app.current + 1, call[c].build)]
      BY <2>1 DEF A!register
    <3>3. \/ app' = app
          \/ DOMAIN app'.versions = DOMAIN app.versions \cup {app.current + 1}
      <4>1. DOMAIN A!Put(app.versions, app.current + 1, call[c].build)
              = DOMAIN app.versions \cup {app.current + 1}
        BY PutDomain, Zenon
      <4>2. CASE app' = [app EXCEPT !.current = @ + 1,
                      !.versions = A!Put(@, app.current + 1, call[c].build)]
        <5>1. app'.versions = A!Put(app.versions, app.current + 1, call[c].build)
          BY <4>2
        <5>. QED  BY <4>1, <5>1
      <4>. QED  BY <3>2, <4>2
    <3>. QED  BY <3>1, <3>3
  <2>2. CASE A!restore(c)
    BY <2>2, <1>1 DEF A!restore, RowsHaveFiles
  <2>3. CASE A!remove(c)
    BY <2>3 DEF A!remove, AtWork, A!NoApp
  <2>. QED  BY <2>1, <2>2, <2>3
<1>. QED  BY <1>1, <1>2 DEF AtWork, RowsHaveFiles, DeletedIsEmpty, A!ServedHasFiles

\* While all is in order it was so before, and each step keeps the files.
LEMMA FilesInvStep ==
  ASSUME AppsInv, appsOrderly => FilesInv, [A!Next]_(A!vars), appsOrderly'
  PROVE  FilesInv'
<1>1. appsOrderly
  <2>1. ASSUME NEW c \in Calls, A!copy(c) \/ A!point(c) \/ A!rm(c) \/ A!register(c)
                                \/ A!restore(c) \/ A!remove(c)
        PROVE  appsOrderly
    BY <2>1 DEF A!copy, A!point, A!rm, A!register, A!restore, A!remove
  <2>2. ASSUME NEW c \in Calls, \/ \E b \in Builds : A!deploy(c, b)
                                \/ \E v \in A!Versions : A!rollback(c, v)
                                \/ A!delete(c)
        PROVE  appsOrderly
    BY <2>2 DEF A!deploy, A!rollback, A!delete, A!Begins
  <2>3. ASSUME A!serve \/ UNCHANGED A!vars PROVE appsOrderly
    BY <2>3 DEF A!serve, A!vars
  <2>. QED  BY <2>1, <2>2, <2>3 DEF A!Next
<1>2. CASE A!serve
  BY <1>1, <1>2 DEF A!serve, FilesInv, OneAtWork, AtWork, RowsHaveFiles, DeletedIsEmpty,
                    A!ServedHasFiles, A!Mine
<1>3. CASE UNCHANGED A!vars
  BY <1>1, <1>3 DEF A!vars, FilesInv, OneAtWork, AtWork, RowsHaveFiles, DeletedIsEmpty,
                    A!ServedHasFiles, A!Mine
<1>. QED  BY <1>1, <1>2, <1>3, BeginFiles, CommandFiles, RowFiles DEF A!Next

\* The version an app is said to be at has a row, and, until calls overlap or the
\* command of a deletion fails, requests find the files of the version that the
\* pointer names, wherever a copy or a pointer's write fails.
THEOREM AppsAreServable == A!Spec => []AppsServable
<1> DEFINE ServedInv == AppsInv /\ (appsOrderly => FilesInv)
<1>1. A!Init => ServedInv
  BY InitAppsInv DEF A!Init, FilesInv, OneAtWork, AtWork, RowsHaveFiles, DeletedIsEmpty,
                  A!ServedHasFiles, A!NoApp
<1>2. ServedInv /\ [A!Next]_(A!vars) => ServedInv'
  BY AppsInvStep, FilesInvStep
<1>3. ServedInv => AppsServable
  BY DEF FilesInv, AppsInv, AppsServable, A!AppsServable
<1>. QED  BY <1>1, <1>2, <1>3, PTL DEF A!Spec

-----------------------------------------------------------------------------
(***************************************************************************)
(* The remote browsers of an agent's sessions (Browser), for any sessions. *)
(* Each browser is known as long as calls do not overlap; that a row has   *)
(* its timers needs nothing but the types.                                 *)
(***************************************************************************)

Does == {"open", "use", "tool", "timer", "onConnect", "recover"}
Places == {"create", "connect", "prepare", "reconnect", "cookies", "release", "next"}
JobType == [does : Does, of : Sessions \cup {0}, has : Nat, at : Places,
            left : SUBSET (Sessions \X Nat)]

BrowserTypes ==
  /\ browsers \subseteq Nat \ {0} /\ created \in Nat /\ restarts \in Nat
  /\ row \in [Sessions -> Nat] /\ timer \in [Sessions -> BOOLEAN]
  /\ jobs \subseteq JobType
  /\ \A j \in jobs : j.does # "recover" => j.of \in Sessions
  /\ \A j \in jobs : j.at = "next" => j.does = "recover"
  /\ \A j \in jobs : j.does = "recover" => j.at \in {"next", "release"}

\* What the fields of a call are after a step of it.
LEMMA JobReads ==
  ASSUME NEW j \in JobType, NEW where \in Places
  PROVE  /\ [j EXCEPT !.at = where] \in JobType
         /\ [j EXCEPT !.at = where].at = where
         /\ [j EXCEPT !.at = where].does = j.does
         /\ [j EXCEPT !.at = where].of = j.of
         /\ [j EXCEPT !.at = where].has = j.has
         /\ [j EXCEPT !.at = where].left = j.left
BY DEF JobType

\* A recovery that has dealt with one session's browser is still that recovery.
LEMMA JobLeft ==
  ASSUME NEW j \in JobType, NEW p \in j.left
  PROVE  /\ [j EXCEPT !.left = @ \ {p}] \in JobType
         /\ [j EXCEPT !.left = @ \ {p}].does = j.does
         /\ [j EXCEPT !.left = @ \ {p}].at = j.at
BY DEF JobType

\* What a call begins with.
LEMMA JobNew ==
  ASSUME NEW d \in Does, NEW s \in Sessions \cup {0}, NEW b \in Nat, NEW where \in Places
  PROVE  /\ B!Job(d, s, b, where) \in JobType
         /\ B!Job(d, s, b, where).does = d
         /\ B!Job(d, s, b, where).of = s
         /\ B!Job(d, s, b, where).has = b
         /\ B!Job(d, s, b, where).at = where
         /\ B!Job(d, s, b, where).left = {}
BY DEF B!Job, JobType

\* A row that was written has its timers; only an eviction takes them from it.
LEMMA TypesStep ==
  BrowserTypes /\ B!BrowsersEnd /\ [B!Next]_(B!vars) => (BrowserTypes /\ B!BrowsersEnd)'
<1>. SUFFICES ASSUME BrowserTypes, B!BrowsersEnd, [B!Next]_(B!vars)
              PROVE  (BrowserTypes /\ B!BrowsersEnd)'
  OBVIOUS
<1>. USE DEF BrowserTypes, B!BrowsersEnd, Does, Places
\* A step of one call.
<1>a. ASSUME NEW j \in jobs, NEW k \in JobType, B!Goes(j, k),
             k.does = j.does, k.does = "recover" \/ k.of = j.of,
             k.does # "recover" => k.at # "next",
             k.does = "recover" => k.at \in {"next", "release"}
      PROVE  /\ jobs' \subseteq JobType
             /\ \A i \in jobs' : i.does # "recover" => i.of \in Sessions
             /\ \A i \in jobs' : i.at = "next" => i.does = "recover"
             /\ \A i \in jobs' : i.does = "recover" => i.at \in {"next", "release"}
  <2>1. jobs' = (jobs \ {j}) \cup {k}
    BY <1>a DEF B!Goes
  <2>. QED  BY <1>a, <2>1
\* The end of one.
<1>b. ASSUME NEW j \in jobs, B!Ends(j)
      PROVE  /\ jobs' \subseteq JobType
             /\ \A i \in jobs' : i.does # "recover" => i.of \in Sessions
             /\ \A i \in jobs' : i.at = "next" => i.does = "recover"
             /\ \A i \in jobs' : i.does = "recover" => i.at \in {"next", "release"}
  BY <1>b DEF B!Ends
\* The beginning.
<1>c. ASSUME NEW k \in JobType, B!Begins(k),
             k.does # "recover" => k.of \in Sessions /\ k.at # "next",
             k.does = "recover" => k.at = "next"
      PROVE  /\ jobs' \subseteq JobType
             /\ \A i \in jobs' : i.does # "recover" => i.of \in Sessions
             /\ \A i \in jobs' : i.at = "next" => i.does = "recover"
             /\ \A i \in jobs' : i.does = "recover" => i.at \in {"next", "release"}
  <2>1. jobs' = jobs \cup {k}
    BY <1>c DEF B!Begins
  <2>. QED  BY <1>c, <2>1
<1>1. ASSUME NEW s \in Sessions, B!open(s) PROVE (BrowserTypes /\ B!BrowsersEnd)'
  <2>0. "open" \in Does /\ "create" \in Places /\ s \in Sessions \cup {0} /\ 0 \in Nat
    OBVIOUS
  <2>1. /\ B!Job("open", s, 0, "create") \in JobType
        /\ B!Job("open", s, 0, "create").does = "open"
        /\ B!Job("open", s, 0, "create").of = s
        /\ B!Job("open", s, 0, "create").at = "create"
    <3>. HIDE DEF Does, Places, BrowserTypes, B!BrowsersEnd
    <3>. QED  BY <2>0, JobNew, SMTT(30)
  <2>. QED  BY <1>1, <2>1, <1>c DEF B!open
<1>2. ASSUME NEW s \in Sessions, B!ensureCDP(s) PROVE (BrowserTypes /\ B!BrowsersEnd)'
  <2>1. /\ B!Job("use", s, row[s], "reconnect") \in JobType
        /\ B!Job("use", s, row[s], "reconnect").does = "use"
        /\ B!Job("use", s, row[s], "reconnect").of = s
        /\ B!Job("use", s, row[s], "reconnect").at = "reconnect"
    BY JobNew
  <2>. QED  BY <1>2, <2>1, <1>c DEF B!ensureCDP
<1>3. ASSUME NEW s \in Sessions, NEW by \in {"tool", "timer", "onConnect"}, B!close(s, by)
      PROVE  (BrowserTypes /\ B!BrowsersEnd)'
  <2> DEFINE where == IF s \in up THEN "cookies" ELSE "release"
  <2>1. /\ B!Job(by, s, row[s], where) \in JobType
        /\ B!Job(by, s, row[s], where).does = by
        /\ B!Job(by, s, row[s], where).of = s
        /\ B!Job(by, s, row[s], where).at = where
    BY JobNew
  <2>2. B!Begins(B!Job(by, s, row[s], where)) /\ UNCHANGED <<browsers, created, row, timer, restarts>>
    BY <1>3 DEF B!close
  <2>. QED  BY <2>1, <2>2, <1>c
<1>4. ASSUME NEW j \in jobs, B!create(j) PROVE (BrowserTypes /\ B!BrowsersEnd)'
  <2>1. /\ j \in JobType /\ j.at = "create" /\ j.does # "recover"
        /\ UNCHANGED <<row, timer, restarts>>
    BY <1>4 DEF B!create
  <2>2. CASE /\ created' = created + 1
             /\ browsers' = browsers \cup {created + 1}
             /\ B!Goes(j, [j EXCEPT !.has = created + 1, !.at = "connect"])
    <3>1. created + 1 \in Nat \ {0}
      OBVIOUS
    <3>0. "connect" \in Places /\ created + 1 \in Nat
      OBVIOUS
    <3>2. /\ [j EXCEPT !.has = created + 1, !.at = "connect"] \in JobType
          /\ [j EXCEPT !.has = created + 1, !.at = "connect"].at = "connect"
          /\ [j EXCEPT !.has = created + 1, !.at = "connect"].does = j.does
          /\ [j EXCEPT !.has = created + 1, !.at = "connect"].of = j.of
      <4>. HIDE DEF Does, Places, BrowserTypes, B!BrowsersEnd
      <4>. QED  BY <3>0, <2>1 DEF JobType
    <3>. QED  BY <2>1, <2>2, <3>1, <3>2, <1>a
  <2>3. CASE B!Ends(j) /\ UNCHANGED <<browsers, created>>
    BY <2>1, <2>3, <1>b
  <2>. QED  BY <1>4, <2>2, <2>3 DEF B!create
<1>5. ASSUME NEW j \in jobs, B!connect(j) PROVE (BrowserTypes /\ B!BrowsersEnd)'
  <2>1. /\ j \in JobType /\ j.at = "connect" /\ j.does # "recover"
        /\ UNCHANGED <<browsers, created, row, timer, restarts>>
        /\ B!Goes(j, [j EXCEPT !.at = "prepare"]) \/ B!Ends(j)
    BY <1>5 DEF B!connect, B!At
  <2>2. /\ [j EXCEPT !.at = "prepare"] \in JobType
        /\ [j EXCEPT !.at = "prepare"].at = "prepare"
        /\ [j EXCEPT !.at = "prepare"].does = j.does
        /\ [j EXCEPT !.at = "prepare"].of = j.of
    BY <2>1, JobReads
  <2>. QED  BY <2>1, <2>2, <1>a, <1>b
<1>6. ASSUME NEW j \in jobs, B!opened(j) PROVE (BrowserTypes /\ B!BrowsersEnd)'
  <2>1. /\ j \in JobType /\ j.does # "recover" /\ j.of \in Sessions /\ j.has \in Nat
        /\ B!Ends(j) /\ UNCHANGED <<browsers, created, restarts>>
        /\ \/ /\ row' = [row EXCEPT ![j.of] = j.has]
              /\ timer' = [timer EXCEPT ![j.of] = TRUE]
           \/ UNCHANGED <<row, timer>>
    BY <1>6 DEF B!opened, JobType
  <2>. QED  BY <2>1, <1>b
<1>7. ASSUME NEW j \in jobs, B!reconnect(j) PROVE (BrowserTypes /\ B!BrowsersEnd)'
  BY <1>7, <1>b DEF B!reconnect
<1>8. ASSUME NEW j \in jobs, B!saved(j) PROVE (BrowserTypes /\ B!BrowsersEnd)'
  <2>1. /\ j \in JobType /\ j.does # "recover"
        /\ UNCHANGED <<browsers, created, row, timer, restarts>>
        /\ B!Goes(j, [j EXCEPT !.at = "release"])
    BY <1>8 DEF B!saved, B!At
  <2>2. /\ [j EXCEPT !.at = "release"] \in JobType
        /\ [j EXCEPT !.at = "release"].at = "release"
        /\ [j EXCEPT !.at = "release"].does = j.does
        /\ [j EXCEPT !.at = "release"].of = j.of
    BY <2>1, JobReads
  <2>. QED  BY <2>1, <2>2, <1>a
<1>9. ASSUME NEW j \in jobs, B!released(j) PROVE (BrowserTypes /\ B!BrowsersEnd)'
  <2>1. /\ j.does # "recover" /\ j.of \in Sessions
        /\ B!Ends(j) /\ UNCHANGED <<created, restarts>>
        /\ browsers' \subseteq browsers
        /\ row' = [row EXCEPT ![j.of] = 0]
        /\ timer' \in {timer, [timer EXCEPT ![j.of] = FALSE]}
    BY <1>9 DEF B!released, B!Released
  <2>. QED  BY <2>1, <1>b
<1>10. ASSUME NEW j \in jobs, B!visit(j) PROVE (BrowserTypes /\ B!BrowsersEnd)'
  <2>1. /\ j \in JobType /\ j.does = "recover" /\ j.at = "next"
        /\ UNCHANGED <<browsers, created, row, timer, restarts>>
    BY <1>10 DEF B!visit
  <2>2. CASE j.left = {}
    BY <1>10, <2>1, <2>2, <1>b DEF B!visit
  <2>3. CASE j.left # {}
    <3>1. PICK p \in j.left :
            \/ B!Goes(j, [j EXCEPT !.left = @ \ {p}])
            \/ B!Goes(j, [j EXCEPT !.of = p[1], !.at = "release"])
      BY <1>10, <2>3 DEF B!visit
    <3>0. "next" \in Places /\ "release" \in Places
      OBVIOUS
    <3>2. p[1] \in Sessions
      BY <2>1 DEF JobType
    <3>3. /\ [j EXCEPT !.left = @ \ {p}] \in JobType
          /\ [j EXCEPT !.left = @ \ {p}].does = j.does
          /\ [j EXCEPT !.left = @ \ {p}].at = j.at
      <4>. HIDE DEF Does, Places, BrowserTypes, B!BrowsersEnd
      <4>. QED  BY <2>1, <3>0, JobLeft, Zenon
    <3>4. /\ [j EXCEPT !.of = p[1], !.at = "release"] \in JobType
          /\ [j EXCEPT !.of = p[1], !.at = "release"].does = j.does
          /\ [j EXCEPT !.of = p[1], !.at = "release"].at = "release"
      <4>. HIDE DEF Does, Places, BrowserTypes, B!BrowsersEnd
      <4>. QED  BY <3>0, <2>1, <3>2 DEF JobType
    <3>. QED  BY <2>1, <3>1, <3>3, <3>4, <1>a
  <2>. QED  BY <2>2, <2>3
<1>11. ASSUME NEW j \in jobs, B!recovered(j) PROVE (BrowserTypes /\ B!BrowsersEnd)'
  <2>1. PICK p \in j.left :
          /\ p[1] = j.of /\ browsers' \subseteq browsers
          /\ row' = [row EXCEPT ![j.of] = 0]
          /\ B!Goes(j, [j EXCEPT !.left = @ \ {p}, !.at = "next"])
    BY <1>11 DEF B!recovered, B!Released
  <2>2. j \in JobType /\ j.does = "recover" /\ UNCHANGED <<created, timer, restarts>>
    BY <1>11 DEF B!recovered
  <2>0. "next" \in Places
    OBVIOUS
  <2>3. /\ [j EXCEPT !.left = @ \ {p}, !.at = "next"] \in JobType
        /\ [j EXCEPT !.left = @ \ {p}, !.at = "next"].does = j.does
        /\ [j EXCEPT !.left = @ \ {p}, !.at = "next"].at = "next"
    <3>. HIDE DEF Does, Places, BrowserTypes, B!BrowsersEnd
    <3>. QED  BY <2>0, <2>2 DEF JobType
  <2>. QED  BY <2>1, <2>2, <2>3, <1>a
<1>12. ASSUME B!recover PROVE (BrowserTypes /\ B!BrowsersEnd)'
  <2> DEFINE L == {<<s, row[s]>> : s \in {x \in Sessions : row[x] # 0}}
  <2>1. PICK n \in {0, 1} : B!Begins([B!Job("recover", 0, n, "next") EXCEPT !.left = L])
    BY <1>12 DEF B!recover
  <2> DEFINE base == B!Job("recover", 0, n, "next")
  <2>0. "recover" \in Does /\ "next" \in Places /\ 0 \in Sessions \cup {0}
    OBVIOUS
  <2>2. base \in JobType /\ base.does = "recover" /\ base.at = "next"
    <3>. HIDE DEF Does, Places, BrowserTypes, B!BrowsersEnd
    <3>. QED  BY <2>0, <2>1, JobNew, SMTT(30)
  <2>3. L \subseteq Sessions \X Nat
    OBVIOUS
  <2>. HIDE DEF base, L
  <2>4. /\ [base EXCEPT !.left = L] \in JobType
        /\ [base EXCEPT !.left = L].does = "recover"
        /\ [base EXCEPT !.left = L].at = "next"
    BY <2>2, <2>3 DEF JobType
  <2>5. B!Begins([base EXCEPT !.left = L])
    BY <2>1 DEF base
  <2>6. UNCHANGED <<browsers, created, row, timer, restarts>>
    BY <1>12 DEF B!recover
  <2>. QED  BY <2>4, <2>5, <2>6, <1>c
<1>13. ASSUME NEW s \in Sessions, B!timerGone(s) PROVE (BrowserTypes /\ B!BrowsersEnd)'
  BY <1>13 DEF B!timerGone
<1>14. ASSUME NEW s \in Sessions, B!disconnect(s) PROVE (BrowserTypes /\ B!BrowsersEnd)'
  BY <1>14 DEF B!disconnect
<1>15. ASSUME NEW b \in browsers, B!expire(b) PROVE (BrowserTypes /\ B!BrowsersEnd)'
  BY <1>15 DEF B!expire
<1>16. ASSUME B!evict PROVE (BrowserTypes /\ B!BrowsersEnd)'
  BY <1>16 DEF B!evict
<1>17. CASE UNCHANGED B!vars
  BY <1>17 DEF B!vars
<1>. QED  BY <1>1, <1>2, <1>3, <1>4, <1>5, <1>6, <1>7, <1>8, <1>9, <1>10, <1>11,
             <1>12, <1>13, <1>14, <1>15, <1>16, <1>17 DEF B!Next
-----------------------------------------------------------------------------
(***************************************************************************)
(* BrowsersAreKnown, as long as calls of a session follow each other, a    *)
(* recovery overlaps none, and nothing fails.  A call that opens has a     *)
(* session without a row, any other has the row's browser, and a recovery  *)
(* has the rows as they are.                                               *)
(***************************************************************************)
Alone ==
  /\ \A j, k \in jobs :
       j.does # "recover" /\ k.does # "recover" /\ j.of = k.of => j = k
  /\ \A j, k \in jobs : j.does = "recover" => j = k

CallHolds(j) ==
  /\ j.at \in {"create", "connect", "prepare"} => j.does = "open"
  /\ j.does = "open" => j.at \in {"create", "connect", "prepare"} /\ row[j.of] = 0
  /\ j.at = "create" => j.has = 0
  /\ j.does \notin {"open", "recover"} => j.has = row[j.of]

RecoveryHolds(j) ==
  j.does = "recover" => \A p \in j.left : p[2] = row[p[1]]

KnownInv ==
  /\ BrowserTypes /\ Alone /\ B!BrowsersAreKnown
  /\ \A j \in jobs : CallHolds(j) /\ RecoveryHolds(j)

\* A call of a session begins.
LEMMA BeginKnown ==
  ASSUME KnownInv, browsersOrderly', NEW s \in Sessions,
         \/ B!open(s) \/ B!ensureCDP(s)
         \/ \E by \in {"tool", "timer", "onConnect"} : B!close(s, by)
  PROVE  (Alone /\ B!BrowsersAreKnown /\ \A j \in jobs : CallHolds(j) /\ RecoveryHolds(j))'
<1>1. UNCHANGED <<browsers, row>>
  BY DEF B!open, B!ensureCDP, B!close
<1>2. \A j \in jobs : j.does # "recover" /\ j.of # s
  <2>1. PICK k : B!Begins(k) /\ k.does # "recover" /\ k.of = s
    BY DEF B!open, B!ensureCDP, B!close, B!Job
  <2>2. B!Of(s) = {} /\ B!Recoveries = {}
    BY <2>1 DEF B!Begins
  <2>. QED  BY <2>2 DEF B!Of, B!Recoveries
<1>3. PICK d \in Does \ {"recover"}, b \in Nat, where \in Places :
        /\ jobs' = jobs \cup {B!Job(d, s, b, where)}
        /\ d = "open" <=> where \in {"create", "connect", "prepare"}
        /\ d = "open" => where = "create" /\ b = 0 /\ row[s] = 0
        /\ d # "open" => b = row[s]
  <2>1. CASE B!open(s)
    <3>1. jobs' = jobs \cup {B!Job("open", s, 0, "create")} /\ row[s] = 0
      BY <2>1 DEF B!open, B!Begins
    <3>. QED  BY <3>1 DEF Does, Places
  <2>2. CASE B!ensureCDP(s)
    <3>1. jobs' = jobs \cup {B!Job("use", s, row[s], "reconnect")} /\ row[s] \in Nat
      BY <2>2 DEF B!ensureCDP, B!Begins, KnownInv, BrowserTypes
    <3>. QED  BY <3>1 DEF Does, Places
  <2>3. CASE \E by \in {"tool", "timer", "onConnect"} : B!close(s, by)
    <3>1. PICK by \in {"tool", "timer", "onConnect"} :
            jobs' = jobs \cup {B!Job(by, s, row[s], IF s \in up THEN "cookies" ELSE "release")}
      BY <2>3 DEF B!close, B!Begins
    <3>2. row[s] \in Nat
      BY DEF KnownInv, BrowserTypes
    <3>3. CASE s \in up
      BY <3>1, <3>2, <3>3 DEF Does, Places
    <3>4. CASE s \notin up
      BY <3>1, <3>2, <3>4 DEF Does, Places
    <3>. QED  BY <3>3, <3>4
  <2>. QED  BY <2>1, <2>2, <2>3
<1> DEFINE k == B!Job(d, s, b, where)
<1>4. /\ k.does = d /\ k.of = s /\ k.has = b /\ k.at = where
  BY <1>3 DEF B!Job
<1>. HIDE DEF k
<1>5. jobs' = jobs \cup {k}
  BY <1>3 DEF k
<1>6. Alone'
  BY <1>2, <1>3, <1>4, <1>5 DEF Alone, KnownInv
<1>7. B!BrowsersAreKnown'
  BY <1>1, <1>5 DEF B!BrowsersAreKnown, KnownInv
<1>8. \A j \in jobs' : (CallHolds(j) /\ RecoveryHolds(j))'
  BY <1>1, <1>3, <1>4, <1>5 DEF KnownInv, CallHolds, RecoveryHolds
<1>. QED  BY <1>6, <1>7, <1>8

\* A call stays one of its session when it goes on.
LEMMA StaysAlone ==
  ASSUME Alone, NEW j \in jobs, NEW k, B!Goes(j, k),
         k.does = j.does, k.does = "recover" \/ k.of = j.of
  PROVE  Alone'
BY DEF Alone, B!Goes

\* createSession gives the call a browser that nobody has.
LEMMA CreateKnown ==
  ASSUME KnownInv, browsersOrderly', NEW j \in jobs, B!create(j)
  PROVE  (Alone /\ B!BrowsersAreKnown /\ \A i \in jobs : CallHolds(i) /\ RecoveryHolds(i))'
<1> DEFINE k == [j EXCEPT !.has = created + 1, !.at = "connect"]
<1>1. /\ j \in JobType /\ j.at = "create"
      /\ j.does = "open" /\ j.has = 0 /\ row[j.of] = 0
  BY DEF B!create, KnownInv, BrowserTypes, CallHolds
<1>2. /\ k.has = created + 1 /\ k.at = "connect" /\ k.does = "open" /\ k.of = j.of
  BY <1>1 DEF JobType
<1>3. /\ UNCHANGED row /\ browsers' = browsers \cup {created + 1} /\ B!Goes(j, k)
  BY DEF B!create
<1>. HIDE DEF k
<1>4. Alone'
  BY <1>1, <1>2, <1>3, StaysAlone DEF KnownInv
<1>5. jobs' = (jobs \ {j}) \cup {k}
  BY <1>3 DEF B!Goes
<1>6. B!BrowsersAreKnown'
  <2>. SUFFICES ASSUME NEW b \in browsers'
                PROVE  \/ \E s \in Sessions : row'[s] = b
                       \/ \E i \in jobs' : i.has = b /\ i.does # "recover"
    BY DEF B!BrowsersAreKnown
  <2>1. CASE b = created + 1
    BY <1>2, <1>5, <2>1
  <2>2. CASE b \in browsers
    <3>1. b # 0
      BY <2>2 DEF KnownInv, BrowserTypes
    <3>. QED  BY <1>1, <1>3, <1>5, <2>2, <3>1 DEF KnownInv, B!BrowsersAreKnown
  <2>. QED  BY <1>3, <2>1, <2>2
<1>7. \A i \in jobs' : (CallHolds(i) /\ RecoveryHolds(i))'
  BY <1>1, <1>2, <1>3, <1>5 DEF KnownInv, CallHolds, RecoveryHolds
<1>. QED  BY <1>4, <1>6, <1>7

\* The other steps that leave the rows as they are.
LEMMA GoKnown ==
  ASSUME KnownInv, browsersOrderly', NEW j \in jobs, B!connect(j) \/ B!reconnect(j) \/ B!saved(j)
  PROVE  (Alone /\ B!BrowsersAreKnown /\ \A i \in jobs : CallHolds(i) /\ RecoveryHolds(i))'
<1>1. /\ UNCHANGED <<row, browsers>> /\ j \in JobType
      /\ j.at \in {"connect", "reconnect", "cookies"} /\ j.does # "recover"
  BY DEF B!connect, B!reconnect, B!saved, KnownInv, BrowserTypes
<1>2. CASE B!Ends(j)
  <2>1. jobs' = jobs \ {j} /\ (j.has \notin browsers \/ \E s \in Sessions : row[s] = j.has)
    <3>1. CASE B!connect(j)
      <4>1. ASSUME B!At(j, "prepare") PROVE FALSE
        <5> DEFINE k == [j EXCEPT !.at = "prepare"]
        <5>1. /\ k.at = "prepare" /\ j.at = "connect"
              /\ k.does = j.does /\ k.of = j.of
          BY <1>1, <3>1 DEF JobType, B!connect
        <5>2. k \in jobs \ {j}
          BY <4>1, <1>2 DEF B!At, B!Goes, B!Ends
        <5>. HIDE DEF k
        <5>. QED  BY <1>1, <5>1, <5>2 DEF KnownInv, Alone
      <4>. QED  BY <1>2, <3>1, <4>1 DEF B!connect, B!Ends
    <3>2. CASE B!reconnect(j)
      <4>1. j.has = row[j.of] /\ j.of \in Sessions
        BY <1>1, <3>2 DEF B!reconnect, KnownInv, CallHolds, BrowserTypes
      <4>. QED  BY <1>2, <4>1 DEF B!Ends
    <3>3. CASE B!saved(j)
      <4> DEFINE k == [j EXCEPT !.at = "release"]
      <4>1. /\ k.at = "release" /\ j.at = "cookies"
            /\ k.does = j.does /\ k.of = j.of
        BY <1>1, <3>3 DEF JobType, B!saved
      <4>2. k \in jobs \ {j}
        BY <1>2, <3>3 DEF B!saved, B!At, B!Goes, B!Ends
      <4>. HIDE DEF k
      <4>. QED  BY <1>1, <4>1, <4>2 DEF KnownInv, Alone
    <3>. QED  BY <3>1, <3>2, <3>3
  <2>. QED  BY <1>1, <2>1 DEF KnownInv, Alone, B!BrowsersAreKnown, CallHolds, RecoveryHolds
<1>3. CASE ~B!Ends(j)
  <2>1. PICK where \in {"prepare", "release"} :
          /\ B!At(j, where)
          /\ where = "prepare" <=> j.at = "connect"
    BY <1>3 DEF B!connect, B!reconnect, B!saved
  <2> DEFINE k == [j EXCEPT !.at = where]
  <2>2. k.at = where /\ k.does = j.does /\ k.of = j.of /\ k.has = j.has
    BY <1>1 DEF JobType
  <2>3. B!Goes(j, k)
    BY <2>1 DEF B!At
  <2>. HIDE DEF k
  <2>4. Alone'
    BY <2>2, <2>3, StaysAlone DEF KnownInv
  <2>5. jobs' = (jobs \ {j}) \cup {k}
    BY <2>3 DEF B!Goes
  <2>6. B!BrowsersAreKnown'
    BY <1>1, <2>2, <2>5 DEF KnownInv, B!BrowsersAreKnown
  <2>7. \A i \in jobs' : (CallHolds(i) /\ RecoveryHolds(i))'
    BY <1>1, <2>1, <2>2, <2>5 DEF KnownInv, CallHolds, RecoveryHolds
  <2>. QED  BY <2>4, <2>6, <2>7
<1>. QED  BY <1>2, <1>3

\* The last step of a call writes the row of its session, which no other call
\* and no recovery looks at.
LEMMA RowKnown ==
  ASSUME KnownInv, browsersOrderly', NEW j \in jobs, B!opened(j) \/ B!released(j)
  PROVE  (Alone /\ B!BrowsersAreKnown /\ \A i \in jobs : CallHolds(i) /\ RecoveryHolds(i))'
<1>1. /\ j.does # "recover" /\ j.of \in Sessions
      /\ row \in [Sessions -> Nat] /\ 0 \notin browsers
  BY DEF B!opened, B!released, KnownInv, BrowserTypes
<1>2. /\ jobs' = jobs \ {j} /\ \A i \in jobs' : i.does # "recover" /\ i.of # j.of
  BY <1>1 DEF B!opened, B!released, B!Ends, KnownInv, Alone
<1>3. /\ \A s \in Sessions \ {j.of} : row'[s] = row[s]
  BY <1>1 DEF B!opened, B!released
<1>4. Alone'
  BY <1>2 DEF KnownInv, Alone
<1>5. B!BrowsersAreKnown'
  <2>1. CASE B!opened(j)
    <3>1. row'[j.of] = j.has /\ row[j.of] = 0 /\ UNCHANGED browsers
      BY <1>1, <2>1 DEF B!opened, KnownInv, CallHolds
    <3>. QED  BY <1>1, <1>2, <1>3, <3>1 DEF KnownInv, B!BrowsersAreKnown
  <2>2. CASE B!released(j)
    <3>1. browsers' = browsers \ {j.has} /\ row[j.of] = j.has
      BY <1>1, <2>2 DEF B!released, B!Released, KnownInv, CallHolds
    <3>. QED  BY <1>1, <1>2, <1>3, <3>1 DEF KnownInv, B!BrowsersAreKnown
  <2>. QED  BY <2>1, <2>2
<1>6. \A i \in jobs' : (CallHolds(i) /\ RecoveryHolds(i))'
  <2>1. \A i \in jobs' : i.of \in Sessions
    BY <1>2 DEF KnownInv, BrowserTypes
  <2>. QED  BY <1>2, <1>3, <2>1 DEF KnownInv, CallHolds, RecoveryHolds
<1>. QED  BY <1>4, <1>5, <1>6

\* A recovery that overlaps no call forgets only what it releases.
LEMMA RecoverKnown ==
  ASSUME KnownInv, browsersOrderly', B!recover \/ \E j \in jobs : B!visit(j) \/ B!recovered(j)
  PROVE  (Alone /\ B!BrowsersAreKnown /\ \A i \in jobs : CallHolds(i) /\ RecoveryHolds(i))'
<1>1. CASE B!recover
  <2> DEFINE L == {<<s, row[s]>> : s \in {x \in Sessions : row[x] # 0}}
  <2>0. PICK n \in {0, 1} : B!Begins([B!Job("recover", 0, n, "next") EXCEPT !.left = L])
    BY <1>1 DEF B!recover
  <2> DEFINE k == [B!Job("recover", 0, n, "next") EXCEPT !.left = L]
  <2>1. k.does = "recover" /\ k.left = L /\ k.at = "next"
    BY DEF B!Job
  <2>2. \A p \in L : p[2] = row[p[1]]
    OBVIOUS
  <2>3. jobs = {} /\ jobs' = jobs \cup {k} /\ UNCHANGED <<row, browsers>>
    <3>1. B!Begins(k) /\ UNCHANGED <<row, browsers>>
      BY <1>1, <2>0 DEF B!recover
    <3>. QED  BY <2>1, <3>1 DEF B!Begins
  <2>. HIDE DEF k, L
  <2>. QED  BY <2>1, <2>2, <2>3
            DEF KnownInv, Alone, B!BrowsersAreKnown, CallHolds, RecoveryHolds
<1>2. ASSUME NEW j \in jobs, B!visit(j) \/ B!recovered(j)
      PROVE  (Alone /\ B!BrowsersAreKnown /\ \A i \in jobs : CallHolds(i) /\ RecoveryHolds(i))'
  <2>1. /\ j.does = "recover" /\ jobs = {j} /\ j \in JobType /\ j.left \subseteq Sessions \X Nat
    <3>1. j.does = "recover" /\ j \in JobType
      BY <1>2 DEF B!visit, B!recovered, KnownInv, BrowserTypes
    <3>2. jobs = {j}
      BY <3>1 DEF KnownInv, Alone
    <3>. QED  BY <3>1, <3>2 DEF JobType
  <2>2. ASSUME NEW k, k.does = "recover", k.at \in {"next", "release"},
               k.left \subseteq j.left, jobs' = {k}, UNCHANGED <<row, browsers>>
        PROVE  (Alone /\ B!BrowsersAreKnown /\ \A i \in jobs : CallHolds(i) /\ RecoveryHolds(i))'
    BY <2>1, <2>2 DEF KnownInv, Alone, B!BrowsersAreKnown, CallHolds, RecoveryHolds
  <2>3. CASE B!visit(j)
    <3>1. UNCHANGED <<row, browsers>> /\ j.at = "next"
      BY <2>3 DEF B!visit
    <3>2. CASE j.left = {}
      <4>1. jobs' = {}
        BY <2>1, <2>3, <3>2 DEF B!visit, B!Ends
      <4>. QED  BY <2>1, <3>1, <4>1
                DEF KnownInv, Alone, B!BrowsersAreKnown, CallHolds, RecoveryHolds
    <3>3. CASE j.left # {}
      <4>1. PICK p \in j.left :
              \/ B!Goes(j, [j EXCEPT !.left = @ \ {p}])
              \/ B!Goes(j, [j EXCEPT !.of = p[1], !.at = "release"])
        BY <2>3, <3>3 DEF B!visit
      <4>2. CASE B!Goes(j, [j EXCEPT !.left = @ \ {p}])
        <5> DEFINE k == [j EXCEPT !.left = @ \ {p}]
        <5>1. k.does = "recover" /\ k.at = "next" /\ k.left \subseteq j.left
          BY <2>1, <3>1 DEF JobType
        <5>2. jobs' = {k}
          BY <2>1, <4>2 DEF B!Goes
        <5>. HIDE DEF k
        <5>. QED  BY <2>2, <3>1, <5>1, <5>2
      <4>3. CASE B!Goes(j, [j EXCEPT !.of = p[1], !.at = "release"])
        <5> DEFINE k == [j EXCEPT !.of = p[1], !.at = "release"]
        <5>1. k.does = "recover" /\ k.at = "release" /\ k.left = j.left
          BY <2>1 DEF JobType
        <5>2. jobs' = {k}
          BY <2>1, <4>3 DEF B!Goes
        <5>. HIDE DEF k
        <5>. QED  BY <2>2, <3>1, <5>1, <5>2
      <4>. QED  BY <4>1, <4>2, <4>3
    <3>. QED  BY <3>2, <3>3
  <2>4. CASE B!recovered(j)
    <3>1. PICK p \in j.left :
            /\ p[1] = j.of /\ browsers' = browsers \ {p[2]}
            /\ row' = [row EXCEPT ![j.of] = 0]
            /\ B!Goes(j, [j EXCEPT !.left = @ \ {p}, !.at = "next"])
      BY <2>4 DEF B!recovered, B!Released
    <3>2. p[2] = row[p[1]] /\ p = <<p[1], p[2]>> /\ p[1] \in Sessions
      BY <2>1 DEF KnownInv, RecoveryHolds
    <3> DEFINE k == [j EXCEPT !.left = @ \ {p}, !.at = "next"]
    <3>3. k.does = "recover" /\ k.at = "next" /\ k.left = j.left \ {p}
      BY <2>1 DEF JobType
    <3>4. jobs' = {k}
      BY <2>1, <3>1 DEF B!Goes
    <3>. HIDE DEF k
    <3>5. \A q \in k.left : q[2] = row'[q[1]]
      <4>. SUFFICES ASSUME NEW q \in k.left PROVE q[2] = row'[q[1]]
        OBVIOUS
      <4>1. q \in Sessions \X Nat /\ q # p /\ q[2] = row[q[1]]
        BY <2>1, <3>3 DEF KnownInv, RecoveryHolds
      <4>2. q[1] # p[1]
        BY <3>2, <4>1
      <4>. QED  BY <3>1, <4>1, <4>2 DEF KnownInv, BrowserTypes
    <3>6. B!BrowsersAreKnown'
      <4>1. \A s \in Sessions \ {p[1]} : row'[s] = row[s]
        BY <3>1 DEF KnownInv, BrowserTypes
      <4>2. \A b \in browsers : \E s \in Sessions : row[s] = b
        BY <2>1 DEF KnownInv, B!BrowsersAreKnown
      <4>. QED  BY <3>1, <3>2, <4>1, <4>2 DEF B!BrowsersAreKnown
    <3>. QED  BY <3>3, <3>4, <3>5, <3>6 DEF Alone, CallHolds, RecoveryHolds
  <2>. QED  BY <1>2, <2>3, <2>4
<1>. QED  BY <1>1, <1>2

\* The part about timers holds for any overlap of calls and any failures.
THEOREM RowsAreTimed == B!Spec => []B!BrowsersEnd
<1>1. B!Init => BrowserTypes /\ B!BrowsersEnd
  BY DEF B!Init, BrowserTypes, B!BrowsersEnd
<1>. QED  BY <1>1, TypesStep, PTL DEF B!Spec

\* Where nothing has overlapped or failed after a step, nothing had before it.
LEMMA OrderlyBefore == ASSUME [B!Next]_(B!vars), browsersOrderly' PROVE browsersOrderly
<1>1. ASSUME NEW s \in Sessions,
             \/ B!open(s) \/ B!ensureCDP(s) \/ B!timerGone(s) \/ B!disconnect(s)
             \/ \E by \in {"tool", "timer", "onConnect"} : B!close(s, by)
      PROVE  browsersOrderly
  BY <1>1 DEF B!open, B!ensureCDP, B!timerGone, B!disconnect, B!close, B!Begins
<1>2. ASSUME NEW j \in jobs, B!create(j) \/ B!connect(j) \/ B!opened(j) \/ B!reconnect(j)
      PROVE  browsersOrderly
  BY <1>2 DEF B!create, B!connect, B!opened, B!reconnect
<1>3. ASSUME NEW j \in jobs, B!saved(j) \/ B!released(j) \/ B!visit(j) \/ B!recovered(j)
      PROVE  browsersOrderly
  BY <1>3 DEF B!saved, B!released, B!visit, B!recovered, B!Released
<1>4. ASSUME \/ B!recover \/ B!evict \/ UNCHANGED B!vars
             \/ \E b \in browsers : B!expire(b)
      PROVE  browsersOrderly
  BY <1>4 DEF B!recover, B!evict, B!vars, B!expire, B!Begins
<1>. QED  BY <1>1, <1>2, <1>3, <1>4 DEF B!Next

\* Such a step keeps every browser known.
LEMMA KnownStep ==
  ASSUME KnownInv, B!BrowsersEnd, [B!Next]_(B!vars), browsersOrderly'
  PROVE  KnownInv'
<1>. SUFFICES (Alone /\ B!BrowsersAreKnown /\ \A j \in jobs : CallHolds(j) /\ RecoveryHolds(j))'
  BY TypesStep DEF KnownInv
<1>1. ASSUME \/ UNCHANGED B!vars
             \/ \E s \in Sessions : B!timerGone(s) \/ B!disconnect(s)
      PROVE  (Alone /\ B!BrowsersAreKnown /\ \A j \in jobs : CallHolds(j) /\ RecoveryHolds(j))'
  <2>1. UNCHANGED <<jobs, row, browsers>>
    BY <1>1 DEF B!vars, B!timerGone, B!disconnect
  <2>. QED  BY <2>1 DEF KnownInv, Alone, B!BrowsersAreKnown, CallHolds, RecoveryHolds
<1>2. ASSUME B!evict \/ \E b \in browsers : B!expire(b)
      PROVE  (Alone /\ B!BrowsersAreKnown /\ \A j \in jobs : CallHolds(j) /\ RecoveryHolds(j))'
  <2>1. UNCHANGED <<jobs, row>> /\ browsers' \subseteq browsers
    BY <1>2 DEF B!evict, B!expire
  <2>. QED  BY <2>1 DEF KnownInv, Alone, B!BrowsersAreKnown, CallHolds, RecoveryHolds
<1>. QED  BY <1>1, <1>2, BeginKnown, CreateKnown, GoKnown, RowKnown, RecoverKnown DEF B!Next

\* A browser that runs is known to a row or to a call, until calls overlap or
\* something fails; and a row has its timers or has lost them by an eviction.
THEOREM BrowsersStayKnown == B!Spec => []BrowsersAccounted
<1> DEFINE CareInv == BrowserTypes /\ B!BrowsersEnd /\ (browsersOrderly => KnownInv)
<1>1. B!Init => CareInv
  BY DEF B!Init, KnownInv, BrowserTypes, Alone, B!BrowsersAreKnown, B!BrowsersEnd
<1>2. CareInv /\ [B!Next]_(B!vars) => CareInv'
  BY TypesStep, OrderlyBefore, KnownStep
<1>3. CareInv => BrowsersAccounted
  BY DEF KnownInv, BrowsersAccounted, B!BrowsersAccounted
<1>. QED  BY <1>1, <1>2, <1>3, PTL DEF B!Spec

-----------------------------------------------------------------------------
(***************************************************************************)
(* Cron, for any length of the hour and the day, any zones that are set    *)
(* back at a full hour within a day or at its end, and any bounds.  That   *)
(* no minute passed matches is inductive: until the next full hour the     *)
(* local hour stays, and until the end of the day, as it was when the skip *)
(* began, the local day.                                                   *)
(***************************************************************************)
LEMMA DivMod ==
  ASSUME NEW n \in Nat \ {0}, NEW x \in Int
  PROVE  x \div n \in Int /\ (x % n) \in 0 .. n - 1 /\ x = n * (x \div n) + (x % n)
OBVIOUS

LEMMA Quotient ==
  ASSUME NEW n \in Nat \ {0}, NEW q \in Int, NEW r \in 0 .. n - 1, NEW x \in Int,
         x = n * q + r
  PROVE  x \div n = q /\ (x % n) = r
<1>1. x \div n \in Int /\ (x % n) \in 0 .. n - 1 /\ x = n * (x \div n) + (x % n)
  BY DivMod
<1> DEFINE p == x \div n
           t == (x % n)
<1>2. p \in Int /\ t \in 0 .. n - 1 /\ n * q + r = n * p + t
  BY <1>1
<1> HIDE DEF p, t
<1>3. n * (q - p) = t - r /\ t - r < n /\ t - r > -n
  BY <1>2
<1>4. p = q
  <2>1. q - p \in Int /\ (q - p >= 1 => n * (q - p) >= n) /\ (q - p <= -1 => n * (q - p) <= -n)
    BY <1>2
  <2>2. QED
    BY <1>2, <1>3, <2>1
<1>5. t = r
  BY <1>2, <1>4
<1>6. QED
  BY <1>4, <1>5 DEF p, t

\* The quotient changes with the next multiple.
LEMMA SameQuotient ==
  ASSUME NEW n \in Nat \ {0}, NEW x \in Int, NEW k \in Nat, k < n - (x % n)
  PROVE  (x + k) \div n = x \div n
<1>1. x \div n \in Int /\ (x % n) \in 0 .. n - 1 /\ x = n * (x \div n) + (x % n)
  BY DivMod
<1> DEFINE q == x \div n
           r == (x % n)
<1>2. q \in Int /\ r + k \in 0 .. n - 1 /\ x + k = n * q + (r + k)
  BY <1>1
<1> HIDE DEF q, r
<1>3. \A b \in 0 .. n - 1 : \A y \in Int : y = n * q + b => y \div n = q
  BY <1>2, Quotient
<1>4. (x + k) \div n = q
  BY <1>2, <1>3
<1>5. QED
  BY <1>4 DEF q

LEMMA BetweenQuotient ==
  ASSUME NEW n \in Nat \ {0}, NEW x \in Int, NEW y \in Int, NEW z \in Int,
         z \div n = x \div n, z <= y, y - x < n - (x % n)
  PROVE  y \div n = x \div n
<1> DEFINE q == x \div n
           r == x % n
           u == z % n
<1>1. q \in Int /\ r \in 0 .. n - 1 /\ x = n * q + r
  BY DivMod
<1>2. u \in 0 .. n - 1 /\ z = n * q + u
  BY DivMod
<1> HIDE DEF q, r, u
<1>3. n * q \in Int /\ y - x < n - r
  BY <1>1 DEF r
<1> DEFINE v == y - (n * q)
<1>4. v \in 0 .. n - 1 /\ y = n * q + v
  BY <1>1, <1>2, <1>3
<1> HIDE DEF v
<1>5. \A b \in 0 .. n - 1 : \A w \in Int : w = n * q + b => w \div n = q
  BY <1>1, Quotient
<1>6. y \div n = q
  BY <1>4, <1>5
<1>7. QED
  BY <1>6 DEF q

\* What computeNext adds for a day is what is left of it.
LEMMA DayAndHour ==
  ASSUME NEW m \in Nat \ {0}, NEW h \in Nat \ {0}, NEW x \in Int
  PROVE  h * m - (x % (h * m)) = (h - 1 - ((x \div m) % h)) * m + (m - (x % m))
<1> DEFINE q == x \div m
           r == (x % m)
           a == q \div h
           s == q % h
<1>1. q \in Int /\ r \in 0 .. m - 1 /\ x = m * q + r
  BY DivMod
<1>2. a \in Int /\ s \in 0 .. h - 1 /\ q = h * a + s
  BY <1>1, DivMod
<1> HIDE DEF q, r, a, s
<1>3. x = (h * m) * a + (s * m + r)
  <2>1. m * (h * a + s) = (h * m) * a + s * m
    BY <1>2
  <2>2. QED
    BY <1>1, <1>2, <2>1
<1>4. s * m + r \in 0 .. h * m - 1 /\ h * m \in Nat \ {0}
  <2>1. s * m <= (h - 1) * m /\ s * m \in Nat /\ (h - 1) * m = h * m - m
    BY <1>2
  <2>2. QED
    BY <1>1, <2>1
<1>5. (x % (h * m)) = s * m + r
  <2>1. \A n \in Nat \ {0} : \A b \in 0 .. n - 1 : x = n * a + b => (x % n) = b
    BY <1>2, Quotient
  <2>2. QED
    BY <1>3, <1>4, <2>1
<1>6. h * m - (s * m + r) = (h - 1 - s) * m + (m - r)
  BY <1>1, <1>2
<1>7. QED
  BY <1>5, <1>6 DEF q, r, s

-----------------------------------------------------------------------------
DayLength == HoursPerDay * MinutesPerHour

SearchInv ==
  /\ zone \in Zones /\ candidate \in Int /\ since \in Int
  /\ C!NoOccurrenceSkipped

LEMMA ZoneFacts ==
  ASSUME C!CronConstants, zone \in Zones
  PROVE  /\ MinutesPerHour \in Nat \ {0} /\ HoursPerDay \in Nat \ {0}
         /\ DayLength \in Nat \ {0}
         /\ zone.before \in Int /\ zone.after \in Int /\ zone.change \in Int
         /\ \/ zone.after = zone.before
            \/ /\ zone.after < zone.before
               /\ (zone.change + zone.before) % MinutesPerHour = 0
               /\ \/ (zone.change + zone.after) \div DayLength
                       = (zone.change + zone.before) \div DayLength
                  \/ (zone.change + zone.before) % DayLength = 0
<1>1. MinutesPerHour \in Nat \ {0} /\ HoursPerDay \in Nat \ {0}
  BY DEF C!CronConstants
<1>2. HoursPerDay * MinutesPerHour \in Nat \ {0}
  BY <1>1
<1>3. QED
  BY <1>1, <1>2 DEF C!CronConstants, DayLength

\* The next multiple of n is n - (x % n) further, or more.
LEMMA NotOver ==
  ASSUME NEW n \in Nat \ {0}, NEW x \in Int, NEW y \in Int, x < y, (y % n) = 0
  PROVE  y - x >= n - (x % n)
<1>1. SUFFICES ASSUME y - x < n - (x % n) PROVE FALSE
  BY DivMod
<1>2. y - x \in Nat /\ y = x + (y - x)
  OBVIOUS
<1>3. y \div n = x \div n
  BY <1>1, <1>2, SameQuotient
<1>4. y = n * (y \div n) /\ x = n * (x \div n) + (x % n) /\ (x % n) >= 0 /\ y \div n \in Int
      /\ (x % n) \in Int
  BY DivMod
<1>5. QED
  BY <1>3, <1>4

\* Until the next full hour the hour is the same.
LEMMA SameHour ==
  ASSUME C!CronConstants, zone \in Zones, NEW t \in Int, NEW k \in Nat,
         k < C!ToNextHour(t)
  PROVE  C!HourOf(t + k) = C!HourOf(t)
<1> USE ZoneFacts
<1> DEFINE m == MinutesPerHour
           x == C!Local(t)
           y == C!Local(t + k)
<1>1. x \in Int /\ y \in Int /\ k < m - (x % m)
  BY DEF C!Local, C!ToNextHour, C!MinuteOf
<1>2. CASE y = x + k
  BY <1>1, <1>2, SameQuotient DEF C!HourOf
<1>3. CASE y # x + k
  <2>1. /\ t < zone.change /\ zone.change <= t + k
        /\ (zone.change + zone.before) % m = 0
        /\ x = t + zone.before
    BY <1>3 DEF C!Local
  <2> DEFINE old == zone.change + zone.before
  <2>2. old \in Int /\ x < old /\ old - x <= k
    BY <1>1, <2>1
  <2>3. old - x >= m - (x % m)
    BY <1>1, <2>1, <2>2, NotOver
  <2>4. (x % m) \in Int /\ m \in Int
    BY <1>1, DivMod
  <2>5. QED
    BY <1>1, <2>2, <2>3, <2>4
<1>4. QED
  BY <1>2, <1>3

\* Until the end of the local day, as it was at the start, the day is the same.
LEMMA SameDay ==
  ASSUME C!CronConstants, zone \in Zones, NEW t \in Int, NEW k \in Nat,
         k < C!ToNextDay(t)
  PROVE  C!DayOf(t + k) = C!DayOf(t)
<1> USE ZoneFacts
<1> DEFINE n == DayLength
           x == C!Local(t)
           y == C!Local(t + k)
<1>1. x \in Int /\ y \in Int
  BY DEF C!Local
<1>2. k < n - (x % n)
  BY <1>1, DayAndHour DEF C!ToNextDay, C!HourOf, C!MinuteOf, DayLength
<1>3. C!DayOf(t) = x \div n /\ C!DayOf(t + k) = y \div n
  BY DEF C!DayOf, DayLength
<1>4. CASE y = x + k
  BY <1>1, <1>2, <1>3, <1>4, SameQuotient
<1>5. CASE y # x + k
  <2> DEFINE old == zone.change + zone.before
             new == zone.change + zone.after
  <2>1. /\ t < zone.change /\ zone.change <= t + k
        /\ new < old /\ (new \div n = old \div n \/ old % n = 0)
        /\ x = t + zone.before /\ y = t + k + zone.after
    BY <1>5 DEF C!Local
  <2>2. /\ old \in Int /\ new \in Int /\ x < old /\ old - x \in Nat /\ old - x <= k
        /\ new <= y /\ y < x + k
    BY <1>1, <2>1
  <2> HIDE DEF old, new, x, y, n
  <2>3. n \in Nat \ {0} /\ (x % n) \in 0 .. n - 1
    BY <1>1, DivMod DEF n
  <2>4. old % n # 0
    <3>1. old - x < n - (x % n)
      BY <1>2, <2>2, <2>3
    <3>2. old % n = 0 => old - x >= n - (x % n)
      BY <1>1, <2>2, <2>3, NotOver
    <3>3. QED
      BY <1>1, <2>2, <2>3, <3>1, <3>2
  <2>5. old \div n = x \div n
    <3>1. old = x + (old - x) /\ old - x < n - (x % n)
      BY <1>1, <1>2, <2>2, <2>3
    <3>2. QED
      BY <1>1, <2>2, <2>3, <3>1, SameQuotient
  <2>6. new \div n = x \div n
    BY <2>1, <2>4, <2>5
  <2>7. y \div n = x \div n
    <3>1. y - x < n - (x % n)
      BY <1>1, <1>2, <2>2, <2>3
    <3>2. QED
      BY <1>1, <2>2, <2>3, <2>6, <3>1, BetweenQuotient
  <2>8. QED
    BY <1>3, <2>7 DEF x, y, n
<1>6. QED
  BY <1>4, <1>5

\* A skip leaves nothing out when no minute it passes matches.
LEMMA Passed ==
  ASSUME SearchInv, NEW n \in Int, C!Advance(n),
         \A k \in Nat : k < n => ~ C!Matches(candidate + k)
  PROVE  SearchInv'
<1>1. candidate' = candidate + n /\ UNCHANGED <<expr, zone, since>>
  BY DEF C!Advance
<1>2. ASSUME NEW t \in since' + 1 .. candidate' - 1 PROVE ~ C!Matches(t)
  <2>1. t \in Int /\ t < candidate + n /\ t >= since + 1
    BY <1>1 DEF SearchInv
  <2>2. CASE t < candidate
    BY <2>1, <2>2 DEF SearchInv, C!NoOccurrenceSkipped
  <2>3. CASE t >= candidate
    <3>1. t - candidate \in Nat /\ t - candidate < n /\ candidate + (t - candidate) = t
      BY <2>1, <2>3 DEF SearchInv
    <3>2. QED
      BY <3>1
  <2>4. QED
    BY <2>1, <2>2, <2>3 DEF SearchInv
<1>3. \A t : C!Matches(t)' = C!Matches(t)
  BY <1>1 DEF C!Matches, C!DayOf, C!HourOf, C!MinuteOf, C!Local
<1>4. QED
  BY <1>1, <1>2, <1>3 DEF SearchInv, C!NoOccurrenceSkipped

LEMMA SearchStep ==
  ASSUME C!CronConstants, SearchInv, [C!Next]_(C!vars) PROVE SearchInv'
<1> USE ZoneFacts
<1>1. zone \in Zones /\ candidate \in Int
  BY DEF SearchInv
<1>2. CASE C!skipDay
  <2>1. C!ToNextDay(candidate) \in Int
    BY <1>1 DEF C!ToNextDay, C!HourOf, C!MinuteOf, C!Local
  <2>2. ASSUME NEW k \in Nat, k < C!ToNextDay(candidate)
        PROVE  ~ C!Matches(candidate + k)
    BY <1>1, <1>2, <2>2, SameDay DEF C!skipDay, C!Matches
  <2>3. QED
    BY <1>2, <2>1, <2>2, Passed DEF C!skipDay
<1>3. CASE C!skipHour
  <2>1. C!ToNextHour(candidate) \in Int
    BY <1>1 DEF C!ToNextHour, C!MinuteOf, C!Local
  <2>2. ASSUME NEW k \in Nat, k < C!ToNextHour(candidate)
        PROVE  ~ C!Matches(candidate + k)
    BY <1>1, <1>3, <2>2, SameHour DEF C!skipHour, C!Matches
  <2>3. QED
    BY <1>3, <2>1, <2>2, Passed DEF C!skipHour
<1>4. CASE C!skipMinute
  <2>1. ASSUME NEW k \in Nat, k < 1 PROVE ~ C!Matches(candidate + k)
    <3>1. candidate + k = candidate
      BY <1>1, <2>1
    <3>2. QED
      BY <1>4, <3>1 DEF C!skipMinute, C!Matches
  <2>2. QED
    BY <1>4, <2>1, Passed DEF C!skipMinute
<1>5. ASSUME UNCHANGED <<expr, zone, since, candidate>> PROVE SearchInv'
  BY <1>5 DEF SearchInv, C!NoOccurrenceSkipped, C!Matches, C!DayOf, C!HourOf,
              C!MinuteOf, C!Local
<1>6. QED
  BY <1>2, <1>3, <1>4, <1>5 DEF C!Next, C!return, C!throw, C!vars

(***************************************************************************)
(* The search for the next fire time passes no minute that matches: what   *)
(* it returns is the first one after `from`, in a zone whose clock is set  *)
(* back, if at all, at a full hour and not across midnight.                *)
(***************************************************************************)
THEOREM NextIsFirst == ASSUME C!CronConstants PROVE C!Spec => []NoOccurrenceSkipped
<1>1. C!Init => SearchInv
  BY DEF C!Init, SearchInv, C!NoOccurrenceSkipped
<1>2. SearchInv /\ [C!Next]_(C!vars) => SearchInv'
  BY SearchStep
<1>3. SearchInv => NoOccurrenceSkipped
  BY DEF SearchInv, NoOccurrenceSkipped
<1>4. QED
  BY <1>1, <1>2, <1>3, PTL DEF C!Spec

-----------------------------------------------------------------------------
(***************************************************************************)
(* One skill, for any calls and any overlap of them. The two halves of     *)
(* SkillsKept need an invariant each: what a call under way has yet to     *)
(* write while calls do not overlap (LoadInv), and which version a call to *)
(* the registry knows while these come one at a time (VersionInv).         *)
(***************************************************************************)

SkillRow == [enabled : BOOLEAN, origin : {"none", "registry", "agent"},
             version : Nat, dirty : BOOLEAN]
Hooks == K!AtRegistry \cup
         {"idle", "edited", "read", "deleted", "drop", "dropped"}
HeldBy == [v : Nat, on : BOOLEAN, row : SkillRow]

SkillTypes ==
  /\ published \in Nat /\ conflict \in Nat /\ skillFile \in Nat
  /\ skill \in SkillRow
  /\ hook \in [K!Callers -> Hooks] /\ held \in [K!Callers -> HeldBy]
  /\ {skillsOrderly, clean} \subseteq BOOLEAN

\* A call goes to a place and holds on to something; the others stay.
LEMMA CallGoes ==
  ASSUME SkillTypes, NEW a \in K!Callers, NEW where \in Hooks, K!Goes(a, where)
  PROVE  /\ hook' \in [K!Callers -> Hooks]
         /\ hook'[a] = where
         /\ \A b \in K!Callers : b # a => hook'[b] = hook[b]
BY DEF SkillTypes, K!Goes

LEMMA HookHolds ==
  ASSUME SkillTypes, NEW a \in K!Callers, NEW h \in HeldBy, K!Holds(a, h)
  PROVE  /\ held' \in [K!Callers -> HeldBy]
         /\ held'[a] = h
         /\ \A b \in K!Callers : b # a => held'[b] = held[b]
BY DEF SkillTypes, K!Holds

LEMMA NothingHeld == K!Nothing \in HeldBy /\ K!NoRow \in SkillRow
BY DEF K!Nothing, K!NoRow, HeldBy, SkillRow

\* The ways in which a synchronisation goes on with the registry's answer.
LEMMA SyncGoesOn ==
  ASSUME SkillTypes, K!SkillConstants,
         NEW a \in Syncs, NEW lacks \in BOOLEAN, K!asked(a, lacks)
  PROVE  LET v == held[a].v
             on == declared = "on"
         IN  \/ /\ K!Ends(a) /\ UNCHANGED <<conflict, skillFile>>
                /\ \/ skill' = skill
                   \/ v # 0 /\ lacks /\ skill' = K!Fresh(v, FALSE)
                   \/ v # 0 /\ held[a].row = K!NoRow /\ ~on /\ skill' = K!Fresh(v, on)
                   \/ ~on /\ skill' = [skill EXCEPT !.enabled = FALSE]
                   \/ skill.enabled = on /\ skill' = [skill EXCEPT !.enabled = on]
                   \/ /\ v # 0 /\ skill.origin = "registry" /\ ~skill.dirty /\ ~on
                      /\ skill' = [skill EXCEPT !.version = v, !.enabled = on]
             \/ /\ K!Ends(a) /\ UNCHANGED <<skill, skillFile>>
                /\ v # 0 /\ skill.origin = "registry" /\ skill.dirty
                /\ skill.version # v /\ conflict' = v
             \/ /\ K!Waits(a, "rewrite", held[a]) /\ UNCHANGED <<conflict, skillFile>>
                /\ v # 0 /\ skill.origin = "registry"
                /\ skill' = [skill EXCEPT !.enabled = TRUE]
             \/ \E r \in SkillRow :
                  /\ K!Waits(a, "write", [held[a] EXCEPT !.row = r])
                  /\ UNCHANGED <<skill, conflict, skillFile>>
                  /\ v # 0 /\ r.origin = "registry" /\ r.version = v /\ ~r.dirty
                  /\ \/ held[a].row = K!NoRow
                     \/ skill.origin = "registry" /\ ~skill.dirty
<1>1. a \in K!Callers /\ held[a] \in HeldBy
  BY DEF SkillTypes, K!Callers
<1>2. held[a].v \in Nat /\ held[a].row \in SkillRow
  BY <1>1 DEF HeldBy
<1>3. \A on \in BOOLEAN : K!Fresh(held[a].v, on) \in SkillRow
  BY <1>2 DEF K!Fresh, SkillRow
<1>4. \A on \in BOOLEAN :
        [skill EXCEPT !.version = held[a].v, !.enabled = on] \in SkillRow
  BY <1>2 DEF SkillTypes, SkillRow
<1> DEFINE v == held[a].v
           on == declared = "on"
<1>5. CASE v = 0
  BY <1>5, <1>2 DEF K!asked
<1>9. CASE v # 0 /\ lacks
  <2>1. /\ skill' = K!Fresh(v, FALSE) /\ K!Ends(a)
        /\ UNCHANGED <<conflict, skillFile>>
    BY <1>9 DEF K!asked
  <2>2. QED
    BY <1>9, <2>1
<1>6. CASE v # 0 /\ ~lacks /\ held[a].row = K!NoRow
  BY <1>2, <1>3, <1>6 DEF K!asked, K!Wanted, K!stored, K!Fresh
<1>7. CASE v # 0 /\ ~lacks /\ held[a].row # K!NoRow
  <2>1. CASE skill.origin # "registry"
    BY <1>2, <1>7, <2>1 DEF K!asked
  <2>2. CASE skill.origin = "registry" /\ skill.version = v
    BY <1>2, <1>7, <2>2 DEF K!asked, K!Wanted
  <2>3. CASE skill.origin = "registry" /\ skill.version # v /\ skill.dirty
    BY <1>2, <1>7, <2>3 DEF K!asked
  <2>4. CASE skill.origin = "registry" /\ skill.version # v /\ ~skill.dirty
    BY <1>2, <1>4, <1>7, <2>4 DEF K!asked, K!Wanted, K!stored, SkillTypes, SkillRow
  <2>5. QED
    BY <1>7, <2>1, <2>2, <2>3, <2>4
<1>8. QED
  BY <1>2, <1>5, <1>6, <1>7, <1>9

\* What of the step of a call is not about the skill.
CallTypes(a) ==
  /\ hook' \in [K!Callers -> Hooks] /\ held' \in [K!Callers -> HeldBy]
  /\ skillsOrderly' \in BOOLEAN

LEMMA BeginsTypes ==
  ASSUME SkillTypes, NEW a \in K!Callers, NEW where \in Hooks, NEW h \in HeldBy,
         K!Begins(a, where, h)
  PROVE  CallTypes(a)
BY CallGoes, HookHolds DEF K!Begins, CallTypes, SkillTypes

LEMMA WaitsTypes ==
  ASSUME SkillTypes, NEW a \in K!Callers, NEW where \in Hooks, NEW h \in HeldBy,
         K!Waits(a, where, h)
  PROVE  CallTypes(a)
BY CallGoes, HookHolds DEF K!Waits, CallTypes, SkillTypes

LEMMA EndsTypes ==
  ASSUME SkillTypes, NEW a \in K!Callers, K!Ends(a) \/ K!Leaves(a)
  PROVE  CallTypes(a)
<1>1. "idle" \in Hooks
  BY DEF Hooks
<1>2. QED
  BY <1>1, CallGoes, HookHolds, NothingHeld
     DEF K!Ends, K!Leaves, CallTypes, SkillTypes

LEMMA SkillTypesStep ==
  ASSUME SkillTypes, K!SkillConstants, [K!Next]_(K!vars)
  PROVE  SkillTypes'
<1> DEFINE Kept == /\ published' \in Nat /\ conflict' \in Nat /\ skillFile' \in Nat
                   /\ skill' \in SkillRow /\ clean' \in BOOLEAN
<1> USE DEF Hooks, K!AtRegistry
<1>0. ASSUME NEW a \in K!Callers, CallTypes(a), Kept PROVE SkillTypes'
  BY <1>0 DEF CallTypes, SkillTypes
<1> HIDE DEF Kept
<1>h. ASSUME NEW a \in K!Callers
      PROVE  /\ held[a] \in HeldBy /\ held[a].v \in Nat /\ held[a].row \in SkillRow
             /\ held[a].on \in BOOLEAN
  BY DEF SkillTypes, HeldBy
<1>f. \A v \in Nat, on \in BOOLEAN : K!Fresh(v, on) \in SkillRow
  BY DEF K!Fresh, SkillRow
<1>r. ASSUME NEW a \in K!Callers, NEW v \in Nat, NEW r \in SkillRow
      PROVE  [held[a] EXCEPT !.v = v] \in HeldBy /\ [held[a] EXCEPT !.row = r] \in HeldBy
  BY <1>h DEF HeldBy
<1>n. /\ [K!Nothing EXCEPT !.row = skill] \in HeldBy
      /\ \A on \in BOOLEAN : [K!Nothing EXCEPT !.on = on] \in HeldBy
      /\ K!Nothing \in HeldBy
  BY NothingHeld DEF SkillTypes, HeldBy
<1>s. /\ \A v \in Nat : [skill EXCEPT !.version = v, !.dirty = FALSE] \in SkillRow
      /\ \A v \in Nat, on \in BOOLEAN :
           [skill EXCEPT !.version = v, !.enabled = on] \in SkillRow
      /\ \A d \in BOOLEAN : [skill EXCEPT !.dirty = d] \in SkillRow
      /\ \A d \in BOOLEAN : [skill EXCEPT !.enabled = d] \in SkillRow
      /\ [K!NoRow EXCEPT !.enabled = TRUE, !.origin = "agent"] \in SkillRow
  BY DEF SkillTypes, SkillRow, K!NoRow
<1>c. Syncs \subseteq K!Callers /\ Tools \subseteq K!Callers /\ Requests \subseteq K!Callers
  BY DEF K!Callers
<1>1. ASSUME NEW a \in Syncs, K!sync(a) PROVE SkillTypes'
  <2>1. Kept
    BY <1>1 DEF K!sync, K!AsksAlone, K!stored, K!world, SkillTypes, Kept
  <2>2. QED
    BY <1>0, <1>1, <1>c, <1>n, <2>1, BeginsTypes DEF K!sync
<1>2. ASSUME NEW a \in Syncs, NEW lacks \in BOOLEAN, K!asked(a, lacks)
      PROVE  SkillTypes'
  <2>1. clean' \in BOOLEAN /\ published' \in Nat
    BY <1>2 DEF K!asked, K!world, SkillTypes
  <2>2. Kept /\ CallTypes(a)
    BY <1>2, <1>c, <1>h, <1>f, <1>r, <1>s, <2>1, SyncGoesOn, EndsTypes, WaitsTypes
       DEF SkillTypes, Kept
  <2>3. QED
    BY <1>0, <1>c, <2>2
<1>3. ASSUME NEW a \in Requests, NEW on \in BOOLEAN, K!install(a, on)
      PROVE  SkillTypes'
  <2>1. Kept
    BY <1>3 DEF K!install, K!AsksAlone, K!stored, K!world, SkillTypes, Kept
  <2>2. QED
    BY <1>0, <1>3, <1>c, <1>n, <2>1, BeginsTypes DEF K!install
<1>4. ASSUME NEW a \in Requests, K!installing(a) PROVE SkillTypes'
  <2>1. Kept
    BY <1>4, <1>c, <1>h, <1>f
       DEF K!installing, K!Waits, K!stored, K!world, SkillTypes, Kept
  <2>2. CallTypes(a)
    BY <1>4, <1>c, <1>h, <1>f, <1>r, EndsTypes, WaitsTypes DEF K!installing
  <2>3. QED
    BY <1>0, <1>c, <2>1, <2>2
<1>5. ASSUME NEW a \in Requests, K!uninstall(a) PROVE SkillTypes'
  <2>1. Kept
    BY <1>5 DEF K!uninstall, K!stored, K!world, SkillTypes, Kept
  <2>2. CallTypes(a)
    BY <1>5, <1>c, <1>n, BeginsTypes DEF K!uninstall
  <2>3. QED
    BY <1>0, <1>c, <2>1, <2>2
<1>6. ASSUME NEW a \in Requests, K!drop(a) PROVE SkillTypes'
  <2>1. Kept
    BY <1>6 DEF K!drop, K!world, SkillTypes, Kept
  <2>2. QED
    BY <1>0, <1>6, <1>c, <1>h, <2>1, WaitsTypes DEF K!drop
<1>7. ASSUME NEW a \in Requests, K!dropped(a) PROVE SkillTypes'
  <2>1. Kept
    BY <1>7, NothingHeld DEF K!dropped, K!world, SkillTypes, Kept
  <2>2. QED
    BY <1>0, <1>7, <1>c, <2>1, EndsTypes DEF K!dropped
<1>8. ASSUME NEW a \in Syncs \cup Requests, K!ask(a) PROVE SkillTypes'
  <2>1. Kept
    BY <1>8 DEF K!ask, K!stored, K!world, SkillTypes, Kept
  <2>2. CallTypes(a)
    BY <1>8, <1>c, <1>r, WaitsTypes DEF K!ask, SkillTypes
  <2>3. QED
    BY <1>0, <1>c, <2>1, <2>2
<1>9. ASSUME NEW a \in Syncs \cup Requests, K!write(a) PROVE SkillTypes'
  <2>1. Kept
    BY <1>9, <1>c, <1>h DEF K!write, K!world, SkillTypes, Kept
  <2>2. CallTypes(a)
    BY <1>9, <1>c, <1>h, WaitsTypes DEF K!write
  <2>3. QED
    BY <1>0, <1>c, <2>1, <2>2
<1>10. ASSUME NEW a \in Syncs \cup Requests, K!written(a) PROVE SkillTypes'
  <2>1. Kept
    BY <1>10, <1>c, <1>h DEF K!written, K!world, SkillTypes, Kept
  <2>2. QED
    BY <1>0, <1>10, <1>c, <2>1, EndsTypes DEF K!written
<1>11. ASSUME NEW a \in Tools, NEW text \in {0, published} \cup K!Edits,
              K!edit(a, text)
       PROVE  SkillTypes'
  <2>1. text \in Nat
    BY DEF K!Edits, K!SkillConstants, SkillTypes
  <2>2. Kept
    BY <1>11, <2>1 DEF K!edit, K!world, SkillTypes, Kept
  <2>3. CallTypes(a)
    BY <1>11, <1>c, <1>n, BeginsTypes DEF K!edit
  <2>4. QED
    BY <1>0, <1>c, <2>2, <2>3
<1>12. ASSUME NEW a \in Tools, K!edited(a) PROVE SkillTypes'
  <2>1. Kept
    BY <1>12 DEF K!edited, K!stored, K!world, SkillTypes, Kept
  <2>2. CallTypes(a)
    BY <1>12, <1>c, <1>r, WaitsTypes DEF K!edited, SkillTypes
  <2>3. QED
    BY <1>0, <1>c, <2>1, <2>2
<1>13. ASSUME NEW a \in Tools, K!handleWrite(a) PROVE SkillTypes'
  <2>1. skill' \in SkillRow
    BY <1>13, <1>s DEF K!handleWrite, SkillTypes
  <2>2. Kept
    BY <1>13, <2>1 DEF K!handleWrite, K!world, SkillTypes, Kept
  <2>3. QED
    BY <1>0, <1>13, <1>c, <2>2, EndsTypes DEF K!handleWrite
<1>14. ASSUME NEW a \in Tools, K!handleDelete(a) PROVE SkillTypes'
  <2>1. Kept
    BY <1>14, <1>s, NothingHeld DEF K!handleDelete, K!world, SkillTypes, Kept
  <2>2. QED
    BY <1>0, <1>14, <1>c, <2>1, EndsTypes DEF K!handleDelete
<1>15. ASSUME NEW a \in K!Callers, K!fails(a) PROVE SkillTypes'
  <2>1. Kept
    BY <1>15 DEF K!fails, K!stored, K!world, SkillTypes, Kept
  <2>2. CallTypes(a)
    BY <1>15, CallGoes, HookHolds, NothingHeld DEF K!fails, CallTypes, SkillTypes
  <2>3. QED
    BY <1>0, <2>1, <2>2
<1>16. CASE K!publish
  BY <1>16 DEF K!publish, K!stored, SkillTypes
<1>17. CASE K!ensureAgent \/ K!agentEnd \/ UNCHANGED K!vars
  BY <1>17 DEF K!ensureAgent, K!agentEnd, K!vars, K!stored, SkillTypes
<1>18. QED
  BY <1>1, <1>2, <1>3, <1>4, <1>5, <1>6, <1>7, <1>8, <1>9, <1>10, <1>11, <1>12,
     <1>13, <1>14, <1>15, <1>16, <1>17 DEF K!Next

\* Until calls overlap, what the one call under way has yet to do to the row or the
\* file of a skill that is enabled and has none.
Unfinished == {"deleted", "dropped", "rewrite"}
OneAtATime == \A a, b \in K!Callers : hook[a] # "idle" /\ hook[b] # "idle" => a = b
CallFiles(a) ==
  /\ hook[a] \in {"write", "rewrite"} => held[a].v # 0
  /\ hook[a] \in {"written", "over", "edited", "read"} => skillFile # 0
LoadInv ==
  skillsOrderly =>
    /\ OneAtATime
    /\ K!Loadable \/ \E a \in K!Callers : hook[a] \in Unfinished
    /\ \A a \in K!Callers : CallFiles(a)

\* The step of the one call under way: it goes on and leaves a skill that is
\* enabled its file, or goes on to where it will.
LEMMA OneGoesOn ==
  ASSUME SkillTypes, skillsOrderly => OneAtATime, NEW a \in K!Callers,
         hook[a] # "idle", skillsOrderly,
         \A b \in K!Callers : b # a => hook'[b] = hook[b],
         K!Loadable' \/ hook'[a] \in Unfinished, CallFiles(a)'
  PROVE  LoadInv'
<1>1. \A b \in K!Callers : b # a => hook'[b] = "idle"
  BY DEF OneAtATime
<1>2. \A b \in K!Callers : CallFiles(b)'
  BY <1>1 DEF CallFiles
<1>3. OneAtATime'
  BY <1>1 DEF OneAtATime
<1>4. (\E b \in K!Callers : hook[b] \in Unfinished)' \/ K!Loadable'
  OBVIOUS
<1>5. QED
  BY <1>2, <1>3, <1>4 DEF LoadInv

LEMMA OneBegins ==
  ASSUME SkillTypes, NEW a \in K!Callers, NEW where \in Hooks, NEW h \in HeldBy,
         K!Begins(a, where, h), K!Loadable' \/ where \in Unfinished,
         where \notin {"write", "rewrite", "written", "over", "read"},
         where = "edited" => skillFile' # 0
  PROVE  LoadInv'
<1>1. /\ hook'[a] = where /\ \A b \in K!Callers : b # a => hook'[b] = hook[b]
      /\ skillsOrderly' = (skillsOrderly /\ \A b \in K!Callers : hook[b] = "idle")
  BY CallGoes DEF K!Begins
<1>2. SUFFICES ASSUME \A b \in K!Callers : hook[b] = "idle" PROVE LoadInv'
  BY <1>1 DEF LoadInv
<1>3. \A b \in K!Callers : CallFiles(b)'
  BY <1>1, <1>2 DEF CallFiles
<1>4. OneAtATime'
  BY <1>1, <1>2 DEF OneAtATime
<1>5. K!Loadable' \/ (\E b \in K!Callers : hook[b] \in Unfinished)'
  BY <1>1
<1>6. QED
  BY <1>3, <1>4, <1>5 DEF LoadInv

LEMMA LoadStep ==
  ASSUME SkillTypes, LoadInv, K!SkillConstants, [K!Next]_(K!vars)
  PROVE  LoadInv'
<1> USE DEF Hooks, K!AtRegistry, Unfinished
<1>c. Syncs \subseteq K!Callers /\ Tools \subseteq K!Callers /\ Requests \subseteq K!Callers
  BY DEF K!Callers
<1>h. ASSUME NEW a \in K!Callers
      PROVE  /\ held[a] \in HeldBy /\ held[a].v \in Nat /\ held[a].row \in SkillRow
             /\ hook[a] \in Hooks
  BY DEF SkillTypes, HeldBy
<1>n. /\ [K!Nothing EXCEPT !.row = skill] \in HeldBy
      /\ \A on \in BOOLEAN : [K!Nothing EXCEPT !.on = on] \in HeldBy
      /\ K!Nothing \in HeldBy
  BY NothingHeld DEF SkillTypes, HeldBy
<1>v. ASSUME NEW a \in K!Callers, NEW v \in Nat, NEW r \in SkillRow
      PROVE  /\ [held[a] EXCEPT !.v = v] \in HeldBy /\ [held[a] EXCEPT !.row = r] \in HeldBy
             /\ [held[a] EXCEPT !.row = r].v = held[a].v
             /\ [held[a] EXCEPT !.v = v].v = v
  BY <1>h DEF HeldBy
<1>o. ASSUME skillsOrderly, NEW a \in K!Callers, hook[a] # "idle"
      PROVE  /\ K!Loadable \/ hook[a] \in Unfinished
             /\ CallFiles(a) /\ OneAtATime
  BY <1>o DEF LoadInv, OneAtATime
<1>w. ASSUME NEW a \in K!Callers, NEW where \in Hooks, NEW h \in HeldBy,
             K!Waits(a, where, h)
      PROVE  /\ hook'[a] = where /\ held'[a] = h /\ skillsOrderly' = skillsOrderly
             /\ \A b \in K!Callers : b # a => hook'[b] = hook[b]
  BY <1>w, CallGoes, HookHolds DEF K!Waits
<1>e. ASSUME NEW a \in K!Callers, K!Ends(a) \/ K!Leaves(a)
      PROVE  /\ hook'[a] = "idle" /\ skillsOrderly' = skillsOrderly
             /\ \A b \in K!Callers : b # a => hook'[b] = hook[b]
  BY <1>e, CallGoes DEF K!Ends, K!Leaves
<1>q. ASSUME NEW a \in K!Callers, hook[a] # "idle", skillsOrderly' = skillsOrderly,
             \A b \in K!Callers : b # a => hook'[b] = hook[b],
             skillsOrderly => (K!Loadable' \/ hook'[a] \in Unfinished) /\ CallFiles(a)'
      PROVE  LoadInv'
  <2>1. CASE skillsOrderly
    BY <1>q, <1>o, <2>1, OneGoesOn
  <2>2. CASE ~skillsOrderly
    BY <1>q, <2>2 DEF LoadInv
  <2>3. QED
    BY <2>1, <2>2
<1>1. ASSUME NEW a \in Syncs, K!sync(a) PROVE LoadInv'
  <2>1. CASE K!Loadable
    BY <1>1, <1>c, <1>n, <2>1, OneBegins DEF K!sync, K!stored, K!Loadable
  <2>2. CASE ~K!Loadable
    <3>1. K!Begins(a, "ask", [K!Nothing EXCEPT !.row = skill])
      BY <1>1 DEF K!sync
    <3>2. ~skillsOrderly'
      BY <2>2, <3>1 DEF K!Begins, LoadInv
    <3>3. QED
      BY <3>2 DEF LoadInv
  <2>3. QED
    BY <2>1, <2>2
<1>2. ASSUME NEW a \in Syncs, NEW lacks \in BOOLEAN, K!asked(a, lacks)
      PROVE  LoadInv'
  <2>1. hook[a] = "asked" /\ a \in K!Callers
    BY <1>2, <1>c DEF K!asked
  <2>2. CASE K!Ends(a) /\ UNCHANGED skillFile
             /\ (skill' = skill \/ ~skill'.enabled \/ skill'.enabled = skill.enabled)
    <3>1. hook'[a] = "idle" /\ skillsOrderly' = skillsOrderly
          /\ \A b \in K!Callers : b # a => hook'[b] = hook[b]
      BY <1>e, <2>1, <2>2
    <3>2. CallFiles(a)'
      BY <3>1 DEF CallFiles
    <3>3. skillsOrderly => K!Loadable'
      BY <1>o, <2>1, <2>2 DEF K!Loadable
    <3>4. QED
      BY <1>q, <2>1, <3>1, <3>2, <3>3
  <2>3. CASE K!Waits(a, "rewrite", held[a]) /\ held[a].v # 0
    <3>1. hook'[a] = "rewrite" /\ held'[a] = held[a] /\ skillsOrderly' = skillsOrderly
          /\ \A b \in K!Callers : b # a => hook'[b] = hook[b]
      BY <1>w, <1>h, <2>1, <2>3
    <3>2. CallFiles(a)'
      BY <3>1, <2>3 DEF CallFiles
    <3>3. QED
      BY <1>q, <2>1, <3>1, <3>2
  <2>4. ASSUME NEW r \in SkillRow, K!Waits(a, "write", [held[a] EXCEPT !.row = r]),
               UNCHANGED <<skill, skillFile>>, held[a].v # 0
        PROVE  LoadInv'
    <3> DEFINE h == [held[a] EXCEPT !.row = r]
    <3>5. h \in HeldBy /\ h.v = held[a].v
      BY <1>h, <2>1 DEF HeldBy
    <3> HIDE DEF h
    <3>6. K!Waits(a, "write", h)
      BY <2>4 DEF h
    <3>1. hook'[a] = "write" /\ held'[a].v = held[a].v /\ skillsOrderly' = skillsOrderly
          /\ \A b \in K!Callers : b # a => hook'[b] = hook[b]
      BY <1>w, <2>1, <3>5, <3>6
    <3>2. CallFiles(a)'
      BY <3>1, <2>4 DEF CallFiles
    <3>3. skillsOrderly => K!Loadable'
      BY <1>o, <2>1, <2>4 DEF K!Loadable
    <3>4. QED
      BY <1>q, <2>1, <3>1, <3>2, <3>3
  <2>5. /\ ~K!Fresh(held[a].v, FALSE).enabled
        /\ [skill EXCEPT !.enabled = FALSE].enabled = FALSE
        /\ \A on : K!Fresh(held[a].v, on).enabled = on
        /\ \A on : [skill EXCEPT !.enabled = on].enabled = on
        /\ \A v, on : [skill EXCEPT !.version = v, !.enabled = on].enabled = on
    BY DEF K!Fresh, SkillTypes, SkillRow
  <2>6. QED
    BY <1>2, <2>2, <2>3, <2>4, <2>5, SyncGoesOn
<1>3. ASSUME NEW a \in Requests, NEW on \in BOOLEAN, K!install(a, on)
      PROVE  LoadInv'
  <2>1. K!Loadable'
    BY <1>3 DEF K!install, K!stored, K!Loadable, K!NoRow
  <2>2. QED
    BY <1>3, <1>c, <1>n, <2>1, OneBegins DEF K!install
<1>4. ASSUME NEW a \in Requests, K!installing(a) PROVE LoadInv'
  <2>1. hook[a] = "asked" /\ a \in K!Callers /\ UNCHANGED skillFile
    BY <1>4, <1>c DEF K!installing, K!stored
  <2>2. CASE (K!Ends(a) \/ K!Leaves(a)) /\ (skill' = skill \/ ~skill'.enabled)
    <3>1. hook'[a] = "idle" /\ skillsOrderly' = skillsOrderly
          /\ \A b \in K!Callers : b # a => hook'[b] = hook[b]
      BY <1>e, <2>1, <2>2
    <3>2. CallFiles(a)'
      BY <3>1 DEF CallFiles
    <3>3. skillsOrderly => K!Loadable'
      BY <1>o, <2>1, <2>2 DEF K!Loadable
    <3>4. QED
      BY <1>q, <2>1, <3>1, <3>2, <3>3
  <2>3. ASSUME NEW r \in SkillRow, K!Waits(a, "write", [held[a] EXCEPT !.row = r]),
               skill' = skill, held[a].v # 0
        PROVE  LoadInv'
    <3> DEFINE h == [held[a] EXCEPT !.row = r]
    <3>5. h \in HeldBy /\ h.v = held[a].v
      BY <1>h, <2>1 DEF HeldBy
    <3> HIDE DEF h
    <3>6. K!Waits(a, "write", h)
      BY <2>3 DEF h
    <3>1. hook'[a] = "write" /\ held'[a].v = held[a].v /\ skillsOrderly' = skillsOrderly
          /\ \A b \in K!Callers : b # a => hook'[b] = hook[b]
      BY <1>w, <2>1, <3>5, <3>6
    <3>2. CallFiles(a)'
      BY <3>1, <2>3 DEF CallFiles
    <3>3. skillsOrderly => K!Loadable'
      BY <1>o, <2>1, <2>3 DEF K!Loadable
    <3>4. QED
      BY <1>q, <2>1, <3>1, <3>2, <3>3
  <2>4. K!Fresh(held[a].v, held[a].on) \in SkillRow
        /\ K!Fresh(held[a].v, held[a].on).enabled = held[a].on
    BY <1>h, <2>1 DEF K!Fresh, SkillRow, HeldBy
  <2>5. QED
    BY <1>4, <1>h, <2>1, <2>2, <2>3, <2>4 DEF K!installing, K!stored
<1>5. ASSUME NEW a \in Requests, K!uninstall(a) PROVE LoadInv'
  <2>1. K!Begins(a, IF skill.enabled THEN "drop" ELSE "dropped", K!Nothing)
        /\ UNCHANGED <<skill, skillFile>>
    BY <1>5 DEF K!uninstall, K!stored
  <2>2. CASE K!Loadable \/ ~skill.enabled
    BY <1>c, <1>n, <2>1, <2>2, OneBegins DEF K!Loadable
  <2>3. CASE ~K!Loadable
    <3>1. ~skillsOrderly'
      BY <2>1, <2>3 DEF K!Begins, LoadInv
    <3>2. QED
      BY <3>1 DEF LoadInv
  <2>4. QED
    BY <2>2, <2>3
<1>6. ASSUME NEW a \in Requests, K!drop(a) PROVE LoadInv'
  <2>1. hook[a] = "drop" /\ a \in K!Callers /\ K!Waits(a, "dropped", held[a])
    BY <1>6, <1>c DEF K!drop
  <2>2. hook'[a] = "dropped" /\ skillsOrderly' = skillsOrderly
        /\ \A b \in K!Callers : b # a => hook'[b] = hook[b]
    BY <1>w, <1>h, <2>1
  <2>3. QED
    BY <1>q, <2>1, <2>2 DEF CallFiles
<1>7. ASSUME NEW a \in Requests, K!dropped(a) PROVE LoadInv'
  <2>1. hook[a] = "dropped" /\ a \in K!Callers /\ K!Ends(a) /\ ~skill'.enabled
    BY <1>7, <1>c DEF K!dropped, K!NoRow
  <2>2. hook'[a] = "idle" /\ skillsOrderly' = skillsOrderly
        /\ \A b \in K!Callers : b # a => hook'[b] = hook[b]
    BY <1>e, <2>1
  <2>3. QED
    BY <1>q, <2>1, <2>2 DEF CallFiles, K!Loadable
<1>8. ASSUME NEW a \in Syncs \cup Requests, K!ask(a) PROVE LoadInv'
  <2>1. hook[a] = "ask" /\ a \in K!Callers /\ UNCHANGED <<skill, skillFile>>
        /\ \E v \in Nat : K!Waits(a, "asked", [held[a] EXCEPT !.v = v])
    BY <1>8, <1>c DEF K!ask, K!stored, SkillTypes
  <2>2. hook'[a] = "asked" /\ skillsOrderly' = skillsOrderly
        /\ \A b \in K!Callers : b # a => hook'[b] = hook[b]
    BY <1>w, <1>v, <1>h, <2>1
  <2>3. skillsOrderly => K!Loadable'
    BY <1>o, <2>1 DEF K!Loadable
  <2>4. QED
    BY <1>q, <2>1, <2>2, <2>3 DEF CallFiles
<1>9. ASSUME NEW a \in Syncs \cup Requests, K!write(a) PROVE LoadInv'
  <2>1. hook[a] \in {"write", "rewrite"} /\ a \in K!Callers /\ skillFile' = held[a].v
        /\ K!Waits(a, IF hook[a] = "write" THEN "written" ELSE "over", held[a])
    BY <1>9, <1>c DEF K!write
  <2>2. hook'[a] \in {"written", "over"} /\ skillsOrderly' = skillsOrderly
        /\ \A b \in K!Callers : b # a => hook'[b] = hook[b]
    BY <1>w, <1>h, <2>1
  <2>3. skillsOrderly => skillFile' # 0
    BY <1>o, <2>1 DEF CallFiles
  <2>4. QED
    BY <1>q, <2>1, <2>2, <2>3 DEF CallFiles, K!Loadable
<1>10. ASSUME NEW a \in Syncs \cup Requests, K!written(a) PROVE LoadInv'
  <2>1. hook[a] \in {"written", "over"} /\ a \in K!Callers /\ K!Ends(a)
        /\ UNCHANGED skillFile
    BY <1>10, <1>c DEF K!written
  <2>2. hook'[a] = "idle" /\ skillsOrderly' = skillsOrderly
        /\ \A b \in K!Callers : b # a => hook'[b] = hook[b]
    BY <1>e, <2>1
  <2>3. skillsOrderly => skillFile' # 0
    BY <1>o, <2>1 DEF CallFiles
  <2>4. QED
    BY <1>q, <2>1, <2>2, <2>3 DEF CallFiles, K!Loadable
<1>11. ASSUME NEW a \in Tools, NEW text \in {0, published} \cup K!Edits,
              K!edit(a, text)
       PROVE  LoadInv'
  <2>1. K!Begins(a, IF text = 0 THEN "deleted" ELSE "edited", K!Nothing)
        /\ skillFile' = text
    BY <1>11 DEF K!edit
  <2>2. QED
    BY <1>c, <1>n, <2>1, OneBegins DEF K!Loadable
<1>12. ASSUME NEW a \in Tools, K!edited(a) PROVE LoadInv'
  <2>1. hook[a] = "edited" /\ a \in K!Callers /\ UNCHANGED <<skill, skillFile>>
        /\ K!Waits(a, "read", [held[a] EXCEPT !.v = skillFile])
    BY <1>12, <1>c DEF K!edited, K!stored
  <2>2. hook'[a] = "read" /\ skillsOrderly' = skillsOrderly
        /\ \A b \in K!Callers : b # a => hook'[b] = hook[b]
    BY <1>w, <1>v, <1>h, <2>1 DEF SkillTypes
  <2>3. skillsOrderly => skillFile' # 0
    BY <1>o, <2>1 DEF CallFiles
  <2>4. QED
    BY <1>q, <2>1, <2>2, <2>3 DEF CallFiles, K!Loadable
<1>13. ASSUME NEW a \in Tools, K!handleWrite(a) PROVE LoadInv'
  <2>1. hook[a] = "read" /\ a \in K!Callers /\ UNCHANGED skillFile /\ K!Ends(a)
    BY <1>13, <1>c DEF K!handleWrite
  <2>2. hook'[a] = "idle" /\ skillsOrderly' = skillsOrderly
        /\ \A b \in K!Callers : b # a => hook'[b] = hook[b]
    BY <1>e, <2>1
  <2>3. skillsOrderly => skillFile' # 0
    BY <1>o, <2>1 DEF CallFiles
  <2>4. QED
    BY <1>q, <2>1, <2>2, <2>3 DEF CallFiles, K!Loadable
<1>14. ASSUME NEW a \in Tools, K!handleDelete(a) PROVE LoadInv'
  <2>1. hook[a] = "deleted" /\ a \in K!Callers /\ ~skill'.enabled /\ K!Ends(a)
    BY <1>14, <1>c DEF K!handleDelete, K!NoRow, SkillTypes, SkillRow
  <2>2. hook'[a] = "idle" /\ skillsOrderly' = skillsOrderly
        /\ \A b \in K!Callers : b # a => hook'[b] = hook[b]
    BY <1>e, <2>1
  <2>3. QED
    BY <1>q, <2>1, <2>2 DEF CallFiles, K!Loadable
<1>15. ASSUME NEW a \in K!Callers, K!fails(a) PROVE LoadInv'
  <2>1. hook[a] \in {"write", "rewrite", "edited", "drop"} /\ UNCHANGED <<skill, skillFile>>
        /\ skillsOrderly' = (skillsOrderly /\ hook[a] # "rewrite")
    BY <1>15 DEF K!fails, K!stored
  <2>2. hook'[a] = "idle" /\ \A b \in K!Callers : b # a => hook'[b] = hook[b]
    BY <1>15, CallGoes DEF K!fails
  <2>3. CASE skillsOrderly'
    <3>1. skillsOrderly /\ hook[a] \notin Unfinished
      BY <2>1, <2>3
    <3>2. K!Loadable' /\ CallFiles(a)'
      BY <1>o, <2>1, <2>2, <3>1 DEF K!Loadable, CallFiles
    <3>3. QED
      BY <1>o, <2>1, <2>2, <3>1, <3>2, OneGoesOn
  <2>4. QED
    BY <2>3 DEF LoadInv
<1>16. ASSUME UNCHANGED <<skill, skillFile, hook, held, skillsOrderly>> PROVE LoadInv'
  BY <1>16 DEF LoadInv, OneAtATime, CallFiles, K!Loadable
<1>17. CASE K!publish \/ K!ensureAgent \/ K!agentEnd \/ UNCHANGED K!vars
  BY <1>16, <1>17 DEF K!publish, K!ensureAgent, K!agentEnd, K!vars, K!stored
<1>18. QED
  BY <1>1, <1>2, <1>3, <1>4, <1>5, <1>6, <1>7, <1>8, <1>9, <1>10, <1>11, <1>12,
     <1>13, <1>14, <1>15, <1>17 DEF K!Next

\* Until calls to the registry overlap or a conflict outlives its row: a conflict is
\* about a registry skill that was edited, newer than its version; and the one call
\* that asked the registry knows a version no older than both.
ConflictFits ==
  conflict # 0 => skill.origin = "registry" /\ skill.dirty /\ skill.version < conflict
Told(a) == hook[a] \in K!AtRegistry \ {"ask"} /\ held[a].v # 0
CallVersions(a) ==
  /\ Told(a) =>
       skill.version <= held[a].v /\ conflict <= held[a].v /\ held[a].v <= published
  /\ hook[a] \in {"ask", "asked"} =>
       /\ held[a].row = K!NoRow => skill.origin # "registry"
       /\ a \in Requests => held[a].row = K!NoRow
  /\ hook[a] \in {"write", "written"} =>
       /\ conflict = 0 /\ held[a].v # 0
       /\ held[a].row.origin = "registry" /\ ~held[a].row.dirty
       /\ held[a].row.version = held[a].v
RegistryAlone ==
  \A a, b \in K!Callers :
    hook[a] \in K!AtRegistry /\ hook[b] \in K!AtRegistry => a = b
VersionInv ==
  clean =>
    /\ RegistryAlone /\ ConflictFits
    /\ skill.version <= published /\ conflict <= published
    /\ \A a \in K!Callers : CallVersions(a)

\* A step of the call that asked the registry.
LEMMA OneAsks ==
  ASSUME SkillTypes, clean, VersionInv, NEW a \in K!Callers,
         hook[a] \in K!AtRegistry,
         \A b \in K!Callers : b # a => hook'[b] = hook[b],
         ConflictFits', (skill.version <= published /\ conflict <= published)',
         CallVersions(a)'
  PROVE  VersionInv'
<1>1. \A b \in K!Callers : b # a => hook'[b] \notin K!AtRegistry
  BY DEF VersionInv, RegistryAlone
<1>2. \A b \in K!Callers : CallVersions(b)'
  BY <1>1 DEF CallVersions, Told, K!AtRegistry
<1>3. RegistryAlone'
  BY <1>1 DEF RegistryAlone
<1>4. QED
  BY <1>2, <1>3 DEF VersionInv

\* A step of a call that does not: what it does to the skill makes nothing newer,
\* and no registry skill of another.
LEMMA OthersGoOn ==
  ASSUME SkillTypes, clean, VersionInv, NEW a \in K!Callers,
         hook[a] \notin K!AtRegistry, hook'[a] \notin K!AtRegistry,
         \A b \in K!Callers : b # a => hook'[b] = hook[b] /\ held'[b] = held[b],
         ConflictFits', published' = published,
         conflict' \in {0, conflict},
         skill'.version \in {skill.version, conflict, 0},
         skill'.origin = "registry" => skill.origin = "registry"
  PROVE  VersionInv'
<1>1. /\ {conflict, published, skill.version} \subseteq Nat
      /\ \A b \in K!Callers : held[b].v \in Nat
  BY DEF SkillTypes, SkillRow, HeldBy
<1>2. ASSUME NEW b \in K!Callers PROVE CallVersions(b)'
  <2>1. CASE b = a
    BY <2>1 DEF CallVersions, Told, K!AtRegistry
  <2>2. CASE b # a
    <3>1. CallVersions(b) /\ hook'[b] = hook[b] /\ held'[b] = held[b]
      BY <2>2 DEF VersionInv
    <3>2. QED
      BY <1>1, <3>1 DEF CallVersions, Told
  <2>3. QED
    BY <2>1, <2>2
<1>3. RegistryAlone'
  BY DEF RegistryAlone, VersionInv
<1>4. (skill.version <= published /\ conflict <= published)'
  BY <1>1 DEF VersionInv
<1>5. QED
  BY <1>2, <1>3, <1>4 DEF VersionInv

\* A call that asks the registry begins.
LEMMA AskBegins ==
  ASSUME SkillTypes, VersionInv, NEW a \in K!Callers, NEW h \in HeldBy,
         K!Begins(a, "ask", h), K!AsksAlone, clean',
         UNCHANGED <<skill, conflict, published>>,
         h.row = K!NoRow => skill.origin # "registry",
         a \in Requests => h.row = K!NoRow
  PROVE  VersionInv'
<1>1. /\ clean /\ \A b \in K!Callers : hook[b] \notin K!AtRegistry
      /\ hook'[a] = "ask" /\ held'[a] = h
      /\ \A b \in K!Callers : b # a => hook'[b] = hook[b]
  BY CallGoes, HookHolds DEF K!Begins, K!AsksAlone, Hooks, K!AtRegistry
<1>2. \A b \in K!Callers : CallVersions(b)'
  BY <1>1 DEF CallVersions, Told, K!AtRegistry
<1>3. RegistryAlone'
  BY <1>1 DEF RegistryAlone
<1>4. QED
  BY <1>1, <1>2, <1>3 DEF VersionInv, ConflictFits

LEMMA VersionStep ==
  ASSUME SkillTypes, VersionInv, K!SkillConstants, [K!Next]_(K!vars)
  PROVE  VersionInv' /\ (clean' => K!KeepsUpdate)
<1>c. Syncs \subseteq K!Callers /\ Tools \subseteq K!Callers /\ Requests \subseteq K!Callers
  BY DEF K!Callers
<1>t. /\ {conflict, published, skill.version} \subseteq Nat /\ skill \in SkillRow
      /\ \A a \in K!Callers : held[a].v \in Nat /\ held[a].row \in SkillRow
                              /\ held[a] \in HeldBy
  BY DEF SkillTypes, SkillRow, HeldBy
<1>h. \A a \in K!Callers : hook[a] \in Hooks
  BY DEF SkillTypes
<1>n. /\ [K!Nothing EXCEPT !.row = skill] \in HeldBy
      /\ [K!Nothing EXCEPT !.row = skill].row = skill
      /\ \A on \in BOOLEAN : [K!Nothing EXCEPT !.on = on] \in HeldBy
      /\ \A on \in BOOLEAN : [K!Nothing EXCEPT !.on = on].row = K!NoRow
      /\ K!Nothing \in HeldBy /\ K!NoRow.origin # "registry" /\ K!NoRow.version = 0
  BY NothingHeld DEF SkillTypes, HeldBy, K!Nothing, K!NoRow
<1>b. ASSUME NEW a \in K!Callers, NEW where \in Hooks, NEW h \in HeldBy,
             K!Begins(a, where, h) \/ K!Waits(a, where, h)
      PROVE  /\ hook'[a] = where /\ held'[a] = h
             /\ \A b \in K!Callers : b # a => hook'[b] = hook[b] /\ held'[b] = held[b]
  BY <1>b, CallGoes, HookHolds DEF K!Begins, K!Waits
<1>e. ASSUME NEW a \in K!Callers, K!Ends(a) \/ K!Leaves(a)
      PROVE  /\ hook'[a] = "idle"
             /\ \A b \in K!Callers : b # a => hook'[b] = hook[b] /\ held'[b] = held[b]
  BY <1>e, CallGoes, HookHolds, NothingHeld DEF K!Ends, K!Leaves, Hooks
<1>k. UNCHANGED <<skill, conflict>> => K!KeepsUpdate
  BY <1>t DEF K!KeepsUpdate, K!Known
<1>u. ~clean' => VersionInv' /\ (clean' => K!KeepsUpdate)
  BY DEF VersionInv
\* A call to the registry goes on with the skill as it is.
<1>g. ASSUME clean, NEW a \in K!Callers, hook[a] \in K!AtRegistry,
             \A b \in K!Callers : b # a => hook'[b] = hook[b],
             UNCHANGED <<skill, conflict, published>>, CallVersions(a)'
      PROVE  VersionInv' /\ K!KeepsUpdate
  <2>1. ConflictFits' /\ (skill.version <= published /\ conflict <= published)'
    BY <1>g DEF VersionInv, ConflictFits
  <2>2. QED
    BY <1>g, <1>k, <2>1, OneAsks
\* Another one goes on with the skill as it is.
<1>i. ASSUME clean, NEW a \in K!Callers, hook[a] \notin K!AtRegistry,
             hook'[a] \notin K!AtRegistry,
             \A b \in K!Callers : b # a => hook'[b] = hook[b] /\ held'[b] = held[b],
             UNCHANGED <<skill, conflict, published>>
      PROVE  VersionInv' /\ K!KeepsUpdate
  <2>1. ConflictFits'
    BY <1>i DEF VersionInv, ConflictFits
  <2>2. QED
    BY <1>i, <1>k, <2>1, OthersGoOn
<1>1. ASSUME NEW a \in Syncs, K!sync(a), clean' PROVE VersionInv' /\ K!KeepsUpdate
  <2>1. a \notin Requests
    BY DEF K!SkillConstants
  <2>2. QED
    BY <1>1, <1>c, <1>n, <1>k, <2>1, AskBegins DEF K!sync, K!stored, K!world
<1>3. ASSUME NEW a \in Requests, NEW on \in BOOLEAN, K!install(a, on), clean'
      PROVE  VersionInv' /\ K!KeepsUpdate
  BY <1>3, <1>c, <1>n, <1>k, AskBegins DEF K!install, K!stored, K!world
<1>2. ASSUME NEW a \in Syncs, NEW lacks \in BOOLEAN, K!asked(a, lacks), clean'
      PROVE  VersionInv' /\ K!KeepsUpdate
  <2> DEFINE v == held[a].v
  <2>1. /\ hook[a] = "asked" /\ a \in K!Callers /\ hook[a] \in K!AtRegistry /\ clean
        /\ ~(v # 0 /\ lacks /\ conflict # 0) /\ published' = published
    BY <1>2, <1>c DEF K!asked, K!AtRegistry, K!world
  <2>2. /\ CallVersions(a) /\ ConflictFits
        /\ skill.version <= published /\ conflict <= published
    BY <2>1 DEF VersionInv
  <2>3. v # 0 => skill.version <= v /\ conflict <= v /\ v <= published
    BY <2>1, <2>2 DEF CallVersions, Told, K!AtRegistry
  <2>4. ASSUME K!Ends(a), ConflictFits', {skill'.version, conflict'} \subseteq Nat,
               skill'.version \in {skill.version, v}, conflict' \in {conflict, v},
               skill'.version = v \/ conflict' = v => v # 0 \/ (UNCHANGED <<skill, conflict>>)
                 \/ (skill'.version = skill.version /\ conflict' = conflict),
               K!KeepsUpdate
        PROVE  VersionInv' /\ K!KeepsUpdate
    <3>1. hook'[a] = "idle" /\ \A b \in K!Callers : b # a => hook'[b] = hook[b]
      BY <1>e, <2>1, <2>4
    <3>2. CallVersions(a)'
      BY <3>1 DEF CallVersions, Told, K!AtRegistry
    <3>3. (skill.version <= published /\ conflict <= published)'
      BY <2>1, <2>2, <2>3, <2>4
    <3>4. QED
      BY <2>1, <2>4, <3>1, <3>2, <3>3, OneAsks
  <2>5. CASE K!Ends(a) /\ UNCHANGED <<conflict, skill>>
    BY <1>k, <1>t, <2>2, <2>4, <2>5 DEF ConflictFits
  <2>6. ASSUME K!Ends(a), UNCHANGED conflict, NEW on, skill' = K!Fresh(v, on),
               v # 0, conflict = 0
        PROVE  VersionInv' /\ K!KeepsUpdate
    <3>1. skill'.version = v
      BY <2>6 DEF K!Fresh
    <3>2. K!KeepsUpdate
      BY <1>t, <2>1, <2>3, <2>6, <3>1 DEF K!KeepsUpdate, K!Known
    <3>3. QED
      BY <1>t, <2>1, <2>4, <2>6, <3>1, <3>2 DEF ConflictFits
  <2>7. ASSUME K!Ends(a), UNCHANGED conflict, NEW on, skill' = [skill EXCEPT !.enabled = on]
        PROVE  VersionInv' /\ K!KeepsUpdate
    <3>1. skill'.version = skill.version /\ skill'.origin = skill.origin
          /\ skill'.dirty = skill.dirty
      BY <1>t, <2>7 DEF SkillRow
    <3>2. K!KeepsUpdate
      BY <1>t, <2>7, <3>1 DEF K!KeepsUpdate, K!Known
    <3>3. QED
      BY <1>t, <2>2, <2>4, <2>7, <3>1, <3>2 DEF ConflictFits
  <2>8. ASSUME K!Ends(a), UNCHANGED conflict, NEW on, v # 0, ~skill.dirty,
               skill' = [skill EXCEPT !.version = v, !.enabled = on]
        PROVE  VersionInv' /\ K!KeepsUpdate
    <3>1. skill'.version = v /\ conflict = 0
      BY <1>t, <2>2, <2>8 DEF SkillRow, ConflictFits
    <3>2. K!KeepsUpdate
      BY <1>t, <2>1, <2>3, <2>8, <3>1 DEF K!KeepsUpdate, K!Known
    <3>3. QED
      BY <1>t, <2>1, <2>4, <2>8, <3>1, <3>2 DEF ConflictFits
  <2>9. ASSUME K!Ends(a), UNCHANGED skill, v # 0, skill.origin = "registry", skill.dirty,
               skill.version # v, conflict' = v
        PROVE  VersionInv' /\ K!KeepsUpdate
    <3>1. skill.version < v
      BY <1>t, <2>1, <2>3, <2>9
    <3>2. K!KeepsUpdate
      BY <1>t, <2>1, <2>3, <2>9 DEF K!KeepsUpdate, K!Known
    <3>3. ConflictFits'
      BY <2>9, <3>1 DEF ConflictFits
    <3>4. QED
      BY <1>t, <2>1, <2>4, <2>9, <3>2, <3>3
  <2>10. ASSUME K!Waits(a, "rewrite", held[a]), UNCHANGED conflict, v # 0,
                skill' = [skill EXCEPT !.enabled = TRUE]
         PROVE  VersionInv' /\ K!KeepsUpdate
    <3>1. skill'.version = skill.version /\ skill'.origin = skill.origin
          /\ skill'.dirty = skill.dirty
      BY <1>t, <2>10 DEF SkillRow
    <3>2. /\ hook'[a] = "rewrite" /\ held'[a] = held[a]
          /\ \A b \in K!Callers : b # a => hook'[b] = hook[b]
      BY <1>b, <1>t, <2>1, <2>10 DEF Hooks, K!AtRegistry
    <3>3. K!KeepsUpdate
      BY <1>t, <2>10, <3>1 DEF K!KeepsUpdate, K!Known
    <3>4. CallVersions(a)'
      BY <2>1, <2>3, <2>10, <3>1, <3>2 DEF CallVersions, Told
    <3>5. ConflictFits' /\ (skill.version <= published /\ conflict <= published)'
      BY <2>1, <2>2, <2>10, <3>1 DEF ConflictFits
    <3>6. QED
      BY <2>1, <3>2, <3>3, <3>4, <3>5, OneAsks
  <2>11. ASSUME NEW r \in SkillRow, K!Waits(a, "write", [held[a] EXCEPT !.row = r]),
                UNCHANGED <<skill, conflict>>,
                v # 0, r.origin = "registry", r.version = v, ~r.dirty,
                held[a].row = K!NoRow \/ ~skill.dirty
         PROVE  VersionInv' /\ K!KeepsUpdate
    <3> DEFINE h == [held[a] EXCEPT !.row = r]
    <3>1. h \in HeldBy /\ h.v = v /\ h.row = r
      BY <1>t, <2>1 DEF HeldBy
    <3> HIDE DEF h
    <3>2. K!Waits(a, "write", h)
      BY <2>11 DEF h
    <3>3. /\ hook'[a] = "write" /\ held'[a] = h
          /\ \A b \in K!Callers : b # a => hook'[b] = hook[b]
      BY <1>b, <2>1, <3>1, <3>2 DEF Hooks, K!AtRegistry
    <3>4. conflict = 0
      BY <2>1, <2>2, <2>11 DEF ConflictFits, CallVersions
    <3>5. CallVersions(a)'
      BY <2>1, <2>3, <2>11, <3>1, <3>3, <3>4 DEF CallVersions, Told
    <3>6. QED
      BY <1>g, <2>1, <2>11, <3>3, <3>5
  <2>12. held[a].row = K!NoRow => conflict = 0
    BY <2>1, <2>2 DEF ConflictFits, CallVersions
  <2>13. QED
    BY <1>2, <2>1, <2>5, <2>6, <2>7, <2>8, <2>9, <2>10, <2>11, <2>12, SyncGoesOn
<1>4. ASSUME NEW a \in Requests, K!installing(a), clean'
      PROVE  VersionInv' /\ K!KeepsUpdate
  <2> DEFINE v == held[a].v
             r == K!Fresh(v, held[a].on)
  <2>1. /\ hook[a] = "asked" /\ a \in K!Callers /\ hook[a] \in K!AtRegistry /\ clean
        /\ published' = published
    BY <1>4, <1>c DEF K!installing, K!AtRegistry, K!world
  <2>2. /\ CallVersions(a) /\ ConflictFits
        /\ skill.version <= published /\ conflict <= published
    BY <2>1 DEF VersionInv
  <2>3. /\ v # 0 => skill.version <= v /\ conflict <= v /\ v <= published
        /\ conflict = 0 /\ skill.origin # "registry"
    BY <2>1, <2>2 DEF CallVersions, Told, ConflictFits, K!AtRegistry
  <2>4. r \in SkillRow /\ r.version = v /\ ~r.dirty /\ r.origin = "registry"
    BY <1>t, <2>1 DEF K!Fresh, SkillRow, HeldBy
  <2> HIDE DEF r
  <2>5. CASE K!Leaves(a) /\ UNCHANGED <<skill, conflict>>
    <3>1. hook'[a] = "idle" /\ \A b \in K!Callers : b # a => hook'[b] = hook[b]
      BY <1>e, <2>1, <2>5
    <3>2. CallVersions(a)'
      BY <3>1 DEF CallVersions, Told, K!AtRegistry
    <3>3. QED
      BY <1>g, <2>1, <2>5, <3>1, <3>2
  <2>6. CASE v # 0 /\ K!Waits(a, "write", [held[a] EXCEPT !.row = r])
             /\ UNCHANGED <<skill, conflict>>
    <3> DEFINE h == [held[a] EXCEPT !.row = r]
    <3>1. h \in HeldBy /\ h.v = v /\ h.row = r
      BY <1>t, <2>1, <2>4 DEF HeldBy
    <3> HIDE DEF h
    <3>2. K!Waits(a, "write", h)
      BY <2>6 DEF h
    <3>3. /\ hook'[a] = "write" /\ held'[a] = h
          /\ \A b \in K!Callers : b # a => hook'[b] = hook[b]
      BY <1>b, <2>1, <3>1, <3>2 DEF Hooks, K!AtRegistry
    <3>4. CallVersions(a)'
      BY <2>1, <2>3, <2>4, <2>6, <3>1, <3>3 DEF CallVersions, Told
    <3>5. QED
      BY <1>g, <2>1, <2>6, <3>3, <3>4
  <2>7. CASE v # 0 /\ skill' = r /\ K!Ends(a) /\ UNCHANGED conflict
    <3>1. hook'[a] = "idle" /\ \A b \in K!Callers : b # a => hook'[b] = hook[b]
      BY <1>e, <2>1, <2>7
    <3>2. CallVersions(a)'
      BY <3>1 DEF CallVersions, Told, K!AtRegistry
    <3>3. ConflictFits' /\ (skill.version <= published /\ conflict <= published)'
      BY <1>t, <2>1, <2>2, <2>3, <2>4, <2>7 DEF ConflictFits
    <3>4. K!KeepsUpdate
      BY <2>3 DEF K!KeepsUpdate
    <3>5. QED
      BY <2>1, <3>1, <3>2, <3>3, <3>4, OneAsks
  <2>8. QED
    BY <1>4, <1>t, <2>1, <2>5, <2>6, <2>7 DEF K!installing, K!stored, r
<1>5. ASSUME NEW a \in Requests, K!uninstall(a), clean' PROVE VersionInv' /\ K!KeepsUpdate
  <2>1. /\ hook[a] = "idle" /\ a \in K!Callers /\ clean
        /\ K!Begins(a, IF skill.enabled THEN "drop" ELSE "dropped", K!Nothing)
        /\ UNCHANGED <<skill, conflict, published>>
    BY <1>5, <1>c DEF K!uninstall, K!Begins, K!stored, K!world
  <2>2. /\ hook'[a] \in {"drop", "dropped"}
        /\ \A b \in K!Callers : b # a => hook'[b] = hook[b] /\ held'[b] = held[b]
    BY <1>b, <1>n, <2>1 DEF Hooks
  <2>3. QED
    BY <1>i, <2>1, <2>2 DEF K!AtRegistry
<1>6. ASSUME NEW a \in Requests, K!drop(a), clean' PROVE VersionInv' /\ K!KeepsUpdate
  <2>1. /\ hook[a] = "drop" /\ a \in K!Callers /\ clean /\ K!Waits(a, "dropped", held[a])
        /\ UNCHANGED <<skill, conflict, published>>
    BY <1>6, <1>c DEF K!drop, K!world
  <2>2. /\ hook'[a] = "dropped"
        /\ \A b \in K!Callers : b # a => hook'[b] = hook[b] /\ held'[b] = held[b]
    BY <1>b, <1>t, <2>1 DEF Hooks
  <2>3. QED
    BY <1>i, <2>1, <2>2 DEF K!AtRegistry
<1>7. ASSUME NEW a \in Requests, K!dropped(a), clean' PROVE VersionInv' /\ K!KeepsUpdate
  <2>1. /\ hook[a] = "dropped" /\ a \in K!Callers /\ clean /\ conflict = 0 /\ K!Ends(a)
        /\ skill' = K!NoRow /\ UNCHANGED <<conflict, published>>
    BY <1>7, <1>c DEF K!dropped, K!world
  <2>2. /\ hook'[a] = "idle"
        /\ \A b \in K!Callers : b # a => hook'[b] = hook[b] /\ held'[b] = held[b]
    BY <1>e, <2>1
  <2>3. K!KeepsUpdate
    BY <1>n, <2>1 DEF K!KeepsUpdate
  <2>4. QED
    BY <1>n, <2>1, <2>2, <2>3, OthersGoOn DEF K!AtRegistry, ConflictFits
<1>8. ASSUME NEW a \in Syncs \cup Requests, K!ask(a), clean'
      PROVE  VersionInv' /\ K!KeepsUpdate
  <2>1. /\ hook[a] = "ask" /\ a \in K!Callers /\ clean
        /\ UNCHANGED <<skill, conflict, published>>
    BY <1>8, <1>c DEF K!ask, K!stored, K!world
  <2>2. PICK v \in {published, 0} : K!Waits(a, "asked", [held[a] EXCEPT !.v = v])
    BY <1>8 DEF K!ask
  <2> DEFINE h == [held[a] EXCEPT !.v = v]
  <2>3. h \in HeldBy /\ h.v = v /\ h.row = held[a].row
    BY <1>t, <2>1 DEF HeldBy
  <2> HIDE DEF h
  <2>4. K!Waits(a, "asked", h)
    BY <2>2 DEF h
  <2>5. /\ hook'[a] = "asked" /\ held'[a] = h
        /\ \A b \in K!Callers : b # a => hook'[b] = hook[b]
    BY <1>b, <2>1, <2>3, <2>4 DEF Hooks, K!AtRegistry
  <2>6. CallVersions(a) /\ skill.version <= published /\ conflict <= published
    BY <2>1 DEF VersionInv
  <2>7. CallVersions(a)'
    BY <1>t, <2>1, <2>3, <2>5, <2>6 DEF CallVersions, Told
  <2>8. QED
    BY <1>g, <2>1, <2>5, <2>7 DEF K!AtRegistry
<1>9. ASSUME NEW a \in Syncs \cup Requests, K!write(a), clean'
      PROVE  VersionInv' /\ K!KeepsUpdate
  <2>1. /\ hook[a] \in {"write", "rewrite"} /\ a \in K!Callers /\ clean
        /\ K!Waits(a, IF hook[a] = "write" THEN "written" ELSE "over", held[a])
        /\ UNCHANGED <<skill, conflict, published>>
    BY <1>9, <1>c DEF K!write, K!world
  <2>2. /\ hook'[a] = IF hook[a] = "write" THEN "written" ELSE "over"
        /\ held'[a] = held[a]
        /\ \A b \in K!Callers : b # a => hook'[b] = hook[b]
    BY <1>b, <1>t, <2>1 DEF Hooks, K!AtRegistry
  <2>3. CallVersions(a)
    BY <2>1 DEF VersionInv
  <2>4. CallVersions(a)'
    BY <2>1, <2>2, <2>3 DEF CallVersions, Told, K!AtRegistry
  <2>5. QED
    BY <1>g, <2>1, <2>2, <2>4 DEF K!AtRegistry
<1>10. ASSUME NEW a \in Syncs \cup Requests, K!written(a), clean'
       PROVE  VersionInv' /\ K!KeepsUpdate
  <2>1. /\ hook[a] \in {"written", "over"} /\ a \in K!Callers /\ clean /\ K!Ends(a)
        /\ UNCHANGED <<conflict, published>>
        /\ skill' = IF hook[a] = "written" THEN held[a].row ELSE skill
    BY <1>10, <1>c DEF K!written, K!world
  <2>2. hook'[a] = "idle" /\ \A b \in K!Callers : b # a => hook'[b] = hook[b]
    BY <1>e, <2>1
  <2>3. CallVersions(a)'
    BY <2>2 DEF CallVersions, Told, K!AtRegistry
  <2>4. CASE hook[a] = "over"
    BY <1>g, <2>1, <2>2, <2>3, <2>4 DEF K!AtRegistry
  <2>5. CASE hook[a] = "written"
    <3>1. CallVersions(a) /\ Told(a)
      BY <2>1, <2>5 DEF VersionInv, CallVersions, Told, K!AtRegistry
    <3>2. /\ conflict = 0 /\ skill' = held[a].row /\ skill'.version = held[a].v
          /\ skill.version <= held[a].v /\ held[a].v <= published
      BY <2>1, <2>5, <3>1 DEF CallVersions
    <3>3. K!KeepsUpdate
      BY <1>t, <2>1, <3>2 DEF K!KeepsUpdate, K!Known
    <3>4. ConflictFits' /\ (skill.version <= published /\ conflict <= published)'
      BY <1>t, <2>1, <3>2 DEF ConflictFits
    <3>5. QED
      BY <2>1, <2>2, <2>3, <2>5, <3>3, <3>4, OneAsks DEF K!AtRegistry
  <2>6. QED
    BY <2>1, <2>4, <2>5
<1>11. ASSUME NEW a \in Tools, NEW text \in {0, published} \cup K!Edits,
              K!edit(a, text), clean'
       PROVE  VersionInv' /\ K!KeepsUpdate
  <2>1. /\ hook[a] = "idle" /\ a \in K!Callers /\ clean
        /\ K!Begins(a, IF text = 0 THEN "deleted" ELSE "edited", K!Nothing)
        /\ UNCHANGED <<skill, conflict, published>>
    BY <1>11, <1>c DEF K!edit, K!Begins, K!world
  <2>2. /\ hook'[a] \in {"deleted", "edited"}
        /\ \A b \in K!Callers : b # a => hook'[b] = hook[b] /\ held'[b] = held[b]
    BY <1>b, <1>n, <2>1 DEF Hooks
  <2>3. QED
    BY <1>i, <2>1, <2>2 DEF K!AtRegistry
<1>12. ASSUME NEW a \in Tools, K!edited(a), clean' PROVE VersionInv' /\ K!KeepsUpdate
  <2>1. /\ hook[a] = "edited" /\ a \in K!Callers /\ clean
        /\ K!Waits(a, "read", [held[a] EXCEPT !.v = skillFile])
        /\ UNCHANGED <<skill, conflict, published>>
    BY <1>12, <1>c DEF K!edited, K!stored, K!world
  <2>2. [held[a] EXCEPT !.v = skillFile] \in HeldBy
    BY <1>t, <2>1 DEF HeldBy, SkillTypes
  <2>3. /\ hook'[a] = "read"
        /\ \A b \in K!Callers : b # a => hook'[b] = hook[b] /\ held'[b] = held[b]
    BY <1>b, <2>1, <2>2 DEF Hooks
  <2>4. QED
    BY <1>i, <2>1, <2>3 DEF K!AtRegistry
<1>13. ASSUME NEW a \in Tools, K!handleWrite(a), clean' PROVE VersionInv' /\ K!KeepsUpdate
  <2>1. /\ hook[a] = "read" /\ a \in K!Callers /\ clean /\ K!Ends(a)
        /\ published' = published
    BY <1>13, <1>c DEF K!handleWrite, K!world
  <2>2. /\ hook'[a] = "idle"
        /\ \A b \in K!Callers : b # a => hook'[b] = hook[b] /\ held'[b] = held[b]
    BY <1>e, <2>1
  <2>3. ConflictFits
    BY <2>1 DEF VersionInv
  <2>4. CASE UNCHANGED <<skill, conflict>>
    BY <1>i, <2>1, <2>2, <2>4 DEF K!AtRegistry
  <2>5. CASE /\ skill = K!NoRow /\ conflict' = conflict
             /\ skill' = [K!NoRow EXCEPT !.enabled = TRUE, !.origin = "agent"]
    <3>1. skill'.origin = "agent" /\ skill'.version = 0 /\ conflict = 0
      BY <1>n, <2>3, <2>5 DEF K!NoRow, ConflictFits
    <3>2. K!KeepsUpdate /\ ConflictFits'
      BY <2>5, <3>1 DEF K!KeepsUpdate, ConflictFits
    <3>3. QED
      BY <2>1, <2>2, <2>5, <3>1, <3>2, OthersGoOn DEF K!AtRegistry
  <2>6. CASE /\ conflict # 0 /\ conflict' = 0
             /\ skill' = [skill EXCEPT !.version = conflict, !.dirty = FALSE]
    <3>1. skill'.origin = skill.origin /\ skill'.version = conflict
      BY <1>t, <2>6 DEF SkillRow
    <3>2. K!KeepsUpdate /\ ConflictFits'
      BY <1>t, <2>3, <2>6, <3>1 DEF K!KeepsUpdate, K!Known, ConflictFits
    <3>3. QED
      BY <2>1, <2>2, <2>6, <3>1, <3>2, OthersGoOn DEF K!AtRegistry
  <2>7. ASSUME conflict = 0, conflict' = 0, NEW d,
               skill' = [skill EXCEPT !.dirty = d] \/ skill' = skill
        PROVE  VersionInv' /\ K!KeepsUpdate
    <3>1. skill'.origin = skill.origin /\ skill'.version = skill.version
      BY <1>t, <2>7 DEF SkillRow
    <3>2. K!KeepsUpdate /\ ConflictFits'
      BY <1>t, <2>7, <3>1 DEF K!KeepsUpdate, K!Known, ConflictFits
    <3>3. QED
      BY <2>1, <2>2, <2>7, <3>1, <3>2, OthersGoOn DEF K!AtRegistry
  <2>8. QED
    BY <1>13, <2>4, <2>5, <2>6, <2>7 DEF K!handleWrite
<1>14. ASSUME NEW a \in Tools, K!handleDelete(a), clean' PROVE VersionInv' /\ K!KeepsUpdate
  <2>1. /\ hook[a] = "deleted" /\ a \in K!Callers /\ clean /\ K!Ends(a)
        /\ UNCHANGED <<conflict, published>>
        /\ skill' = IF skill.origin = "registry" THEN [skill EXCEPT !.enabled = FALSE]
                                                ELSE K!NoRow
    BY <1>14, <1>c DEF K!handleDelete, K!world
  <2>2. /\ hook'[a] = "idle"
        /\ \A b \in K!Callers : b # a => hook'[b] = hook[b] /\ held'[b] = held[b]
    BY <1>e, <2>1
  <2>3. ConflictFits
    BY <2>1 DEF VersionInv
  <2>4. CASE skill.origin = "registry"
    <3>1. skill'.origin = skill.origin /\ skill'.version = skill.version
          /\ skill'.dirty = skill.dirty
      BY <1>t, <2>1, <2>4 DEF SkillRow
    <3>2. K!KeepsUpdate /\ ConflictFits'
      BY <1>t, <2>1, <2>3, <3>1 DEF K!KeepsUpdate, K!Known, ConflictFits
    <3>3. QED
      BY <2>1, <2>2, <3>1, <3>2, OthersGoOn DEF K!AtRegistry
  <2>5. CASE skill.origin # "registry"
    <3>1. skill' = K!NoRow /\ conflict = 0
      BY <2>1, <2>3, <2>5 DEF ConflictFits
    <3>2. K!KeepsUpdate /\ ConflictFits'
      BY <1>n, <2>1, <3>1 DEF K!KeepsUpdate, ConflictFits
    <3>3. QED
      BY <1>n, <2>1, <2>2, <3>1, <3>2, OthersGoOn DEF K!AtRegistry
  <2>6. QED
    BY <2>4, <2>5
<1>15. ASSUME NEW a \in K!Callers, K!fails(a), clean' PROVE VersionInv' /\ K!KeepsUpdate
  <2>1. /\ hook[a] \in {"write", "rewrite", "edited", "drop"} /\ clean
        /\ UNCHANGED <<skill, conflict, published>>
    BY <1>15 DEF K!fails, K!stored, K!world
  <2>2. /\ hook'[a] = "idle"
        /\ \A b \in K!Callers : b # a => hook'[b] = hook[b] /\ held'[b] = held[b]
    BY <1>15, CallGoes, HookHolds, NothingHeld DEF K!fails, Hooks
  <2>3. CallVersions(a)'
    BY <2>2 DEF CallVersions, Told, K!AtRegistry
  <2>4. QED
    BY <1>g, <1>i, <2>1, <2>2, <2>3 DEF K!AtRegistry
<1>16. CASE K!publish
  <2>1. published' = published + 1 /\ UNCHANGED <<skill, conflict, hook, held, clean>>
    BY <1>16 DEF K!publish, K!stored
  <2>2. VersionInv'
    BY <1>t, <2>1 DEF VersionInv, RegistryAlone, ConflictFits, CallVersions, Told
  <2>3. QED
    BY <1>k, <2>1, <2>2
<1>17. CASE K!ensureAgent \/ K!agentEnd \/ UNCHANGED K!vars
  <2>1. UNCHANGED <<skill, conflict, published, hook, held, clean>>
    BY <1>17 DEF K!ensureAgent, K!agentEnd, K!vars, K!stored
  <2>2. VersionInv'
    BY <2>1 DEF VersionInv, RegistryAlone, ConflictFits, CallVersions, Told
  <2>3. QED
    BY <1>k, <2>1, <2>2
<1>18. QED
  BY <1>u, <1>1, <1>2, <1>3, <1>4, <1>5, <1>6, <1>7, <1>8, <1>9, <1>10, <1>11, <1>12,
     <1>13, <1>14, <1>15, <1>16, <1>17 DEF K!Next

(***************************************************************************)
(* A skill that is enabled has its file when no call is under way, until   *)
(* calls overlap or a file cannot be written after its row; and an         *)
(* upstream version that was dealt with stays so, until calls to the       *)
(* registry overlap or a conflict outlives its row: for any callers and    *)
(* any overlap of the file tools with the others.                          *)
(***************************************************************************)
THEOREM SkillsStayKept == ASSUME K!SkillConstants PROVE K!Spec => SkillsKept
<1>1. K!Init => SkillTypes /\ LoadInv /\ VersionInv
  <2> SUFFICES ASSUME K!Init PROVE SkillTypes /\ LoadInv /\ VersionInv
    OBVIOUS
  <2>1. SkillTypes
    BY NothingHeld DEF K!Init, SkillTypes, Hooks
  <2>2. LoadInv
    BY DEF K!Init, LoadInv, OneAtATime, CallFiles, K!Loadable, K!NoRow
  <2>3. VersionInv
    BY DEF K!Init, VersionInv, RegistryAlone, ConflictFits, CallVersions, Told,
           K!AtRegistry, K!NoRow
  <2>4. QED
    BY <2>1, <2>2, <2>3
<1>2. SkillTypes /\ LoadInv /\ VersionInv /\ [K!Next]_(K!vars) =>
        /\ SkillTypes' /\ LoadInv' /\ VersionInv'
        /\ [clean' => K!KeepsUpdate]_(K!vars)
  BY SkillTypesStep, LoadStep, VersionStep
<1>3. LoadInv =>
        (skillsOrderly /\ (\A a \in K!Callers : hook[a] = "idle") => K!Loadable)
  BY DEF LoadInv, Unfinished
<1>4. QED
  BY <1>1, <1>2, <1>3, PTL DEF K!Spec, K!SkillsKept, SkillsKept
=============================================================================
