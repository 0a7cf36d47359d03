------------------------------ MODULE Subagent ------------------------------
(***************************************************************************)
(* Child agents that a turn starts in sessions of their own.  A background *)
(* child has a row in storage while it runs; its completion callback, the  *)
(* cancel tool and the onConnect hook each bring that row to an end, and   *)
(* every storage call is an await, so their steps interleave.  The parent  *)
(* and the child's own turn are environment: they may end at any time.     *)
(***************************************************************************)
EXTENDS Naturals, FiniteSets

CONSTANTS Children,      \* child sessions, each used once
          MaxConnects, MaxRestarts      \* bounds

VARIABLES row,        \* subagent:<id>: "none" or the stored state
          run,        \* "none", "called", "running", "over", "lost"
          streaming,  \* the parent session's agent is streaming
          jobs,       \* calls that are bringing a row to an end
          sweep,      \* onConnect hooks: rows each still has to visit
          logged,     \* the parent's log: reports of each child
          connects, restarts

vars == <<row, run, streaming, jobs, sweep, logged, connects, restarts>>

Connects == 1..MaxConnects

Callback == <<"callback">>
Cancel == <<"cancel">>
Hook(k) == <<"connect", k>>

\* A job is of one of these actors, writes the state `as` and is at one of the
\* awaits on its way to the deletion.
Job(actor, c, s) == [by |-> actor, of |-> c, as |-> s, at |-> "get"]
Jobs(actor, c) == {j \in jobs : j.by = actor /\ j.of = c}
At(j, where) == jobs' = (jobs \ {j}) \cup {[j EXCEPT !.at = where]}

Init ==
  /\ row = [c \in Children |-> "none"] /\ run = [c \in Children |-> "none"]
  /\ streaming \in BOOLEAN
  /\ jobs = {} /\ sweep = [k \in Connects |-> {}]
  /\ logged = [c \in Children |-> 0]
  /\ connects = 0 /\ restarts = 0
-----------------------------------------------------------------------------
\* start_subagent: the row is stored before the child is started.
start(c) ==
  /\ streaming /\ run[c] = "none"
  /\ row' = [row EXCEPT ![c] = "running"] /\ run' = [run EXCEPT ![c] = "running"]
  /\ UNCHANGED <<streaming, jobs, sweep, logged, connects, restarts>>

\* call_subagent: the tool waits, nothing is stored.
call(c) ==
  /\ streaming /\ run[c] = "none"
  /\ run' = [run EXCEPT ![c] = "called"]
  /\ UNCHANGED <<row, streaming, jobs, sweep, logged, connects, restarts>>

\* The child's run is over: the tool has its result, or the callback begins.
childEnds(c) ==
  /\ run' = [run EXCEPT ![c] = "over"]
  /\ \/ /\ run[c] = "called"
        /\ logged' = [logged EXCEPT ![c] = @ + 1] /\ UNCHANGED jobs
     \/ /\ run[c] = "running"
        /\ \E s \in {"completed", "failed"} : jobs' = jobs \cup {Job(Callback, c, s)}
        /\ UNCHANGED logged
  /\ UNCHANGED <<row, streaming, sweep, connects, restarts>>

\* cancel_subagent on a row that says running: the child is aborted, which
\* ends its run sooner or later. On any other row it changes nothing.
cancel(c) ==
  /\ streaming /\ row[c] = "running" /\ Jobs(Cancel, c) = {}
  /\ jobs' = jobs \cup {Job(Cancel, c, "canceled")}
  /\ UNCHANGED <<row, run, streaming, sweep, logged, connects, restarts>>

\* onConnect lists the rows that say running, which it takes for orphans ...
onConnect ==
  /\ connects < MaxConnects /\ connects' = connects + 1
  /\ sweep' = [sweep EXCEPT ![connects + 1] = {c \in Children : row[c] = "running"}]
  /\ UNCHANGED <<row, run, streaming, jobs, logged, restarts>>

\* ... and visits them one after the other.
sweepNext(k) ==
  /\ \A c \in Children : Jobs(Hook(k), c) = {}
  /\ \E c \in sweep[k] :
       /\ sweep' = [sweep EXCEPT ![k] = @ \ {c}]
       /\ jobs' = jobs \cup {Job(Hook(k), c, "failed")}
  /\ UNCHANGED <<row, run, streaming, logged, connects, restarts>>
-----------------------------------------------------------------------------
\* PendingSubagentStore.updateState: reads the row and writes it back, unless
\* there is none.
updateGet(j) ==
  /\ j.at = "get" /\ At(j, IF row[j.of] = "none" THEN "then" ELSE "put")
  /\ UNCHANGED <<row, run, streaming, sweep, logged, connects, restarts>>

updatePut(j) ==
  /\ j.at = "put" /\ row' = [row EXCEPT ![j.of] = j.as] /\ At(j, "then")
  /\ UNCHANGED <<run, streaming, sweep, logged, connects, restarts>>

\* Mutant: a child whose row has gone is taken for canceled.
reportListed(j) ==
  /\ j.by = Callback /\ j.at = "then"
  /\ logged' = [logged EXCEPT ![j.of] = IF row[j.of] = "none" THEN @ ELSE @ + 1]
  /\ At(j, IF streaming THEN "delete" ELSE "prompting")
  /\ UNCHANGED <<row, run, streaming, sweep, connects, restarts>>

\* The callback looks at the parent and steers or prompts it in the same step;
\* either way the report is appended to the log at once, and a prompt is
\* waited for to the end of the parent's turn.
report(j) ==
  /\ j.by = Callback /\ j.at = "then"
  /\ logged' = [logged EXCEPT ![j.of] = @ + 1]
  /\ At(j, IF streaming THEN "delete" ELSE "prompting")
  /\ UNCHANGED <<row, run, streaming, sweep, connects, restarts>>

\* promptSession returns or throws; both go on.
promptEnds(j) ==
  /\ j.at = "prompting" /\ At(j, "delete")
  /\ UNCHANGED <<row, run, streaming, sweep, logged, connects, restarts>>

\* Mutant: a cancelled row is kept for check_subagent.
deleteRowUnlessCanceled(j) ==
  /\ j.at = IF j.by = Callback THEN "delete" ELSE "then"
  /\ row' = [row EXCEPT ![j.of] = IF j.by = Cancel THEN @ ELSE "none"]
  /\ jobs' = jobs \ {j}
  /\ UNCHANGED <<run, streaming, sweep, logged, connects, restarts>>

deleteRow(j) ==
  /\ j.at = IF j.by = Callback THEN "delete" ELSE "then"
  /\ row' = [row EXCEPT ![j.of] = "none"]
  /\ jobs' = jobs \ {j}
  /\ UNCHANGED <<run, streaming, sweep, logged, connects, restarts>>

\* A turn of the parent begins or ends.
parentTurn ==
  /\ streaming' = ~streaming
  /\ UNCHANGED <<row, run, jobs, sweep, logged, connects, restarts>>

\* The object is evicted: only the rows and the log are stored.
evict ==
  /\ restarts < MaxRestarts /\ restarts' = restarts + 1
  /\ run' = [c \in Children |->
               IF run[c] \in {"called", "running"} THEN "lost" ELSE run[c]]
  /\ streaming' = FALSE /\ jobs' = {} /\ sweep' = [k \in Connects |-> {}]
  /\ UNCHANGED <<row, logged, connects>>

Next ==
  \/ \E c \in Children : start(c) \/ call(c) \/ childEnds(c) \/ cancel(c)
  \/ onConnect
  \/ \E k \in Connects : sweepNext(k)
  \/ \E j \in jobs : updateGet(j) \/ updatePut(j) \/ report(j) \/ promptEnds(j)
                     \/ deleteRow(j)
  \/ parentTurn
  \/ evict

Spec == Init /\ [][Next]_vars
-----------------------------------------------------------------------------
AtWork(c) == \E j \in jobs : j.of = c

\* Whoever writes a row back after another call deleted it deletes it as well:
\* when a child's run is over and no call is at work on it, its row is gone,
\* unless an eviction cut one of them short.
RowsGo ==
  \A c \in Children :
    restarts = 0 /\ run[c] = "over" /\ ~AtWork(c) => row[c] = "none"

\* A child's end is in the parent's log once: after the callback has reported
\* and not before, whatever canceled the child or deleted its row meanwhile.
ReportedOnce ==
  \A c \in Children :
    /\ logged[c] <= 1
    /\ restarts = 0 /\ run[c] = "over" =>
         logged[c] = IF \E j \in Jobs(Callback, c) : j.at \in {"get", "put", "then"}
                       THEN 0 ELSE 1

\* What becomes of a child that ended.
SubagentReports == ReportedOnce /\ RowsGo

\* What the onConnect hook takes for granted: a row that says running and was
\* not canceled stays while its child runs. It does not: the hook runs at every
\* connection, not only after hibernation.
RunningIsListed ==
  \A c \in Children :
    run[c] = "running" /\ Jobs(Cancel, c) = {} => row[c] = "running"

\* No row outlives an eviction and the next connection. Rows that a callback or
\* a cancel had already marked do.
RowsLeave ==
  \A c \in Children :
    /\ connects = MaxConnects /\ jobs = {} /\ \A k \in Connects : sweep[k] = {}
    /\ run[c] \in {"over", "lost"}
    => row[c] \in {"none", "running"}
=============================================================================
