---------------------------- MODULE TaskTracker ----------------------------
(***************************************************************************)
(* The task-tracker capability: TaskStore and the tools over it.           *)
(*                                                                         *)
(* A task is numbered in the order of creation, so that a number is never  *)
(* used again (nanoid).  A call that throws before its first statement     *)
(* changes nothing and is no step; one that throws later is.               *)
(***************************************************************************)
EXTENDS Integers, Sequences, FiniteSets, SequencesExt

CONSTANTS Sessions,   \* sessions whose agents use the tools
          CanWrite,   \* authChecker: pairs <<caller, owner>>
          MaxTasks,   \* bound: tasks ever created
          MaxDeps     \* bound: length of dependsOn

VARIABLES tasks,      \* the table tasks: number -> owner, parent_id, status
          deps,       \* the table task_deps
          created     \* tasks created so far

vars == <<tasks, deps, created>>

NoTask == 0
Blocking == {"blocks", "parent-child"}
ValidTransitions ==
  {<<"open", "in_progress">>, <<"open", "closed">>, <<"in_progress", "closed">>,
   <<"in_progress", "blocked">>, <<"blocked", "in_progress">>, <<"blocked", "closed">>}

TaskIds == DOMAIN tasks
Put(f, x, y) == [z \in DOMAIN f \cup {x} |-> IF z = x THEN y ELSE f[z]]
Owned(s) == {t \in TaskIds : tasks[t].owner = s}
MayWrite(s, t) == t \in TaskIds /\ <<s, tasks[t].owner>> \in CanWrite

-----------------------------------------------------------------------------
(***************************************************************************)
(* assertNoCycle walks the blocking edges from the target; with d the      *)
(* edges, reach[k] is what k rounds of the walk have seen.                 *)
(***************************************************************************)
\* Mutant: only the edges made by task_dep_add are followed.
WalkBlocks(d, from) ==
  LET edges == {e \in d : e.type = "blocks"}
      reach[k \in 0 .. MaxTasks] ==
        IF k = 0 THEN {from}
        ELSE reach[k - 1] \cup {e.target : e \in {x \in edges : x.source \in reach[k - 1]}}
  IN  reach[MaxTasks]

Walk(d, from) ==
  LET edges == {e \in d : e.type \in Blocking}
      reach[k \in 0 .. MaxTasks] ==
        IF k = 0 THEN {from}
        ELSE reach[k - 1] \cup {e.target : e \in {x \in edges : x.source \in reach[k - 1]}}
  IN  reach[MaxTasks]

\* addDepInternal succeeds: no edge to itself, no blocking cycle, and no edge
\* between the two yet, which is the table's primary key.
CanAddDep(d, s, t, type) ==
  /\ s # t
  /\ type \in Blocking => s \notin Walk(d, t)
  /\ ~\E e \in d : e.source = s /\ e.target = t

Dep(s, t, type) == [source |-> s, target |-> t, type |-> type]

-----------------------------------------------------------------------------
\* The edges that create inserts for dependsOn, up to the first that throws
\* (a target named twice, or the parent again); a target need not exist.
AddAll(d, id, dependsOn) ==
  LET done[i \in 0 .. Len(dependsOn)] ==
        IF i = 0 THEN [deps |-> d, ok |-> TRUE]
        ELSE LET p == done[i - 1] IN
             IF p.ok /\ CanAddDep(p.deps, id, dependsOn[i], "blocks")
               THEN [p EXCEPT !.deps = @ \cup {Dep(id, dependsOn[i], "blocks")}]
               ELSE [p EXCEPT !.ok = FALSE]
  IN  done[Len(dependsOn)].deps

\* task_create.  The row stays when an edge throws.
create(s, parent, dependsOn) ==
  /\ created < MaxTasks
  /\ parent # NoTask => MayWrite(s, parent)
  /\ LET id == created + 1
         up == IF parent = NoTask THEN {} ELSE {Dep(id, parent, "parent-child")}
     IN  /\ tasks' = Put(tasks, id, [owner |-> s, parent |-> parent, status |-> "open"])
         /\ deps' = AddAll(deps \cup up, id, dependsOn)
         /\ created' = id

\* task_update to another status, and task_close.
setStatus(s, t, status) ==
  /\ MayWrite(s, t)
  /\ <<tasks[t].status, status>> \in ValidTransitions
  /\ tasks' = [tasks EXCEPT ![t].status = status]
  /\ UNCHANGED <<deps, created>>

\* task_dep_add and addDep; both tasks exist.
addDep(s, source, target, type) ==
  /\ MayWrite(s, source) /\ target \in TaskIds
  /\ CanAddDep(deps, source, target, type)
  /\ deps' = deps \cup {Dep(source, target, type)}
  /\ UNCHANGED <<tasks, created>>

removeDep(s, source, target) ==
  /\ MayWrite(s, source)
  /\ deps' = {d \in deps : d.source # source \/ d.target # target}
  /\ UNCHANGED <<tasks, created>>

\* task_clear: the session's tasks and the edges that start at them; edges of
\* other tasks keep their target.
deleteBySession(s) ==
  /\ Owned(s) # {}
  /\ deps' = {d \in deps : d.source \notin Owned(s)}
  /\ tasks' = [t \in TaskIds \ Owned(s) |-> tasks[t]]
  /\ UNCHANGED created

\* task_ready.
ready(s) ==
  {t \in Owned(s) :
     /\ tasks[t].status = "open"
     /\ ~\E d \in deps : /\ d.source = t /\ d.type \in Blocking
                         /\ d.target \in TaskIds /\ tasks[d.target].status # "closed"}

Init == tasks = <<>> /\ deps = {} /\ created = 0

Next ==
  \E s \in Sessions :
    \/ \E p \in 0 .. created, ts \in SeqOf(1 .. created, MaxDeps) : create(s, p, ts)
    \/ \E t \in TaskIds, status \in {"in_progress", "blocked", "closed"} : setStatus(s, t, status)
    \/ \E x \in TaskIds, y \in TaskIds :
         \/ \E type \in {"blocks", "related"} : addDep(s, x, y, type)
         \/ removeDep(s, x, y)
    \/ deleteBySession(s)

Spec == Init /\ [][Next]_vars
-----------------------------------------------------------------------------
\* Work can always proceed: while there are open tasks and none of any other
\* unclosed status, task_ready offers one to some session.  No sequence of
\* creations, edges and deletions makes tasks wait for each other.
WorkCanProceed ==
  /\ \E t \in TaskIds : tasks[t].status = "open"
  /\ \A t \in TaskIds : tasks[t].status \in {"open", "closed"}
  => \E s \in Sessions : ready(s) # {}

\* Clearing a session's tasks and failing creations leave no edge of a task
\* that does not exist, which would be found again by the cycle check.
EdgesHaveSource == \A d \in deps : d.source \in TaskIds
=============================================================================
