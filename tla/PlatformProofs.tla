--------------------------- MODULE PlatformProofs ---------------------------
(***************************************************************************)
(* That each part of Platform keeps what it promises, by itself and for    *)
(* all constants; and the same of a channel (Channel), which is checked    *)
(* with them, and of the rate limiter it uses.                             *)
(***************************************************************************)
EXTENDS Channel, Platform, ListsProofs, FiniteSetTheorems, TLAPS

-----------------------------------------------------------------------------
(***************************************************************************)
(* A2A.  A result is put into the session by a callback, for which there   *)
(* is one notification; after it nothing may store the row again: neither  *)
(* the answer of start_task, which came before, nor a second notification, *)
(* nor an answer to check_task that was asked while the row was there.     *)
(***************************************************************************)
States == {"none", "working", "completed", "failed"}

NotYet(id) ==
  /\ reply[id] = A!Nothing /\ push[id] = A!Nothing /\ pending[id] = A!Nothing
  /\ state[id] = A!Nothing /\ id \notin delivered

TaskInv ==
  /\ created \in Nat
  /\ state \in [A!Ids -> States] /\ reply \in [A!Ids -> States]
  /\ push \in [A!Ids -> States] /\ pending \in [A!Ids -> States]
  /\ check \in [A!Ids -> States]
  /\ \A id \in A!Ids :
       /\ id > created => NotYet(id)
       /\ pending[id] # A!Nothing => reply[id] = A!Nothing
       /\ push[id] # A!Nothing => state[id] # "working"
       /\ id \in delivered => /\ reply[id] = A!Nothing /\ push[id] = A!Nothing
                              /\ state[id] # "working"
  /\ A!DeliveredRowGone /\ delivered \subseteq A!Ids

\* Each step of the two agents preserves TaskInv.
LEMMA NextTaskInv ==
  ASSUME MaxTasks \in Nat, TaskInv, [A!Next]_(A!vars)
  PROVE  TaskInv'
<1> USE DEF TaskInv, NotYet, States, A!DeliveredRowGone, A!Ids, A!Nothing, A!server, A!caller, A!net
<1>1. ASSUME NEW text \in BOOLEAN, A!start_task(text) PROVE TaskInv'
  BY <1>1 DEF A!start_task, A!Accept
<1>2. ASSUME NEW text \in BOOLEAN, NEW blocking \in BOOLEAN, A!sendStream(text, blocking)
      PROVE  TaskInv'
  BY <1>2 DEF A!sendStream, A!Accept
<1>3. ASSUME NEW id \in A!Ids, A!taskStarted(id) \/ A!startLost(id) \/ A!pushLost(id)
      PROVE  TaskInv'
  <2>1. CASE A!taskStarted(id)
    BY <2>1 DEF A!taskStarted
  <2>2. CASE A!startLost(id)
    BY <2>2 DEF A!startLost
  <2>3. CASE A!pushLost(id)
    BY <2>3 DEF A!pushLost
  <2>4. QED
    BY <1>3, <2>1, <2>2, <2>3
<1>4. ASSUME NEW id \in A!Ids, NEW s \in A!Terminal, A!finish(id, s) PROVE TaskInv'
  BY <1>4 DEF A!finish, A!Terminal
<1>5. ASSUME NEW id \in A!Ids, A!callback(id) PROVE TaskInv'
  <2>1. /\ push[id] # "none" /\ push' = [push EXCEPT ![id] = "none"]
        /\ UNCHANGED <<created, state, kind, bus, stream, reply, check>>
    BY <1>5 DEF A!callback
  <2>2. CASE pending[id] = "none" /\ UNCHANGED <<pending, injecting, delivered>>
    BY <2>1, <2>2
  <2>3. CASE /\ pending[id] # "none" /\ pending' = [pending EXCEPT ![id] = "none"]
             /\ UNCHANGED <<injecting, delivered>>
    BY <2>1, <2>3
  <2>4. CASE /\ pending[id] # "none" /\ pending' = [pending EXCEPT ![id] = push[id]]
             /\ injecting' = injecting \cup {id} /\ delivered' = delivered \cup {id}
    BY <2>1, <2>4
  <2>5. QED
    BY <1>5, <2>2, <2>3, <2>4 DEF A!callback
<1>6. ASSUME NEW id \in A!Ids, A!injected(id) PROVE TaskInv'
  BY <1>6 DEF A!injected
<1>7. ASSUME NEW id \in A!Ids, A!check_task(id) \/ A!taskChecked(id) PROVE TaskInv'
  <2>1. CASE A!check_task(id)
    BY <2>1 DEF A!check_task
  <2>2. CASE A!taskChecked(id)
    BY <2>2 DEF A!taskChecked
  <2>3. QED
    BY <1>7, <2>1, <2>2
<1>8. ASSUME A!originRun \/ (\E id \in A!Ids : A!closeStream(id)) \/ UNCHANGED A!vars
      PROVE  TaskInv'
  BY <1>8 DEF A!originRun, A!closeStream, A!vars
<1>9. QED
  BY <1>1, <1>2, <1>3, <1>4, <1>5, <1>6, <1>7, <1>8 DEF A!Next

\* For any number of tasks and with requests, answers and notifications lost or
\* late: a task whose result was put into the session is not pending again.
THEOREM ResultsAreFinal == ASSUME MaxTasks \in Nat PROVE A!Spec => []DeliveredRowGone
<1>1. A!Init => TaskInv
  BY DEF A!Init, TaskInv, NotYet, States, A!DeliveredRowGone, A!Nothing
<1>2. TaskInv /\ [A!Next]_(A!vars) => TaskInv'
  BY NextTaskInv
<1>3. TaskInv => DeliveredRowGone
  BY DEF TaskInv, DeliveredRowGone
<1>4. QED
  BY <1>1, <1>2, <1>3, PTL DEF A!Spec

-----------------------------------------------------------------------------
(***************************************************************************)
(* BundleDispatch.  The guard's cache is right by itself: validated names  *)
(* a version that this host can take, and is forgotten with the host.  For *)
(* that the version a turn carries must never be none, which is what       *)
(* validated is while nothing was; it comes from pointers that were looked *)
(* at, but with anything in between.                                       *)
(***************************************************************************)
TurnPCs == {"idle", "cold", "coldReply", "rebuild", "wait", "validate", "fetch",
            "disable", "disableConfig", "revert", "cleared", "clearedConfig",
            "refresh", "refreshReply", "metadata"}
SurfacePCs == {"idle", "cold", "coldReply", "declared", "validate", "again", "serve",
               "disable", "disableConfig", "cleared", "clearedConfig"}
WriterPCs == {"idle", "refresh", "refreshReply", "metadata", "cleared"}

\* The turn carries a version.
Carrying == {"declared", "rebuild", "wait", "validate", "fetch", "again"}
Rebuilding == {"rebuild", "refresh", "refreshReply", "metadata"}

Pointers == Versions \cup {D!NoVersion}

DispatchTypes ==
  /\ active \in Pointers /\ cache \in Pointers \cup {D!Unset}
  /\ rebuild \in {"no", "running", "done"}
  /\ task \in [D!Tasks -> [pc : TurnPCs \cup SurfacePCs \cup WriterPCs,
                           v : Pointers, read : Pointers]]
  /\ \A t \in Turns : task[t].pc \in TurnPCs
  /\ \A t \in Surfaces : task[t].pc \in SurfacePCs
  /\ task[D!Writer].pc \in WriterPCs

DispatchInv ==
  /\ DispatchTypes
  /\ validated # D!NoVersion => validated \in host.caps
  /\ \A t \in D!Tasks : task[t].pc \in Carrying => task[t].v \in Versions
  /\ \A t \in Turns : task[t].pc \in {"refresh", "refreshReply", "metadata"} => task[t].v \in Versions
  /\ D!GuardedDispatch
  /\ \A t, u \in Turns : task[t].pc \in Rebuilding /\ task[u].pc \in Rebuilding => t = u
  /\ rebuild = "no" => \A t \in Turns : task[t].pc \notin Rebuilding

\* A step of one task that leaves host and versions looked at as they are: what
\* has to be shown of it.
LEMMA TaskStep ==
  ASSUME D!DispatchConstants, DispatchInv, NEW t \in D!Tasks, NEW r,
         task' = [task EXCEPT ![t] = r],
         r \in [pc : TurnPCs \cup SurfacePCs \cup WriterPCs, v : Pointers, read : Pointers],
         t \in Turns => r.pc \in TurnPCs,
         t \in Surfaces => r.pc \in SurfacePCs,
         t = D!Writer => r.pc \in WriterPCs,
         r.pc \in Carrying => r.v \in Versions,
         t \in Turns /\ r.pc \in {"refresh", "refreshReply", "metadata"} => r.v \in Versions,
         t \in Turns /\ r.pc = "fetch" => r.v \in host.caps,
         t \in Turns /\ r.pc \in Rebuilding => task[t].pc \in Rebuilding \/ rebuild = "no",
         rebuild' = "no" => rebuild = "no" /\ (t \in Turns => r.pc \notin Rebuilding),
         rebuild' \in {"no", "running", "done"},
         validated' \in {validated, D!NoVersion} \/ validated' \in host.caps,
         active' \in Pointers, cache' \in Pointers \cup {D!Unset},
         host' = host
  PROVE  DispatchInv'
<1>1. /\ task'[t] = r /\ \A u \in D!Tasks \ {t} : task'[u] = task[u]
      /\ Turns \subseteq D!Tasks /\ Surfaces \subseteq D!Tasks /\ D!Writer \in D!Tasks
  BY DEF DispatchInv, DispatchTypes, D!Tasks
<1>2. DispatchTypes'
  BY <1>1 DEF DispatchInv, DispatchTypes, D!Tasks
<1>3. D!GuardedDispatch'
  BY <1>1 DEF DispatchInv, D!GuardedDispatch
<1>4. /\ \A u \in D!Tasks : task'[u].pc \in Carrying => task'[u].v \in Versions
      /\ \A u \in Turns : task'[u].pc \in {"refresh", "refreshReply", "metadata"} => task'[u].v \in Versions
  BY <1>1 DEF DispatchInv
<1>5. /\ \A u, w \in Turns : task'[u].pc \in Rebuilding /\ task'[w].pc \in Rebuilding => u = w
      /\ rebuild' = "no" => \A u \in Turns : task'[u].pc \notin Rebuilding
  BY <1>1 DEF DispatchInv
<1>6. validated' # D!NoVersion => validated' \in host'.caps
  BY DEF DispatchInv
<1>7. QED
  BY <1>2, <1>3, <1>4, <1>5, <1>6 DEF DispatchInv

TaskRow == [pc : TurnPCs \cup SurfacePCs \cup WriterPCs, v : Pointers, read : Pointers]

\* Two fields of a task's row at a time.
LEMMA ReadUpdate ==
  ASSUME NEW r \in TaskRow, NEW p, NEW x
  PROVE  [r EXCEPT !.pc = p, !.read = x] = [pc |-> p, v |-> r.v, read |-> x]
<1> USE DEF TaskRow
<1> DEFINE q == [r EXCEPT !.pc = p]
<1>1. q = [pc |-> p, v |-> r.v, read |-> r.read]
  OBVIOUS
<1>2. q \in [pc : {p}, v : Pointers, read : Pointers] /\ q.pc = p /\ q.v = r.v
  BY <1>1
<1> HIDE DEF q
<1>3. [q EXCEPT !.read = x] = [pc |-> p, v |-> r.v, read |-> x]
  BY <1>2
<1>4. QED
  BY <1>3 DEF q

\* What setting the version and the place of a task makes of its record.
LEMMA VersionUpdate ==
  ASSUME NEW r \in TaskRow, NEW p, NEW v
  PROVE  [r EXCEPT !.v = v, !.pc = p] = [pc |-> p, v |-> v, read |-> r.read]
<1> USE DEF TaskRow
<1> DEFINE q == [r EXCEPT !.v = v]
<1>1. q = [pc |-> r.pc, v |-> v, read |-> r.read]
  OBVIOUS
<1>2. q \in [pc : TurnPCs \cup SurfacePCs \cup WriterPCs, v : {v}, read : Pointers] /\ q.v = v /\ q.read = r.read
  BY <1>1
<1> HIDE DEF q
<1>3. [q EXCEPT !.pc = p] = [pc |-> p, v |-> v, read |-> r.read]
  BY <1>2
<1>4. QED
  BY <1>3 DEF q

\* The forms in which a step writes its task, and where each kind of task can be.
LEMMA TaskUpdates ==
  ASSUME DispatchInv, NEW t \in D!Tasks
  PROVE  /\ task[t] \in TaskRow /\ D!Idle \in TaskRow
         /\ \A p : D!Goto(t, p) =>
              task' = [task EXCEPT ![t] = [pc |-> p, v |-> task[t].v, read |-> task[t].read]]
         /\ \A p, x : (task' = [task EXCEPT ![t].pc = p, ![t].read = x]) =>
              task' = [task EXCEPT ![t] = [pc |-> p, v |-> task[t].v, read |-> x]]
         /\ \A p, v : [D!Idle EXCEPT !.v = v, !.pc = p] = [pc |-> p, v |-> v, read |-> D!NoVersion]
         /\ t \in Turns => task[t].pc \in TurnPCs
         /\ t \in Surfaces => task[t].pc \in SurfacePCs
         /\ t = D!Writer => task[t].pc \in WriterPCs
<1>1. task \in [D!Tasks -> TaskRow]
  BY DEF DispatchInv, DispatchTypes, TaskRow
<1>2. task[t] \in TaskRow /\ task[t] = [pc |-> task[t].pc, v |-> task[t].v, read |-> task[t].read]
  BY <1>1 DEF TaskRow
<1>3. D!Idle \in TaskRow
  BY DEF D!Idle, TaskRow, Pointers, TurnPCs
<1>4. ASSUME NEW p, D!Goto(t, p)
      PROVE  task' = [task EXCEPT ![t] = [pc |-> p, v |-> task[t].v, read |-> task[t].read]]
  <2>1. [task[t] EXCEPT !.pc = p] = [pc |-> p, v |-> task[t].v, read |-> task[t].read]
    BY <1>2 DEF TaskRow
  <2>2. task' = [task EXCEPT ![t] = [task[t] EXCEPT !.pc = p]]
    BY <1>4 DEF D!Goto
  <2>3. QED
    BY <2>1, <2>2
<1>5. ASSUME NEW p, NEW x, task' = [task EXCEPT ![t].pc = p, ![t].read = x]
      PROVE  task' = [task EXCEPT ![t] = [pc |-> p, v |-> task[t].v, read |-> x]]
  <2> task[t] \in TaskRow
    BY <1>2
  <2>1. [task[t] EXCEPT !.pc = p, !.read = x] = [pc |-> p, v |-> task[t].v, read |-> x]
    BY ReadUpdate, Zenon
  <2>2. task' = [task EXCEPT ![t] = [task[t] EXCEPT !.pc = p, !.read = x]]
    BY <1>1, <1>5
  <2>3. QED
    BY <2>1, <2>2
<1>6. \A p, v : [D!Idle EXCEPT !.v = v, !.pc = p] = [pc |-> p, v |-> v, read |-> D!NoVersion]
  <2>1. TAKE p, v
  <2>2. D!Idle.read = D!NoVersion
    BY DEF D!Idle
  <2>3. QED
    BY <1>3, <2>2, VersionUpdate, Zenon
<1>7. /\ t \in Turns => task[t].pc \in TurnPCs
      /\ t \in Surfaces => task[t].pc \in SurfacePCs
      /\ t = D!Writer => task[t].pc \in WriterPCs
  BY DEF DispatchInv, DispatchTypes
<1>8. /\ task[t] \in TaskRow /\ D!Idle \in TaskRow
  BY <1>2, <1>3
<1>9. QED
  BY <1>4, <1>5, <1>6, <1>7, <1>8

\* Where the guard sends a version.
LEMMA GuardTo ==
  ASSUME D!DispatchConstants, DispatchInv, NEW t \in D!Tasks, NEW v \in Versions, D!Guard(t, v)
  PROVE  \E p \in {"validate", D!Guarded(t)} :
           /\ task' = [task EXCEPT ![t] = [pc |-> p, v |-> v, read |-> D!NoVersion]]
           /\ p # "validate" => v \in host.caps
<1>1. [D!Idle EXCEPT !.v = v, !.pc = IF v = validated THEN D!Guarded(t) ELSE "validate"]
        = [pc |-> IF v = validated THEN D!Guarded(t) ELSE "validate", v |-> v, read |-> D!NoVersion]
  BY TaskUpdates
<1>2. v = validated => v \in host.caps
  BY DEF DispatchInv, D!DispatchConstants, D!NoVersion, D!Unset
<1>3. task' = [task EXCEPT ![t] = [pc |-> IF v = validated THEN D!Guarded(t) ELSE "validate",
                                  v |-> v, read |-> D!NoVersion]]
  BY <1>1 DEF D!Guard
<1>4. CASE v = validated
  BY <1>2, <1>3, <1>4
<1>5. CASE v # validated
  BY <1>3, <1>5
<1>6. QED
  BY <1>4, <1>5

\* The guard leaves the invariant, from any place where a task may be.
LEMMA GuardStep ==
  ASSUME D!DispatchConstants, DispatchInv, NEW t \in Turns \cup Surfaces, NEW v \in Versions,
         D!Guard(t, v), rebuild' = rebuild \/ rebuild' = "done",
         active' \in Pointers, cache' \in Pointers \cup {D!Unset}, UNCHANGED <<host, validated>>
  PROVE  DispatchInv'
<1>1. PICK p \in {"validate", D!Guarded(t)} :
        /\ task' = [task EXCEPT ![t] = [pc |-> p, v |-> v, read |-> D!NoVersion]]
        /\ p # "validate" => v \in host.caps
  BY GuardTo DEF D!Tasks
<1> DEFINE r == [pc |-> p, v |-> v, read |-> D!NoVersion]
<1>2. /\ p \in {"validate", "again", "fetch"} /\ (t \in Turns => p \in {"validate", "fetch"})
      /\ (t \in Surfaces => p \in {"validate", "again"})
      /\ t # D!Writer /\ t \in D!Tasks
  BY DEF D!Guarded, D!DispatchConstants, D!Tasks
<1>3. r.pc = p /\ r.v = v /\ r \in [pc : TurnPCs \cup SurfacePCs \cup WriterPCs, v : Pointers, read : Pointers]
  BY <1>2 DEF TurnPCs, SurfacePCs, Pointers
<1>4. task' = [task EXCEPT ![t] = r]
  BY <1>1
<1> HIDE DEF r
<1>5. /\ t \in Turns => r.pc \in TurnPCs /\ r.pc \notin Rebuilding
      /\ t \in Surfaces => r.pc \in SurfacePCs
      /\ r.pc \notin Rebuilding /\ r.pc \notin {"refresh", "refreshReply", "metadata"}
      /\ t \in Turns /\ r.pc = "fetch" => r.v \in host.caps
  BY <1>1, <1>2, <1>3 DEF TurnPCs, SurfacePCs, Rebuilding
<1>6. rebuild' \in {"no", "running", "done"} /\ (rebuild' = "no" => rebuild = "no")
  BY DEF DispatchInv, DispatchTypes
<1>7. QED
  BY <1>2, <1>3, <1>4, <1>5, <1>6, TaskStep

\* checkActiveBundle's version goes to the guard, or to the rebuild.
LEMMA AfterCheckStep ==
  ASSUME D!DispatchConstants, DispatchInv, NEW t \in Turns, NEW v \in Versions,
         D!AfterCheck(t, v), active' \in Pointers, cache' \in Pointers \cup {D!Unset},
         UNCHANGED <<host, validated>>
  PROVE  DispatchInv'
<1>1. rebuild \in {"no", "running", "done"} /\ t \in D!Tasks /\ t # D!Writer /\ t \notin Surfaces
  BY DEF DispatchInv, DispatchTypes, D!Tasks, D!DispatchConstants
<1>2. CASE rebuild = "done"
  BY <1>2, GuardStep DEF D!AfterCheck
<1>3. CASE rebuild = "running" \/ rebuild = "no"
  <2>1. PICK p \in {"wait", "rebuild"} :
          /\ task' = [task EXCEPT ![t] = [D!Idle EXCEPT !.v = v, !.pc = p]]
          /\ p = "wait" => rebuild' = rebuild /\ rebuild = "running"
          /\ p = "rebuild" => rebuild' = "running" /\ rebuild = "no"
    BY <1>3 DEF D!AfterCheck
  <2> DEFINE r == [pc |-> p, v |-> v, read |-> D!NoVersion]
  <2>2. task' = [task EXCEPT ![t] = r]
    BY <1>1, <2>1, TaskUpdates
  <2>3. r.pc = p /\ r.v = v /\ r \in [pc : TurnPCs \cup SurfacePCs \cup WriterPCs, v : Pointers, read : Pointers]
    BY DEF TurnPCs, Pointers
  <2> HIDE DEF r
  <2>4. /\ r.pc \in TurnPCs /\ r.pc # "fetch"
        /\ r.pc \notin {"refresh", "refreshReply", "metadata"}
        /\ r.pc \in Rebuilding => rebuild = "no"
        /\ rebuild' = "running"
    BY <2>1, <2>3 DEF TurnPCs, Rebuilding
  <2>5. QED
    BY <1>1, <2>2, <2>3, <2>4, TaskStep
<1>4. QED
  BY <1>1, <1>2, <1>3

\* A step that does not look at the versions: a task goes to a place where
\* nothing is required of it.
Free == {"idle", "cold", "coldReply", "disable", "disableConfig", "revert",
         "cleared", "clearedConfig", "serve"}

\* A step to a place that promises nothing of its version preserves DispatchInv.
LEMMA FreeStep ==
  ASSUME D!DispatchConstants, DispatchInv, NEW t \in D!Tasks, NEW p \in Free,
         NEW v \in Pointers, NEW x \in Pointers,
         task' = [task EXCEPT ![t] = [pc |-> p, v |-> v, read |-> x]],
         t \in Turns => p \in TurnPCs, t \in Surfaces => p \in SurfacePCs,
         t = D!Writer => p \in WriterPCs,
         rebuild' = rebuild \/ rebuild' = "done",
         validated' \in {validated, D!NoVersion} \/ validated' \in host.caps,
         active' \in Pointers, cache' \in Pointers \cup {D!Unset}, host' = host
  PROVE  DispatchInv'
<1> DEFINE r == [pc |-> p, v |-> v, read |-> x]
<1>1. p \notin Carrying /\ p \notin Rebuilding /\ p \notin {"refresh", "refreshReply", "metadata"}
      /\ p # "fetch" /\ p \in TurnPCs \cup SurfacePCs \cup WriterPCs
  BY DEF Free, Carrying, Rebuilding, TurnPCs, SurfacePCs
<1>2. r.pc = p /\ r \in [pc : TurnPCs \cup SurfacePCs \cup WriterPCs, v : Pointers, read : Pointers]
  BY <1>1
<1>3. task' = [task EXCEPT ![t] = r]
  OBVIOUS
<1> HIDE DEF r
<1>4. rebuild' \in {"no", "running", "done"} /\ (rebuild' = "no" => rebuild = "no")
  BY DEF DispatchInv, DispatchTypes
<1>5. QED
  BY <1>1, <1>2, <1>3, <1>4, TaskStep

\* The same for a task that only changes its place, or is done.
LEMMA GotoStep ==
  ASSUME D!DispatchConstants, DispatchInv, NEW t \in D!Tasks, NEW p \in Free,
         D!Goto(t, p) \/ (D!Done(t) /\ p = "idle"),
         t \in Turns => p \in TurnPCs, t \in Surfaces => p \in SurfacePCs,
         t = D!Writer => p \in WriterPCs,
         rebuild' = rebuild \/ rebuild' = "done",
         validated' \in {validated, D!NoVersion} \/ validated' \in host.caps,
         active' \in Pointers, cache' \in Pointers \cup {D!Unset}, host' = host
  PROVE  DispatchInv'
<1>1. CASE D!Goto(t, p)
  <2>1. task' = [task EXCEPT ![t] = [pc |-> p, v |-> task[t].v, read |-> task[t].read]]
    BY <1>1, TaskUpdates, Zenon
  <2>2. task[t].v \in Pointers /\ task[t].read \in Pointers
    BY TaskUpdates DEF TaskRow
  <2>3. QED
    BY <2>1, <2>2, FreeStep, Zenon
<1>2. CASE D!Done(t) /\ p = "idle"
  <2>1. task' = [task EXCEPT ![t] = [pc |-> p, v |-> D!NoVersion, read |-> D!NoVersion]]
    BY <1>2 DEF D!Done, D!Idle
  <2>2. D!NoVersion \in Pointers
    BY DEF Pointers
  <2>3. QED
    BY <2>1, <2>2, FreeStep, Zenon
<1>3. QED
  BY <1>1, <1>2

\* What a task does before its version passed the guard.
LEMMA TurnBegins ==
  ASSUME D!DispatchConstants, DispatchInv, NEW t \in Turns, D!startTurn(t)
  PROVE  DispatchInv'
<1>1. /\ cache # D!NoVersion /\ cache \in Pointers \cup {D!Unset} /\ active \in Pointers
      /\ t \in D!Tasks /\ t # D!Writer /\ t \notin Surfaces
      /\ UNCHANGED <<active, cache, host, validated>>
  BY DEF D!startTurn, DispatchInv, DispatchTypes, D!Tasks, D!DispatchConstants
<1>2. CASE cache = D!Unset
  <2>1. D!Goto(t, "cold") /\ rebuild' = rebuild
    BY <1>2 DEF D!startTurn
  <2>2. "cold" \in Free /\ "cold" \in TurnPCs
    BY DEF Free, TurnPCs
  <2>3. QED
    BY <1>1, <2>1, <2>2, GotoStep
<1>3. CASE cache # D!Unset
  <2>1. cache \in Versions /\ D!AfterCheck(t, cache)
    BY <1>1, <1>3 DEF D!startTurn, Pointers
  <2>2. QED
    BY <1>1, <2>1, AfterCheckStep
<1>4. QED
  BY <1>2, <1>3

\* A request to a route or action of a version that was looked up for it.
LEMMA SurfaceStep ==
  ASSUME D!DispatchConstants, DispatchInv, NEW t \in Surfaces, NEW v \in Versions,
         NEW p \in {"declared", "serve"},
         task' = [task EXCEPT ![t] = [D!Idle EXCEPT !.v = v, !.pc = p]],
         active' \in Pointers, cache' \in Pointers \cup {D!Unset},
         UNCHANGED <<host, validated, rebuild>>
  PROVE  DispatchInv'
<1> DEFINE r == [pc |-> p, v |-> v, read |-> D!NoVersion]
<1>1. t \in D!Tasks /\ t # D!Writer /\ t \notin Turns
  BY DEF D!Tasks, D!DispatchConstants
<1>2. task' = [task EXCEPT ![t] = r]
  BY <1>1, TaskUpdates
<1>3. r.pc \in SurfacePCs /\ r.v \in Versions
      /\ r \in [pc : TurnPCs \cup SurfacePCs \cup WriterPCs, v : Pointers, read : Pointers]
  BY DEF SurfacePCs, Pointers
<1>4. rebuild' \in {"no", "running", "done"}
  BY DEF DispatchInv, DispatchTypes
<1> HIDE DEF r
<1>5. QED
  BY <1>1, <1>2, <1>3, <1>4, TaskStep

\* A request for a surface may begin at any time.
LEMMA SurfaceBegins ==
  ASSUME D!DispatchConstants, DispatchInv, NEW t \in Surfaces, D!startSurface(t)
  PROVE  DispatchInv'
<1>1. /\ cache # D!NoVersion /\ cache \in Pointers \cup {D!Unset} /\ active \in Pointers
      /\ t \in D!Tasks /\ t # D!Writer /\ t \notin Turns
      /\ UNCHANGED <<active, cache, host, validated, rebuild>>
  BY DEF D!startSurface, D!memory, DispatchInv, DispatchTypes, D!Tasks, D!DispatchConstants
<1>2. CASE cache = D!Unset
  <2>1. D!Goto(t, "cold") /\ "cold" \in Free /\ "cold" \in SurfacePCs
    BY <1>2 DEF D!startSurface, Free, SurfacePCs
  <2>2. QED
    BY <1>1, <2>1, GotoStep
<1>3. CASE cache # D!Unset
  <2>1. cache \in Versions /\ task' = [task EXCEPT ![t] = [D!Idle EXCEPT !.v = cache, !.pc = "declared"]]
    BY <1>1, <1>3 DEF D!startSurface, D!GoesDeclared, Pointers
  <2>2. QED
    BY <1>1, <2>1, SurfaceStep
<1>4. QED
  BY <1>2, <1>3

\* A task whose pointer lookup comes back, and one that carries a version on.
LEMMA ColdStep ==
  ASSUME D!DispatchConstants, DispatchInv, NEW t \in D!Tasks,
         D!coldRead(t) \/ D!coldReply(t)
  PROVE  DispatchInv'
<1>1. /\ task[t] \in TaskRow /\ active \in Pointers /\ cache \in Pointers \cup {D!Unset}
      /\ task[t].read \in Pointers /\ task[t].v \in Pointers /\ D!NoVersion \in Pointers
      /\ t \in Turns => task[t].pc \in TurnPCs
      /\ t \in Surfaces => task[t].pc \in SurfacePCs
      /\ t = D!Writer => task[t].pc \in WriterPCs
  BY TaskUpdates DEF DispatchInv, DispatchTypes, TaskRow, Pointers
<1>2. t \in Turns \/ t \in Surfaces
  BY <1>1 DEF D!coldRead, D!coldReply, WriterPCs, D!Tasks
<1>3. t # D!Writer /\ ~(t \in Turns /\ t \in Surfaces)
  BY <1>2 DEF D!DispatchConstants
<1>4. {"coldReply", "idle"} \subseteq Free \cap TurnPCs \cap SurfacePCs
  BY DEF Free, TurnPCs, SurfacePCs
<1>5. CASE D!coldRead(t)
  <2>1. /\ task' = [task EXCEPT ![t].pc = "coldReply", ![t].read = active]
        /\ UNCHANGED <<active, cache, host, validated, rebuild>>
    BY <1>5 DEF D!coldRead, D!memory
  <2>2. task' = [task EXCEPT ![t] = [pc |-> "coldReply", v |-> task[t].v, read |-> active]]
    <3>1. \A p, x : (task' = [task EXCEPT ![t].pc = p, ![t].read = x]) =>
            task' = [task EXCEPT ![t] = [pc |-> p, v |-> task[t].v, read |-> x]]
      BY TaskUpdates, Zenon
    <3>2. QED
      BY <2>1, <3>1
  <2>3. QED
    BY <1>1, <1>3, <1>4, <2>1, <2>2, FreeStep
<1>6. CASE D!coldReply(t)
  <2>1. cache' \in Pointers /\ UNCHANGED <<active, host, validated>>
    BY <1>1, <1>6 DEF D!coldReply
  <2>2. CASE cache' = D!NoVersion
    <3>1. D!Done(t) /\ rebuild' = rebuild
      BY <1>6, <2>2 DEF D!coldReply
    <3>2. QED
      BY <1>1, <1>3, <1>4, <2>1, <3>1, GotoStep
  <2>3. CASE cache' # D!NoVersion /\ t \in Turns
    <3>1. D!AfterCheck(t, cache') /\ cache' \in Versions
      BY <1>3, <1>6, <2>1, <2>3 DEF D!coldReply, Pointers
    <3>2. QED
      BY <1>1, <2>1, <2>3, <3>1, AfterCheckStep
  <2>4. CASE cache' # D!NoVersion /\ t \in Surfaces
    <3>1. /\ cache' \in Versions /\ rebuild' = rebuild
          /\ task' = [task EXCEPT ![t] = [D!Idle EXCEPT !.v = cache', !.pc = "declared"]]
      BY <1>3, <1>6, <2>1, <2>4 DEF D!coldReply, D!GoesDeclared, Pointers
    <3>2. QED
      BY <1>1, <2>1, <2>4, <3>1, SurfaceStep
  <2>5. QED
    BY <1>2, <2>2, <2>3, <2>4
<1>7. QED
  BY <1>5, <1>6

\* The steps that carry a checked version on, to its use or its rebuild.
LEMMA CarryStep ==
  ASSUME D!DispatchConstants, DispatchInv, NEW t \in D!Tasks,
         D!notDeclared(t) \/ D!declared(t) \/ D!dispatchAgain(t) \/ D!served(t)
           \/ D!rebuildSkips(t) \/ D!rebuildAwaited(t)
  PROVE  DispatchInv'
<1>1. /\ active \in Pointers /\ cache \in Pointers \cup {D!Unset}
      /\ task[t].pc \in Carrying => task[t].v \in Versions
      /\ t \in Turns => task[t].pc \in TurnPCs
      /\ t \in Surfaces => task[t].pc \in SurfacePCs
      /\ t = D!Writer => task[t].pc \in WriterPCs
  BY DEF DispatchInv, DispatchTypes
<1>2. t \in Turns \/ t \in Surfaces \/ t = D!Writer
  BY DEF D!Tasks
<1>3. {"idle"} \subseteq Free \cap TurnPCs \cap SurfacePCs \cap WriterPCs
  BY DEF Free, TurnPCs, SurfacePCs, WriterPCs
<1>4. UNCHANGED <<active, cache, host, validated>>
  BY DEF D!notDeclared, D!declared, D!dispatchAgain, D!served, D!rebuildSkips,
         D!rebuildAwaited, D!memory
<1>5. ASSUME D!Done(t), rebuild' = rebuild PROVE DispatchInv'
  BY <1>1, <1>3, <1>4, <1>5, GotoStep
<1>6. CASE D!notDeclared(t) \/ D!served(t)
  BY <1>5, <1>6 DEF D!notDeclared, D!served, D!memory
<1>7. CASE D!declared(t)
  <2>1. /\ t \in Surfaces /\ task[t].v \in Versions
        /\ D!Guard(t, task[t].v) /\ rebuild' = rebuild
    BY <1>1, <1>2, <1>7 DEF D!declared, D!memory, TurnPCs, WriterPCs, Carrying
  <2>2. QED
    BY <1>1, <1>4, <2>1, GuardStep
<1>8. CASE D!dispatchAgain(t)
  <2>1. t \in Surfaces /\ rebuild' = rebuild
    BY <1>1, <1>2, <1>8 DEF D!dispatchAgain, D!memory, TurnPCs, WriterPCs
  <2>2. CASE cache \in Versions
    <3>1. task' = [task EXCEPT ![t] = [D!Idle EXCEPT !.v = cache, !.pc = "serve"]]
      BY <1>8, <2>2 DEF D!dispatchAgain
    <3>2. QED
      BY <1>1, <1>4, <2>1, <2>2, <3>1, SurfaceStep
  <2>3. CASE cache \notin Versions
    BY <1>5, <1>8, <2>1, <2>3 DEF D!dispatchAgain
  <2>4. QED
    BY <2>2, <2>3
<1>9. CASE D!rebuildSkips(t) \/ D!rebuildAwaited(t)
  <2>1. /\ t \in Turns /\ D!Refreshed(t) \in Versions
        /\ D!Guard(t, D!Refreshed(t)) /\ (rebuild' = rebuild \/ rebuild' = "done")
    BY <1>1, <1>2, <1>9 DEF D!rebuildSkips, D!rebuildAwaited, D!Refreshed, D!memory,
       SurfacePCs, WriterPCs, Carrying
  <2>2. QED
    BY <1>1, <1>4, <2>1, GuardStep
<1>10. QED
  BY <1>6, <1>7, <1>8, <1>9

\* The version is looked at: what passes is what the host can take.
LEMMA ValidateStep ==
  ASSUME D!DispatchConstants, DispatchInv, NEW t \in D!Tasks, D!validate(t)
  PROVE  DispatchInv'
<1>1. /\ active \in Pointers /\ cache \in Pointers \cup {D!Unset}
      /\ task[t] \in TaskRow /\ task[t].read \in Pointers /\ D!Unset \notin Versions
      /\ rebuild \in {"no", "running", "done"}
      /\ task[t].v \in Versions
  BY TaskUpdates DEF DispatchInv, DispatchTypes, D!validate, Carrying, TaskRow, D!DispatchConstants
<1>2. t # D!Writer /\ (t \in Turns \/ t \in Surfaces) /\ ~(t \in Turns /\ t \in Surfaces)
  BY DEF DispatchInv, DispatchTypes, D!validate, WriterPCs, D!Tasks, D!DispatchConstants
<1>3. UNCHANGED <<active, cache, host, rebuild>>
  BY DEF D!validate
<1>4. PICK p \in {"disable", "disableConfig", D!Guarded(t)} :
        /\ D!Goto(t, p)
        /\ p = "disable" => validated' = validated
        /\ p # "disable" => task[t].v \in host.caps /\ validated' = task[t].v
  BY DEF D!validate, D!Guarded
<1> DEFINE r == [pc |-> p, v |-> task[t].v, read |-> task[t].read]
<1>5. task' = [task EXCEPT ![t] = r]
  BY <1>4, TaskUpdates, Zenon
<1>6. /\ t \in Turns => p \in {"disable", "disableConfig", "fetch"}
      /\ t \in Surfaces => p \in {"disable", "disableConfig", "again"}
  BY <1>2 DEF D!Guarded
<1>7. /\ r.pc = p /\ r.v = task[t].v
      /\ r \in [pc : TurnPCs \cup SurfacePCs \cup WriterPCs, v : Pointers, read : Pointers]
  BY <1>1, <1>2, <1>6 DEF TurnPCs, SurfacePCs, Pointers
<1> HIDE DEF r
<1>8. /\ t \in Turns => r.pc \in TurnPCs /\ r.pc \notin Rebuilding
      /\ t \in Surfaces => r.pc \in SurfacePCs
      /\ r.pc \notin {"refresh", "refreshReply", "metadata"}
      /\ r.v \in Versions
  BY <1>1, <1>2, <1>6, <1>7 DEF TurnPCs, SurfacePCs, Rebuilding
<1>9. /\ t \in Turns /\ r.pc = "fetch" => r.v \in host.caps
      /\ validated' \in {validated, D!NoVersion} \/ validated' \in host.caps
  BY <1>4, <1>6, <1>7
<1>10. QED
  BY <1>1, <1>2, <1>3, <1>5, <1>7, <1>8, <1>9, TaskStep

\* A turn that ran, and one that clears the pointer.
LEMMA FetchStep ==
  ASSUME D!DispatchConstants, DispatchInv, NEW t \in D!Tasks,
         D!fetchOk(t) \/ D!fetchFails(t) \/ D!clearPointer(t) \/ D!pointerCleared(t)
  PROVE  DispatchInv'
<1>1. /\ active \in Pointers /\ cache \in Pointers \cup {D!Unset} /\ D!NoVersion \in Pointers
      /\ t \in Turns => task[t].pc \in TurnPCs
      /\ t \in Surfaces => task[t].pc \in SurfacePCs
      /\ t = D!Writer => task[t].pc \in WriterPCs
  BY DEF DispatchInv, DispatchTypes, Pointers
<1>2. (t \in Turns \/ t \in Surfaces \/ t = D!Writer) /\ host' = host /\ rebuild' = rebuild
      /\ active' \in Pointers /\ cache' \in Pointers \cup {D!Unset}
      /\ validated' \in {validated, D!NoVersion}
  BY <1>1 DEF D!Tasks, D!fetchOk, D!fetchFails, D!clearPointer, D!pointerCleared, D!memory
<1>3. ASSUME D!Done(t) PROVE DispatchInv'
  <2>1. "idle" \in Free \cap TurnPCs \cap SurfacePCs \cap WriterPCs
    BY DEF Free, TurnPCs, SurfacePCs, WriterPCs
  <2>2. QED
    BY <1>2, <1>3, <2>1, GotoStep
<1>4. CASE D!fetchOk(t) \/ D!pointerCleared(t)
  BY <1>3, <1>4 DEF D!fetchOk, D!pointerCleared
<1>5. CASE D!fetchFails(t)
  <2>1. CASE D!Goto(t, "revert")
    <3>1. "revert" \in Free \cap TurnPCs /\ t \notin Surfaces /\ t # D!Writer
      BY <1>1, <1>5 DEF D!fetchFails, Free, TurnPCs, SurfacePCs, WriterPCs
    <3>2. QED
      BY <1>2, <2>1, <3>1, GotoStep
  <2>2. QED
    BY <1>3, <1>5, <2>1 DEF D!fetchFails
<1>6. CASE D!clearPointer(t)
  <2>1. PICK p \in {"cleared", "clearedConfig"} : D!Goto(t, p)
    BY <1>6 DEF D!clearPointer
  <2>2. p \in Free \cap TurnPCs \cap SurfacePCs /\ t # D!Writer
    BY <1>1, <1>6 DEF D!clearPointer, D!Clearing, Free, TurnPCs, SurfacePCs, WriterPCs
  <2>3. QED
    BY <1>2, <2>1, <2>2, GotoStep
<1>7. QED
  BY <1>4, <1>5, <1>6

\* The places of the refresher, for a turn that rebuilt and for the writer.
RefreshPCs == {"refresh", "refreshReply", "metadata"}

\* A rebuild's or the writer's refresh moves on and forgets what was validated.
LEMMA RefreshMove ==
  ASSUME D!DispatchConstants, DispatchInv, NEW t \in Turns \cup {D!Writer}, NEW p \in RefreshPCs,
         NEW x \in Pointers,
         task' = [task EXCEPT ![t] = [pc |-> p, v |-> task[t].v, read |-> x]],
         t \in Turns => task[t].pc \in Rebuilding,
         validated' \in {validated, D!NoVersion},
         active' \in Pointers, cache' \in Pointers \cup {D!Unset}, UNCHANGED <<host, rebuild>>
  PROVE  DispatchInv'
<1>1. /\ t \in D!Tasks /\ t \notin Surfaces /\ rebuild \in {"no", "running", "done"}
      /\ task[t].v \in Pointers
      /\ t \in Turns => task[t].v \in Versions /\ rebuild # "no"
  BY TaskUpdates DEF DispatchInv, DispatchTypes, D!Tasks, D!DispatchConstants, Carrying, Rebuilding, TaskRow
<1>2. p \in TurnPCs /\ p \in WriterPCs /\ p \notin Carrying /\ p # "fetch"
  BY DEF TurnPCs, WriterPCs, RefreshPCs, Carrying
<1> DEFINE r == [pc |-> p, v |-> task[t].v, read |-> x]
<1>3. /\ r.pc = p /\ r.v = task[t].v
      /\ r \in [pc : TurnPCs \cup SurfacePCs \cup WriterPCs, v : Pointers, read : Pointers]
  BY <1>1, <1>2
<1>4. task' = [task EXCEPT ![t] = r]
  OBVIOUS
<1> HIDE DEF r
<1>5. QED
  BY <1>1, <1>2, <1>3, <1>4, TaskStep

\* So do the four steps of a refresh.
LEMMA RefreshStep ==
  ASSUME D!DispatchConstants, DispatchInv, NEW t \in D!Tasks,
         D!rebuildPromotes(t) \/ D!refreshRead(t) \/ D!refreshReply(t) \/ D!refreshMetadata(t)
  PROVE  DispatchInv'
<1>1. /\ active \in Pointers /\ cache \in Pointers \cup {D!Unset} /\ D!NoVersion \in Pointers
      /\ task[t].read \in Pointers
      /\ t \in Turns /\ task[t].pc \in Rebuilding => task[t].v \in Versions
      /\ t \in Surfaces => task[t].pc \in SurfacePCs
      /\ t = D!Writer => task[t].pc \in WriterPCs
  BY TaskUpdates DEF DispatchInv, DispatchTypes, Pointers, TaskRow, Carrying, Rebuilding
<1>2. /\ task[t].pc \in Rebuilding /\ t \in Turns \cup {D!Writer}
      /\ host' = host /\ validated' \in {validated, D!NoVersion} /\ D!NoVersion \notin Versions
      /\ task[t].pc = "rebuild" => t \in Turns
  BY <1>1 DEF D!Tasks, D!rebuildPromotes, D!refreshRead, D!refreshReply, D!refreshMetadata,
     D!memory, Rebuilding, SurfacePCs, WriterPCs, D!DispatchConstants
<1>3. ASSUME D!AfterRefresh(t), active' = active, validated' = validated,
             cache' \in Pointers \cup {D!Unset}
      PROVE  DispatchInv'
  <2>1. CASE t = D!Writer
    <3>1. D!Done(t) /\ rebuild' = rebuild
      BY <1>3, <2>1 DEF D!AfterRefresh
    <3>2. "idle" \in Free \cap WriterPCs /\ t \notin Turns \cup Surfaces
      BY <2>1 DEF Free, WriterPCs, D!DispatchConstants
    <3>3. QED
      BY <1>1, <1>2, <1>3, <3>1, <3>2, GotoStep
  <2>2. CASE t \in Turns
    <3>1. PICK v \in Versions : D!Guard(t, v) /\ rebuild' = "done"
      BY <1>1, <1>2, <1>3, <2>2 DEF D!AfterRefresh, D!DispatchConstants
    <3>2. QED
      BY <1>1, <1>2, <1>3, <2>2, <3>1, GuardStep
  <2>3. QED
    BY <1>2, <2>1, <2>2
<1>4. ASSUME NEW p \in RefreshPCs, D!Goto(t, p), active' \in Pointers,
             cache' \in Pointers \cup {D!Unset}, rebuild' = rebuild
      PROVE  DispatchInv'
  <2>1. task' = [task EXCEPT ![t] = [pc |-> p, v |-> task[t].v, read |-> task[t].read]]
    BY <1>4, TaskUpdates, Zenon
  <2>2. QED
    BY <1>1, <1>2, <1>4, <2>1, RefreshMove
<1>5. CASE D!rebuildPromotes(t)
  <2>1. Rebuilt[task[t].v] \in Versions
    BY <1>5 DEF D!rebuildPromotes, D!DispatchConstants
  <2>2. active' \in Pointers /\ cache' = cache /\ rebuild' = rebuild /\ D!Goto(t, "refresh")
    BY <1>5, <2>1 DEF D!rebuildPromotes, D!memory, Pointers
  <2>3. QED
    BY <1>1, <1>4, <2>2 DEF RefreshPCs
<1>6. CASE D!refreshRead(t)
  <2>1. /\ task' = [task EXCEPT ![t].pc = "refreshReply", ![t].read = active]
        /\ UNCHANGED <<active, cache, rebuild>>
    BY <1>6 DEF D!refreshRead
  <2>2. \A p, x : (task' = [task EXCEPT ![t].pc = p, ![t].read = x]) =>
          task' = [task EXCEPT ![t] = [pc |-> p, v |-> task[t].v, read |-> x]]
    BY TaskUpdates, Zenon
  <2>3. task' = [task EXCEPT ![t] = [pc |-> "refreshReply", v |-> task[t].v, read |-> active]]
    BY <2>1, <2>2
  <2>4. QED
    BY <1>1, <1>2, <2>1, <2>3, RefreshMove DEF RefreshPCs
<1>7. CASE D!refreshReply(t)
  <2>1. cache' \in Pointers /\ active' = active /\ validated' = validated
    BY <1>1, <1>7 DEF D!refreshReply
  <2>2. CASE D!AfterRefresh(t)
    BY <1>3, <2>1, <2>2
  <2>3. CASE D!Goto(t, "metadata") /\ rebuild' = rebuild
    BY <1>1, <1>4, <2>1, <2>3 DEF RefreshPCs
  <2>4. QED
    BY <1>7, <2>2, <2>3 DEF D!refreshReply
<1>8. CASE D!refreshMetadata(t)
  <2>1. D!AfterRefresh(t) /\ UNCHANGED <<active, validated, cache>>
    BY <1>8 DEF D!refreshMetadata
  <2>2. QED
    BY <1>1, <1>3, <2>1
<1>9. QED
  BY <1>5, <1>6, <1>7, <1>8

\* The workshop tool and the HTTP requests, and a new host.
LEMMA WriterStep ==
  ASSUME D!DispatchConstants, DispatchInv,
         \/ \E v \in Versions \cup {D!NoVersion}, told \in BOOLEAN : D!deploy(v, told)
         \/ D!httpDisable \/ D!httpRefresh
  PROVE  DispatchInv'
<1>1. /\ D!Writer \in D!Tasks /\ D!Writer \notin Turns \cup Surfaces
      /\ active' \in Pointers /\ cache' \in Pointers \cup {D!Unset}
      /\ UNCHANGED <<host, validated, rebuild>>
  BY DEF DispatchInv, DispatchTypes, D!Tasks, D!DispatchConstants, D!deploy, D!httpDisable,
     D!httpRefresh, D!memory, Pointers
<1>2. CASE D!Goto(D!Writer, "refresh")
  <2>1. task' = [task EXCEPT ![D!Writer] =
                   [pc |-> "refresh", v |-> task[D!Writer].v, read |-> task[D!Writer].read]]
    BY <1>1, <1>2, TaskUpdates, Zenon
  <2>2. task[D!Writer].read \in Pointers
    BY <1>1, TaskUpdates DEF TaskRow
  <2>3. QED
    BY <1>1, <2>1, <2>2, RefreshMove DEF RefreshPCs
<1>3. CASE D!Goto(D!Writer, "cleared")
  <2>1. "cleared" \in Free \cap WriterPCs
    BY DEF Free, WriterPCs
  <2>2. QED
    BY <1>1, <1>3, <2>1, GotoStep
<1>4. CASE task' = task
  BY <1>1, <1>4 DEF DispatchInv, DispatchTypes, D!GuardedDispatch
<1>5. QED
  BY <1>2, <1>3, <1>4 DEF D!deploy, D!httpDisable, D!httpRefresh

\* Nothing was validated and nothing runs: the first state, and a restart's.
NothingRuns ==
  /\ active \in Pointers /\ cache \in Pointers \cup {D!Unset}
  /\ validated = D!NoVersion /\ rebuild = "no" /\ task = [t \in D!Tasks |-> D!Idle]

\* Where no task runs DispatchInv holds: at the start,
LEMMA RestIsSafe == NothingRuns => DispatchInv
<1> SUFFICES ASSUME NothingRuns PROVE DispatchInv
  OBVIOUS
<1> USE DEF NothingRuns
<1>1. D!Idle \in TaskRow /\ D!Idle.pc = "idle"
  BY DEF D!Idle, TaskRow, TurnPCs, Pointers
<1>2. "idle" \in TurnPCs \cap SurfacePCs \cap WriterPCs /\ "idle" \notin Carrying \cup Rebuilding
  BY DEF TurnPCs, SurfacePCs, WriterPCs, Carrying, Rebuilding
<1> HIDE DEF D!Idle
<1>3. DispatchTypes
  BY <1>1, <1>2 DEF DispatchTypes, TaskRow, D!Tasks
<1>4. QED
  BY <1>1, <1>2, <1>3 DEF DispatchInv, D!GuardedDispatch, D!Tasks

\* and after a restart of the host with other declarations.
LEMMA RestartIsSafe == NothingRuns' => DispatchInv'
BY RestIsSafe, PTL

\* Each step of dispatch preserves DispatchInv.
LEMMA NextDispatchInv ==
  ASSUME D!DispatchConstants, DispatchInv, [D!Next]_(D!vars)
  PROVE  DispatchInv'
<1>1. ASSUME NEW t \in D!Tasks, D!Step(t) PROVE DispatchInv'
  BY <1>1, ColdStep, CarryStep, ValidateStep, FetchStep, RefreshStep DEF D!Step
<1>2. ASSUME NEW h \in Hosts, D!restart(h) PROVE DispatchInv'
  <2>1. NothingRuns'
    BY <1>2 DEF D!restart, NothingRuns, DispatchInv, DispatchTypes, D!Tasks
  <2>2. QED
    BY <2>1, RestartIsSafe
<1>3. CASE UNCHANGED D!vars
  BY <1>3 DEF D!vars, D!memory, DispatchInv, DispatchTypes, D!GuardedDispatch
<1>4. QED
  BY <1>1, <1>2, <1>3, TurnBegins, SurfaceBegins, WriterStep DEF D!Next

\* An instance has an operator of its own for the cardinality of a set.
LEMMA DispatchCardinality == \A S : D!Cardinality(S) = Cardinality(S)
BY DEF D!Cardinality, Cardinality

\* Turns carry versions through lookups, rebuilds and refreshes with other turns,
\* the workshop, other agents' deployments and restarts in between: a turn is only
\* given to a version that the running host can take, and turns that arrive
\* together after a start share one rebuild.
THEOREM DispatchIsGuarded ==
  ASSUME D!DispatchConstants
  PROVE  D!Spec => []GuardedDispatch
<1>1. D!Init => DispatchInv
  BY RestIsSafe DEF D!Init, NothingRuns, Pointers
<1>2. DispatchInv /\ [D!Next]_(D!vars) => DispatchInv'
  BY NextDispatchInv
<1>3. DispatchInv => GuardedDispatch
  <2> SUFFICES ASSUME DispatchInv PROVE D!GuardedDispatch /\ D!OneRebuild
    BY DEF GuardedDispatch
  <2> DEFINE R == {t \in Turns : task[t].pc \in Rebuilding}
  <2>1. \A t, u \in R : t = u
    BY DEF DispatchInv
  <2>2. Cardinality(R) <= 1
    <3>1. CASE R = {}
      BY <3>1, FS_EmptySet
    <3>2. CASE R # {}
      <4>1. PICK t \in R : R = {t}
        BY <2>1, <3>2
      <4> HIDE DEF R
      <4>2. QED
        <5>1. Cardinality(R) = 1
          BY <4>1, FS_Singleton, Zenon
        <5>2. QED
          BY <5>1
    <3>3. QED
      BY <3>1, <3>2
  <2>3. QED
    <3>1. R = {t \in Turns : task[t].pc \in {"rebuild", "refresh", "refreshReply", "metadata"}}
      BY DEF Rebuilding
    <3> HIDE DEF R
    <3>2. D!OneRebuild
      BY <2>2, <3>1, DispatchCardinality DEF D!OneRebuild
    <3>3. QED
      BY <3>2 DEF DispatchInv
<1>4. QED
  BY <1>1, <1>2, <1>3, PTL DEF D!Spec

-----------------------------------------------------------------------------
(***************************************************************************)
(* SessionRouting.  A step keeps the rows it does not delete, gives a row  *)
(* a sender only when it makes it, and deletes at most one; what it needs  *)
(* to know of the state is what the invariant adds to the properties.      *)
(***************************************************************************)
RouteTypes ==
  /\ DOMAIN rows \subseteq used /\ used \subseteq Sessions
  /\ \A s \in DOMAIN rows : rows[s] \in N!SessionRow
  /\ attached \in [Sockets -> Sessions \cup {NoId}]
  /\ tracked \subseteq Sockets /\ routingClock \in Nat

RouteInv == RouteTypes /\ N!SessionRemains /\ N!OneSessionPerSender

\* A row that is touched keeps its sender.
LEMMA TouchedTable ==
  ASSUME NEW table, NEW s \in DOMAIN table, routingClock \in Nat,
         \A t \in DOMAIN table : table[t] \in N!SessionRow
  PROVE  /\ DOMAIN N!Touched(table, s) = DOMAIN table
         /\ \A t \in DOMAIN table :
              /\ N!Touched(table, s)[t] \in N!SessionRow
              /\ N!Touched(table, s)[t].sender = table[t].sender
<1> DEFINE f == [table EXCEPT ![s].at = routingClock]
           g == [f EXCEPT ![s].iso = TRUE]
<1>1. DOMAIN f = DOMAIN table /\ f[s] = [table[s] EXCEPT !.at = routingClock]
      /\ \A t \in DOMAIN table \ {s} : f[t] = table[t]
  OBVIOUS
<1>2. f[s] \in N!SessionRow /\ f[s].sender = table[s].sender
  BY <1>1 DEF N!SessionRow
<1>3. N!Touched(table, s) = g
  BY DEF N!Touched
<1> HIDE DEF f
<1>4. DOMAIN g = DOMAIN f /\ g[s] = [f[s] EXCEPT !.iso = TRUE]
      /\ \A t \in DOMAIN f \ {s} : g[t] = f[t]
  BY <1>1
<1> HIDE DEF g
<1>5. g[s] \in N!SessionRow /\ g[s].sender = table[s].sender
  BY <1>2, <1>4 DEF N!SessionRow
<1>6. QED
  BY <1>1, <1>3, <1>4, <1>5

\* A table that has the rows of another, fewer of them perhaps, with the same
\* senders, keeps senders apart; and so it does with a new row.
SameSenders(old, new) ==
  /\ \A t \in DOMAIN new : new[t] \in N!SessionRow
  /\ \A t \in DOMAIN new \cap DOMAIN old : new[t].sender = old[t].sender

RoutingTypes ==
  /\ attached \in [Sockets -> Sessions \cup {NoId}] /\ tracked \subseteq Sockets
  /\ routingClock \in Nat /\ used \subseteq Sessions

\* Steps that remove rows, or write rows that keep their senders.
LEMMA RowsLeft ==
  ASSUME N!RoutingConstants, RouteInv, rows' = rows \/ SameSenders(rows, rows'),
         DOMAIN rows' \subseteq DOMAIN rows,
         used \subseteq used', RoutingTypes',
         DOMAIN rows' # {} \/ (N!Open' \subseteq N!Open /\ rows' = rows)
  PROVE  RouteInv'
<1> USE DEF RoutingTypes
<1>1. SameSenders(rows, rows')
  BY DEF SameSenders, RouteInv, RouteTypes
<1>2. RouteTypes'
  BY <1>1 DEF RouteInv, RouteTypes, SameSenders
<1>3. N!SessionRemains'
  BY DEF RouteInv, N!SessionRemains, N!Existing
<1>4. N!OneSessionPerSender'
  BY <1>1 DEF RouteInv, N!OneSessionPerSender, N!Existing, SameSenders
<1>5. QED
  BY <1>2, <1>3, <1>4 DEF RouteInv

\* Steps that make a session: for no sender, or for one that had none.
LEMMA RowMade ==
  ASSUME N!RoutingConstants, RouteInv, SameSenders(rows, rows'), NEW s \in used',
         DOMAIN rows' \subseteq DOMAIN rows \cup {s}, DOMAIN rows' # {},
         rows'[s].sender = NoId \/ N!SessionsOf(rows'[s].sender) = {},
         used \subseteq used', RoutingTypes'
  PROVE  RouteInv'
<1> USE DEF RoutingTypes
<1>1. RouteTypes'
  BY DEF RouteInv, RouteTypes, SameSenders
<1>2. N!SessionRemains'
  BY DEF N!SessionRemains, N!Existing
<1>3. N!OneSessionPerSender'
  BY DEF RouteInv, N!OneSessionPerSender, N!Existing, SameSenders, N!SessionsOf
<1>4. QED
  BY <1>1, <1>2, <1>3 DEF RouteInv

\* What a step may not do to connections, in one state and the next.
Redirects ==
  \A s \in DOMAIN rows \ DOMAIN rows' :
    used' = used => \A c \in tracked' : attached'[c] # s

StepIsRouted == RouteInv' /\ Redirects

\* A session that is made, by whatever step.
LEMMA MadeTable ==
  ASSUME N!RoutingConstants, RouteInv, NEW s \in Sessions, s \notin used,
         NEW sender \in Peers \cup {NoId}, rows' = N!With(rows, s, N!NewRow(sender))
  PROVE  /\ DOMAIN rows' = DOMAIN rows \cup {s} /\ SameSenders(rows, rows')
         /\ rows'[s] \in N!SessionRow /\ rows'[s].sender = sender
<1>1. /\ s \notin DOMAIN rows /\ routingClock \in Nat
      /\ \A t \in DOMAIN rows : rows[t] \in N!SessionRow
  BY DEF RouteInv, RouteTypes
<1>2. N!NewRow(sender) \in N!SessionRow /\ N!NewRow(sender).sender = sender
  BY <1>1 DEF N!NewRow, N!SessionRow
<1>3. QED
  BY <1>1, <1>2 DEF SameSenders, N!With

\* The default: the first session, or a new one.
LEMMA FirstOrNewStep ==
  ASSUME N!RoutingConstants, RouteInv, NEW s \in Sessions, N!FirstOrNew(s), RoutingTypes'
  PROVE  RouteInv' /\ s \in DOMAIN rows' /\ DOMAIN rows \subseteq DOMAIN rows'
<1>1. CASE DOMAIN rows = {}
  <2>1. s \notin used /\ used' = used \cup {s} /\ rows' = N!With(rows, s, N!NewRow(NoId))
    BY <1>1 DEF N!FirstOrNew, N!Existing, N!Fresh
  <2>2. /\ DOMAIN rows' = DOMAIN rows \cup {s} /\ SameSenders(rows, rows')
        /\ rows'[s].sender = NoId
    BY <2>1, MadeTable
  <2>3. RouteInv'
    BY <2>1, <2>2, RowMade
  <2>4. QED
    BY <2>2, <2>3
<1>2. CASE DOMAIN rows # {}
  <2>1. rows' = rows /\ used' = used /\ s \in DOMAIN rows
    BY <1>2 DEF N!FirstOrNew, N!Existing, N!FirstOf
  <2>2. RouteInv'
    BY <2>1, RowsLeft
  <2>3. QED
    BY <2>1, <2>2
<1>3. QED
  BY <1>1, <1>2

\* What a client does on its socket preserves RouteInv and SessionRemains.
LEMMA ConnectionStep ==
  ASSUME N!RoutingConstants, RouteInv, NEW c \in Sockets, NEW s \in Sessions,
         \/ N!handleTransportOpen(c, s) \/ N!switchSession(c, s)
         \/ N!clientPrompt(c, s) \/ N!newSession(c, s)
  PROVE  StepIsRouted
<1> USE DEF N!Open, N!Receive
<1>1. /\ DOMAIN rows \subseteq used /\ used \subseteq Sessions /\ routingClock \in Nat
      /\ \A t \in DOMAIN rows : rows[t] \in N!SessionRow
      /\ attached \in [Sockets -> Sessions \cup {NoId}] /\ tracked \subseteq Sockets
      /\ NoId \notin Sessions
  BY DEF RouteInv, RouteTypes, N!RoutingConstants
<1>2. CASE N!handleTransportOpen(c, s)
  <2>1. /\ N!FirstOrNew(s) /\ routingClock' = routingClock /\ attached' = [attached EXCEPT ![c] = s]
        /\ tracked' = tracked \cup {c}
    BY <1>2 DEF N!handleTransportOpen
  <2>2. attached' \in [Sockets -> Sessions \cup {NoId}] /\ tracked' \subseteq Sockets
    BY <1>1, <2>1
  <2>3. used' \subseteq Sessions
    BY <1>1, <2>1 DEF N!FirstOrNew, N!Fresh
  <2>4. RoutingTypes'
    BY <1>1, <2>1, <2>2, <2>3 DEF RoutingTypes
  <2>5. RouteInv' /\ DOMAIN rows \subseteq DOMAIN rows'
    BY <2>1, <2>4, FirstOrNewStep
  <2>6. QED
    BY <2>5 DEF StepIsRouted, Redirects
<1>4. CASE N!switchSession(c, s)
  <2>1. /\ UNCHANGED <<rows, used, routingClock>> /\ tracked' \subseteq Sockets
        /\ attached' \in [Sockets -> Sessions \cup {NoId}] /\ DOMAIN rows # {}
    BY <1>1, <1>4 DEF N!switchSession, RouteInv, N!SessionRemains, N!Existing
  <2>2. RouteInv'
    BY <1>1, <2>1, RowsLeft DEF RoutingTypes
  <2>3. QED
    BY <2>1, <2>2 DEF StepIsRouted, Redirects
<1>5. CASE N!clientPrompt(c, s)
  <2>1. UNCHANGED <<used, attached, routingClock>> /\ tracked' = tracked \cup {c}
        /\ DOMAIN rows' = DOMAIN rows /\ (rows' = rows \/ SameSenders(rows, rows'))
    <3>1. CASE s \in DOMAIN rows
      <4>1. rows' = N!Touched(rows, s)
        BY <1>5, <3>1 DEF N!clientPrompt, N!Existing
      <4>2. DOMAIN rows' = DOMAIN rows /\ SameSenders(rows, rows')
        BY <1>1, <3>1, <4>1, TouchedTable DEF SameSenders
      <4>3. QED
        BY <1>5, <4>2 DEF N!clientPrompt
    <3>2. CASE s \notin DOMAIN rows
      BY <1>5, <3>2 DEF N!clientPrompt, N!Existing
    <3>3. QED
      BY <3>1, <3>2
  <2>2. DOMAIN rows' # {}
    BY <1>5, <2>1 DEF N!clientPrompt, RouteInv, N!SessionRemains, N!Existing
  <2>3. RoutingTypes'
    BY <1>1, <2>1 DEF RoutingTypes
  <2>4. RouteInv'
    BY <2>1, <2>2, <2>3, RowsLeft
  <2>5. QED
    BY <2>1, <2>4 DEF StepIsRouted, Redirects
<1>6. CASE N!newSession(c, s)
  <2>1. /\ s \notin used /\ used' = used \cup {s} /\ routingClock' = routingClock
        /\ rows' = N!With(rows, s, N!NewRow(NoId)) /\ tracked' = tracked \cup {c}
        /\ attached' = [attached EXCEPT ![c] = s]
    BY <1>6 DEF N!newSession, N!Fresh
  <2>2. /\ DOMAIN rows' = DOMAIN rows \cup {s} /\ SameSenders(rows, rows')
        /\ rows'[s].sender = NoId
    BY <2>1, MadeTable
  <2>3. RoutingTypes'
    BY <1>1, <2>1 DEF RoutingTypes
  <2>4. RouteInv'
    BY <2>1, <2>2, <2>3, RowMade
  <2>5. QED
    BY <2>2, <2>4 DEF StepIsRouted, Redirects
<1>7. QED
  BY <1>2, <1>4, <1>5, <1>6

\* A session goes only if another stays, and its connections go to that one.
LEMMA DeleteStep ==
  ASSUME N!RoutingConstants, RouteInv, NEW c \in Sockets, NEW s \in Sessions,
         N!deleteSession(c, s)
  PROVE  StepIsRouted
<1>1. /\ DOMAIN rows \subseteq used /\ used \subseteq Sessions /\ routingClock \in Nat
      /\ \A t \in DOMAIN rows : rows[t] \in N!SessionRow
      /\ attached \in [Sockets -> Sessions \cup {NoId}] /\ tracked \subseteq Sockets
      /\ UNCHANGED <<used, routingClock>> /\ tracked' = tracked \cup {c}
      /\ c \in N!Open /\ DOMAIN rows # {}
  BY DEF RouteInv, RouteTypes, N!deleteSession, N!Receive, N!SessionRemains, N!Existing
<1>2. CASE N!Cardinality(N!Existing) > 1
  <2>1. PICK t \in N!FirstOf(rows') :
          attached' = [d \in Sockets |->
                         IF d \in tracked' /\ attached[d] = s THEN t ELSE attached[d]]
    BY <1>2 DEF N!deleteSession
  <2>2. rows' = N!Without(rows, s) /\ t \in DOMAIN rows'
    BY <1>2, <2>1 DEF N!deleteSession, N!FirstOf
  <2>3. DOMAIN rows' = DOMAIN rows \ {s} /\ SameSenders(rows, rows')
    BY <1>1, <2>2 DEF N!Without, SameSenders
  <2>4. attached' \in [Sockets -> Sessions \cup {NoId}]
    BY <1>1, <2>1, <2>2, <2>3
  <2>5. RoutingTypes'
    BY <1>1, <2>4 DEF RoutingTypes
  <2>6. RouteInv'
    BY <1>1, <2>2, <2>3, <2>5, RowsLeft
  <2>7. Redirects
    BY <1>1, <2>1, <2>2, <2>3 DEF Redirects
  <2>8. QED
    BY <2>6, <2>7 DEF StepIsRouted
<1>3. CASE ~(N!Cardinality(N!Existing) > 1)
  <2>1. UNCHANGED <<rows, attached>>
    BY <1>3 DEF N!deleteSession
  <2>2. RoutingTypes'
    BY <1>1, <2>1 DEF RoutingTypes
  <2>3. RouteInv'
    BY <1>1, <2>1, <2>2, RowsLeft
  <2>4. QED
    BY <2>1, <2>3 DEF StepIsRouted, Redirects
<1>4. QED
  BY <1>2, <1>3

\* /clear makes a session before it deletes one.
LEMMA ClearStep ==
  ASSUME N!RoutingConstants, RouteInv, NEW c \in Sockets, NEW s \in Sessions,
         NEW new \in Sessions, N!handleClearCommand(c, s, new)
  PROVE  StepIsRouted
<1>1. /\ DOMAIN rows \subseteq used /\ used \subseteq Sessions /\ routingClock \in Nat
      /\ \A t \in DOMAIN rows : rows[t] \in N!SessionRow
      /\ attached \in [Sockets -> Sessions \cup {NoId}] /\ tracked \subseteq Sockets
  BY DEF RouteInv, RouteTypes
<1>2. /\ s \in used /\ new \notin used /\ used' = used \cup {new} /\ routingClock' = routingClock
      /\ attached' = [attached EXCEPT ![c] = new] /\ tracked' = tracked \cup {c}
  BY DEF N!handleClearCommand, N!Fresh, N!Receive
<1> DEFINE table == N!With(rows, new, N!NewRow(NoId))
<1>3. rows' = table \/ rows' = N!Without(table, s)
  BY DEF N!handleClearCommand
<1>4. N!NewRow(NoId) \in N!SessionRow /\ N!NewRow(NoId).sender = NoId
  BY <1>1 DEF N!NewRow, N!SessionRow
<1>5. /\ DOMAIN table = DOMAIN rows \cup {new} /\ SameSenders(rows, table)
      /\ table[new].sender = NoId
  BY <1>1, <1>2, <1>4 DEF N!With, SameSenders
<1> HIDE DEF table
<1>6. /\ DOMAIN rows' \subseteq DOMAIN rows \cup {new} /\ new \in DOMAIN rows'
      /\ SameSenders(rows, rows') /\ rows'[new].sender = NoId
  BY <1>2, <1>3, <1>5 DEF N!Without, SameSenders
<1>7. RoutingTypes'
  BY <1>1, <1>2 DEF RoutingTypes
<1>8. RouteInv'
  BY <1>2, <1>6, <1>7, RowMade
<1>9. QED
  BY <1>2, <1>8 DEF StepIsRouted, Redirects

\* A prompt that names no session: the first one's, or the sender's.
LEMMA TouchedStep ==
  ASSUME N!RoutingConstants, RouteInv, NEW s \in DOMAIN rows, rows' = N!Touched(rows, s),
         UNCHANGED <<used, attached, tracked, routingClock>>
  PROVE  StepIsRouted
<1>1. DOMAIN rows' = DOMAIN rows /\ SameSenders(rows, rows')
  BY TouchedTable DEF RouteInv, RouteTypes, SameSenders
<1>2. RoutingTypes'
  BY DEF RouteInv, RouteTypes, RoutingTypes
<1>3. RouteInv'
  BY <1>1, <1>2, RowsLeft
<1>4. QED
  BY <1>1, <1>3 DEF StepIsRouted, Redirects

\* So does making a session and touching it, as prompts do.
LEMMA MadeAndTouchedStep ==
  ASSUME N!RoutingConstants, RouteInv, NEW s \in Sessions, s \notin used,
         NEW sender \in Peers \cup {NoId},
         sender = NoId \/ N!SessionsOf(sender) = {},
         rows' = N!Touched(N!With(rows, s, N!NewRow(sender)), s),
         used' = used \cup {s}, UNCHANGED <<attached, tracked, routingClock>>
  PROVE  StepIsRouted
<1> DEFINE table == N!With(rows, s, N!NewRow(sender))
<1>1. /\ s \notin DOMAIN rows /\ routingClock \in Nat
      /\ \A t \in DOMAIN rows : rows[t] \in N!SessionRow
  BY DEF RouteInv, RouteTypes
<1>2. N!NewRow(sender) \in N!SessionRow /\ N!NewRow(sender).sender = sender
  BY <1>1 DEF N!NewRow, N!SessionRow
<1>3. /\ DOMAIN table = DOMAIN rows \cup {s} /\ table[s].sender = sender
      /\ \A t \in DOMAIN table : table[t] \in N!SessionRow
      /\ \A t \in DOMAIN rows : table[t] = rows[t]
  BY <1>1, <1>2 DEF N!With
<1>4. rows' = N!Touched(table, s)
  OBVIOUS
<1> HIDE DEF table
<1>5. /\ DOMAIN rows' = DOMAIN rows \cup {s} /\ SameSenders(rows, rows')
      /\ rows'[s].sender = sender
  BY <1>1, <1>3, <1>4, TouchedTable DEF SameSenders
<1>6. RoutingTypes'
  BY DEF RouteInv, RouteTypes, RoutingTypes
<1>7. RouteInv'
  BY <1>5, <1>6, RowMade
<1>8. QED
  BY <1>5, <1>7 DEF StepIsRouted, Redirects

\* So does every step.
LEMMA RoutedStep ==
  ASSUME N!RoutingConstants, RouteInv, [N!Next]_(N!vars)
  PROVE  StepIsRouted
<1>1. ASSUME NEW s \in Sessions, N!handleHttpPrompt(s) PROVE StepIsRouted
  BY <1>1, TouchedStep, MadeAndTouchedStep
     DEF N!handleHttpPrompt, N!Fresh, N!FirstOf, N!Existing
<1>2. ASSUME NEW p \in Peers, NEW s \in Sessions, N!handleAgentPrompt(p, s)
      PROVE  StepIsRouted
  <2>1. CASE N!SessionsOf(p) = {}
    BY <1>2, <2>1, MadeAndTouchedStep DEF N!handleAgentPrompt, N!Fresh
  <2>2. CASE N!SessionsOf(p) # {}
    BY <1>2, <2>2, TouchedStep DEF N!handleAgentPrompt, N!SessionsOf, N!Existing
  <2>3. QED
    BY <2>1, <2>2
<1>3. ASSUME UNCHANGED <<rows, used, attached>>, tracked' \subseteq tracked, routingClock' \in Nat
      PROVE  StepIsRouted
  <2>1. RoutingTypes' /\ N!Open' = N!Open
    BY <1>3 DEF RouteInv, RouteTypes, RoutingTypes, N!Open
  <2>2. RouteInv'
    BY <1>3, <2>1, RowsLeft
  <2>3. QED
    BY <1>3, <2>2 DEF StepIsRouted, Redirects
<1>4. CASE N!hibernate \/ N!Tick \/ UNCHANGED N!vars
  BY <1>3, <1>4 DEF N!hibernate, N!Tick, N!vars, RouteInv, RouteTypes
<1>5. ASSUME NEW c \in Sockets, N!handleClose(c) PROVE StepIsRouted
  <2>1. /\ UNCHANGED <<rows, used, routingClock>> /\ RoutingTypes' /\ N!Open' \subseteq N!Open
    BY <1>5 DEF N!handleClose, N!Open, RoutingTypes, RouteInv, RouteTypes
  <2>2. RouteInv'
    BY <2>1, RowsLeft
  <2>3. QED
    BY <2>1, <2>2 DEF StepIsRouted, Redirects
<1>6. QED
  BY <1>1, <1>2, <1>4, <1>5, ConnectionStep, DeleteStep, ClearStep DEF N!Next

\* A list is ordered by text that starts with the day; within a day and a format,
\* by the time that is shown.
LEMMA OrderIsSound == ASSUME N!RoutingConstants, RouteTypes PROVE N!ListOrderSound
<1> SUFFICES ASSUME NEW s \in DOMAIN rows, NEW t \in DOMAIN rows, N!Above(rows[s], rows[t])
             PROVE  \/ rows[s].at > rows[t].at
                    \/ N!Day(rows[s].at) = N!Day(rows[t].at) /\ rows[s].iso # rows[t].iso
  BY DEF N!ListOrderSound, N!Existing
<1> DEFINE a == rows[s].at
           b == rows[t].at
<1>1. a \in Nat /\ b \in Nat /\ rows[s].iso \in BOOLEAN /\ rows[t].iso \in BOOLEAN
  BY DEF RouteTypes, N!SessionRow
<1>2. TicksPerDay \in Nat \ {0} /\ TicksPerSecond \in Nat \ {0}
  BY DEF N!RoutingConstants
<1>3. a <= b => a \div TicksPerDay <= b \div TicksPerDay
  <2> HIDE DEF a, b
  <2>1. QED
    BY <1>1, <1>2
<1>4. a <= b => a - (a % TicksPerSecond) <= b - (b % TicksPerSecond)
  <2> HIDE DEF a, b
  <2>1. QED
    BY <1>1, <1>2
<1>5. QED
  BY <1>1, <1>2, <1>3, <1>4 DEF N!Above, N!Day, N!Shown

\* For any number of sessions, sockets and senders, with hibernation: connections
\* of a deleted session that the transport knows of are redirected, a connected
\* client always has a session, each sender has one, and the list is in order.
THEOREM SessionsAreKept ==
  ASSUME N!RoutingConstants PROVE N!Spec => SessionsKept
<1>1. N!Init => RouteInv
  BY DEF N!Init, RouteInv, RouteTypes, N!SessionRemains, N!OneSessionPerSender, N!Existing, N!Open
<1>2. RouteInv /\ [N!Next]_(N!vars) => StepIsRouted
  BY RoutedStep
<1>3. StepIsRouted => RouteInv'
  BY DEF StepIsRouted
<1>4. StepIsRouted => [\A s \in N!Existing \ DOMAIN rows' :
                         used' = used => \A c \in tracked' : attached'[c] # s]_(N!vars)
  BY DEF StepIsRouted, Redirects, N!Existing
<1>5. RouteInv => N!SessionRemains /\ N!OneSessionPerSender /\ N!ListOrderSound
  BY OrderIsSound DEF RouteInv
<1>6. QED
  BY <1>1, <1>2, <1>3, <1>4, <1>5, PTL DEF N!Spec, SessionsKept, N!SessionsKept, N!DeleteRedirectsTracked

-----------------------------------------------------------------------------
(***************************************************************************)
(* BundleTurn.  Between inferences the calls that have no result yet are   *)
(* those still to execute, and the next result is put where the first of   *)
(* them is to be answered.  The log is followed through the places of the  *)
(* conversation whose append was taken: one more message adds its place    *)
(* after all the others, or none.                                          *)
(***************************************************************************)
Entry == [role : {"user", "assistant", "tool"}, n : Nat]
Replayed == {B!User, B!Assistant(0)}
Places(n, gone) == Only([i \in 1 .. n |-> i], (2 .. n) \ gone)

BundleTypes ==
  /\ before \in Seq(Entry) /\ history \in Seq(Replayed) /\ conv \in Seq(Entry)
  /\ todo \in Seq(Nat) /\ lost \subseteq 1 .. Len(conv)
  /\ place = "start" => conv = <<>> /\ log = <<>>
  /\ place \notin {"start", "end"} => conv # <<>>

\* The k-th call of the i-th message of c has its result after it, or is the one
\* of t whose result comes there.
AnsweredOrOwed(c, t, i, k) ==
  IF i + k <= Len(c) THEN c[i + k] = B!ToolResult(k)
  ELSE i + k - Len(c) \in DOMAIN t /\ t[i + k - Len(c)] = k

Owed(c, t) ==
  \A i \in DOMAIN c : \A k \in 1 .. B!Calls(c[i]) : AnsweredOrOwed(c, t, i, k)

BundleInv ==
  /\ BundleTypes
  /\ place # "end" => Owed(conv, todo)
  /\ place \in {"start", "infer", "open", "stream"} => todo = <<>>
  /\ place = "executing" => todo # <<>>
  /\ B!LogFollowsTurn

\* BundleTurn picks from its lists what ListsProofs speaks of.
LEMMA SameOnly == \A s, T : B!Only(s, T) = Only(s, T)
BY DEF B!Only, Only

\* What the messages of a turn are.
LEMMA Entries ==
  /\ B!User \in Entry /\ B!Calls(B!User) = 0
  /\ \A n \in Nat : /\ B!Assistant(n) \in Entry /\ B!Calls(B!Assistant(n)) = n
                     /\ B!ToolResult(n) \in Entry /\ B!Calls(B!ToolResult(n)) = 0
  /\ \A m \in Entry : B!Calls(m) \in Nat
BY DEF Entry, B!User, B!Assistant, B!ToolResult, B!Calls

\* The place after the last one is taken last, or left out with the failed ones.
LEMMA PlacesGrow ==
  ASSUME NEW n \in Nat \ {0}, NEW gone \in SUBSET (1 .. n)
  PROVE  /\ Places(n, gone) \in Seq(1 .. n)
         /\ Places(n + 1, gone) = Append(Places(n, gone), n + 1)
         /\ Places(n + 1, gone \cup {n + 1}) = Places(n, gone)
<1> DEFINE s == [i \in 1 .. n |-> i]
           T == (2 .. n + 1) \ gone
           U == (2 .. n + 1) \ (gone \cup {n + 1})
           M == 1 .. n + 1
<1>1. /\ s \in Seq(1 .. n) /\ s \in Seq(M) /\ n + 1 \in M /\ Len(s) = n
      /\ \A i \in 1 .. Len(s) : s[i] = i
      /\ [i \in 1 .. n + 1 |-> i] = Append(s, n + 1)
  OBVIOUS
<1>2. /\ n + 1 \in T /\ n + 1 \notin U
      /\ \A i \in 1 .. n : (i \in T <=> i \in (2 .. n) \ gone) /\ (i \in U <=> i \in (2 .. n) \ gone)
  OBVIOUS
<1> HIDE DEF s, T, U, M
<1>3. Only(s, T) = Only(s, (2 .. n) \ gone)
  BY <1>1, <1>2, OnlyAlike
<1>4. Only(s, U) = Only(s, (2 .. n) \ gone)
  BY <1>1, <1>2, OnlyAlike
<1>5. Only(Append(s, n + 1), T) = Append(Only(s, T), n + 1)
  <2>1. ASSUME NEW x \in M
        PROVE  Only(Append(s, x), T) = IF x \in T THEN Append(Only(s, T), x) ELSE Only(s, T)
    BY <1>1, OnlyAppend
  <2>2. QED
    BY <1>1, <1>2, <2>1
<1>6. Only(Append(s, n + 1), U) = Only(s, U)
  <2>1. ASSUME NEW x \in M
        PROVE  Only(Append(s, x), U) = IF x \in U THEN Append(Only(s, U), x) ELSE Only(s, U)
    BY <1>1, OnlyAppend
  <2>2. QED
    BY <1>1, <1>2, <2>1
<1>7. Only(s, (2 .. n) \ gone) \in Seq(1 .. n)
  BY <1>1, OnlyType
<1>8. /\ Places(n, gone) = Only(s, (2 .. n) \ gone)
      /\ Places(n + 1, gone) = Only(Append(s, n + 1), T)
      /\ Places(n + 1, gone \cup {n + 1}) = Only(Append(s, n + 1), U)
  BY <1>1 DEF Places, s, T, U
<1>9. QED
  BY <1>3, <1>4, <1>5, <1>6, <1>7, <1>8

\* The property of the log, in terms of Places.
LEMMA LogIs == B!LogFollowsTurn <=>
  log = [j \in DOMAIN Places(Len(conv), lost) |-> conv[Places(Len(conv), lost)[j]]]
BY SameOnly DEF B!LogFollowsTurn, B!Kept, Places

\* A result of the first call still to execute answers it.
LEMMA ResultAnswers ==
  ASSUME NEW c \in Seq(Entry), NEW t \in Seq(Nat), t # <<>>, Owed(c, t)
  PROVE  Owed(Append(c, B!ToolResult(Head(t))), Tail(t))
<1> DEFINE d == Append(c, B!ToolResult(Head(t)))
<1>1. /\ Len(c) \in Nat /\ Head(t) \in Nat /\ Head(t) = t[1] /\ Len(t) \in Nat \ {0}
      /\ Tail(t) \in Seq(Nat) /\ Len(Tail(t)) = Len(t) - 1
      /\ \A j \in 1 .. Len(t) - 1 : Tail(t)[j] = t[j + 1]
      /\ DOMAIN Tail(t) = 1 .. Len(t) - 1 /\ DOMAIN t = 1 .. Len(t) /\ DOMAIN c = 1 .. Len(c)
  OBVIOUS
<1>2. /\ Len(d) = Len(c) + 1 /\ DOMAIN d = 1 .. Len(c) + 1
      /\ d[Len(c) + 1] = B!ToolResult(Head(t)) /\ \A i \in 1 .. Len(c) : d[i] = c[i]
  BY <1>1, Entries
<1> HIDE DEF d
<1>3. SUFFICES ASSUME NEW i \in DOMAIN d, NEW k \in 1 .. B!Calls(d[i])
               PROVE  AnsweredOrOwed(d, Tail(t), i, k)
  BY DEF Owed, d
<1>4. i \in 1 .. Len(c) /\ d[i] = c[i]
  BY <1>1, <1>2, Entries
<1>5. B!Calls(c[i]) \in Nat /\ k \in 1 .. B!Calls(c[i]) /\ k \in Nat
  BY <1>1, <1>4, Entries
<1>6. AnsweredOrOwed(c, t, i, k)
  BY <1>1, <1>4, <1>5 DEF Owed
<1>7. CASE i + k <= Len(c)
  <2>1. c[i + k] = B!ToolResult(k) /\ i + k \in 1 .. Len(c)
    BY <1>1, <1>4, <1>5, <1>6, <1>7 DEF AnsweredOrOwed
  <2>2. QED
    BY <1>1, <1>2, <1>7, <2>1 DEF AnsweredOrOwed
<1>8. CASE i + k = Len(c) + 1
  <2>1. t[1] = k
    BY <1>1, <1>4, <1>5, <1>6, <1>8 DEF AnsweredOrOwed
  <2>2. QED
    BY <1>1, <1>2, <1>8, <2>1 DEF AnsweredOrOwed
<1>9. CASE i + k > Len(c) + 1
  <2>1. i + k - Len(c) \in 1 .. Len(t) /\ t[i + k - Len(c)] = k
    BY <1>1, <1>4, <1>5, <1>6, <1>9 DEF AnsweredOrOwed
  <2>2. PICK j \in Nat : j = i + k - (Len(c) + 1)
    BY <1>1, <1>4, <1>5, <1>9
  <2>3. j \in 1 .. Len(t) - 1 /\ j + 1 = i + k - Len(c)
    <3>1. i \in Int /\ k \in Int /\ Len(c) \in Int /\ Len(t) \in Int
      BY <1>1, <1>4, <1>5
    <3>2. i + k - Len(c) <= Len(t) /\ i + k > Len(c) + 1
      BY <1>9, <2>1, <3>1
    <3>3. j + 1 = i + k - Len(c)
      BY <2>2, <3>1
    <3>4. j <= Len(t) - 1 /\ 1 <= j
      BY <2>2, <3>1, <3>2, <3>3, SMTT(30)
    <3>5. QED
      BY <3>1, <3>3, <3>4
  <2>4. Tail(t)[j] = k
    BY <1>1, <2>1, <2>3
  <2>5. QED
    BY <1>1, <1>2, <1>4, <1>5, <1>9, <2>2, <2>3, <2>4 DEF AnsweredOrOwed
<1>10. i + k <= Len(c) \/ i + k = Len(c) + 1 \/ i + k > Len(c) + 1
  <2>1. i \in Int /\ Len(c) \in Int /\ k \in Int
    BY <1>1, <1>4, <1>5
  <2>2. QED
    BY <2>1
<1>11. QED
  BY <1>7, <1>8, <1>9, <1>10

\* An answer of the model owes its calls, all of them, and no other.
LEMMA AnswerOwes ==
  ASSUME NEW c \in Seq(Entry), NEW n \in Nat, Owed(c, <<>>)
  PROVE  Owed(Append(c, B!Assistant(n)), [k \in 1 .. n |-> k])
<1> DEFINE d == Append(c, B!Assistant(n))
           t == [k \in 1 .. n |-> k]
<1>1. /\ Len(c) \in Nat /\ DOMAIN c = 1 .. Len(c) /\ DOMAIN <<>> = {}
      /\ Len(d) = Len(c) + 1 /\ DOMAIN d = 1 .. Len(c) + 1
      /\ d[Len(c) + 1] = B!Assistant(n) /\ \A i \in 1 .. Len(c) : d[i] = c[i]
  BY Entries
<1> HIDE DEF d
<1>2. SUFFICES ASSUME NEW i \in DOMAIN d, NEW k \in 1 .. B!Calls(d[i])
               PROVE  AnsweredOrOwed(d, t, i, k)
  BY DEF Owed, d
<1>3. CASE i = Len(c) + 1
  <2>1. k \in 1 .. n
    BY <1>1, <1>3, Entries
  <2>2. QED
    BY <1>1, <1>3, <2>1 DEF AnsweredOrOwed
<1>4. CASE i # Len(c) + 1
  <2>1. i \in 1 .. Len(c) /\ d[i] = c[i]
    BY <1>1, <1>4
  <2>2. B!Calls(c[i]) \in Nat /\ k \in 1 .. B!Calls(c[i])
    BY <1>1, <2>1, Entries
  <2>3. AnsweredOrOwed(c, <<>>, i, k)
    BY <1>1, <2>1, <2>2 DEF Owed
  <2>4. i + k <= Len(c) /\ c[i + k] = B!ToolResult(k)
    BY <1>1, <2>3 DEF AnsweredOrOwed
  <2>5. QED
    BY <1>1, <2>1, <2>2, <2>4 DEF AnsweredOrOwed
<1>5. QED
  BY <1>3, <1>4

\* Messages without calls owe nothing.
LEMMA NothingOwed ==
  ASSUME NEW c \in Seq(Entry), \A i \in DOMAIN c : B!Calls(c[i]) = 0
  PROVE  Owed(c, <<>>)
BY DEF Owed

\* A message that is pushed is in the log with its place, or lost with it.
LEMMA PersistStep ==
  ASSUME BundleInv, conv # <<>>, NEW m \in Entry, B!Persist(m)
  PROVE  /\ conv' \in Seq(Entry) /\ conv' # <<>> /\ lost' \subseteq 1 .. Len(conv')
         /\ B!LogFollowsTurn'
<1> DEFINE n == Len(conv)
           P == Places(n, lost)
<1>1. /\ conv \in Seq(Entry) /\ n \in Nat \ {0} /\ lost \in SUBSET (1 .. n)
      /\ log = [j \in DOMAIN P |-> conv[P[j]]]
  BY LogIs DEF BundleInv, BundleTypes
<1>2. /\ P \in Seq(1 .. n) /\ Places(n + 1, lost) = Append(P, n + 1)
      /\ Places(n + 1, lost \cup {n + 1}) = P
  BY <1>1, PlacesGrow
<1>3. /\ conv' = Append(conv, m) /\ conv' \in Seq(Entry) /\ Len(conv') = n + 1
      /\ conv'[n + 1] = m /\ \A i \in 1 .. n : conv'[i] = conv[i]
      /\ conv' # <<>>
  BY <1>1 DEF B!Persist
<1>4. B!LogFollowsTurn' <=>
        log' = [j \in DOMAIN Places(n + 1, lost') |-> conv'[Places(n + 1, lost')[j]]]
  <2>1. B!LogFollowsTurn' <=>
          log' = [j \in DOMAIN Places(Len(conv'), lost') |-> conv'[Places(Len(conv'), lost')[j]]]
    BY SameOnly DEF B!LogFollowsTurn, B!Kept, Places
  <2>2. QED
    BY <1>3, <2>1
<1>5. \/ log' = Append(log, m) /\ lost' = lost
      \/ log' = log /\ lost' = lost \cup {n + 1}
  BY DEF B!Persist
<1> HIDE DEF n, P
<1>6. lost' \subseteq 1 .. Len(conv')
  <2>1. lost' \subseteq lost \cup {n + 1}
    BY <1>5
  <2>2. \A x \in lost \cup {n + 1} : x \in 1 .. n + 1
    BY <1>1
  <2>3. 1 .. Len(conv') = 1 .. n + 1
    BY <1>3
  <2>4. QED
    BY <2>1, <2>2, <2>3, Zenon
<1>7. CASE log' = log /\ lost' = lost \cup {n + 1}
  <2>1. \A j \in DOMAIN P : conv'[P[j]] = conv[P[j]]
    BY <1>1, <1>2, <1>3
  <2>2. QED
    BY <1>1, <1>2, <1>3, <1>4, <1>6, <1>7, <2>1
<1>8. CASE log' = Append(log, m) /\ lost' = lost
  <2> DEFINE Q == Append(P, n + 1)
             l == [j \in DOMAIN P |-> conv[P[j]]]
  <2>1. /\ Len(P) \in Nat /\ DOMAIN P = 1 .. Len(P) /\ DOMAIN Q = 1 .. Len(P) + 1
        /\ Q[Len(P) + 1] = n + 1 /\ \A j \in 1 .. Len(P) : Q[j] = P[j] /\ P[j] \in 1 .. n
    BY <1>1, <1>2
  <2> HIDE DEF Q
  <2>2. l \in Seq(Entry) /\ Len(l) = Len(P) /\ \A j \in 1 .. Len(P) : l[j] = conv[P[j]]
    <3>1. \A j \in 1 .. n : conv[j] \in Entry
      BY <1>1 DEF n
    <3>2. \A j \in 1 .. Len(P) : conv[P[j]] \in Entry
      BY <2>1, <3>1
    <3>3. l = [j \in 1 .. Len(P) |-> conv[P[j]]]
      BY <2>1
    <3>4. QED
      BY <2>1, <3>2, <3>3
  <2> HIDE DEF l
  <2>3. /\ conv'[Q[Len(P) + 1]] = m
        /\ \A j \in 1 .. Len(P) : conv'[Q[j]] = l[j]
    BY <1>3, <2>1, <2>2
  <2>4. Append(l, m) = [j \in DOMAIN Q |-> conv'[Q[j]]]
    <3> DEFINE a == Append(l, m)
               b == [j \in 1 .. Len(P) + 1 |-> conv'[Q[j]]]
    <3>1. /\ a \in Seq(Entry) /\ Len(a) = Len(P) + 1 /\ a[Len(P) + 1] = m
          /\ \A j \in 1 .. Len(P) : a[j] = l[j]
      BY <2>1, <2>2
    <3>2. \A j \in 1 .. Len(P) + 1 : b[j] = conv'[Q[j]]
      OBVIOUS
    <3> HIDE DEF a, b
    <3>3. a = [j \in 1 .. Len(P) + 1 |-> a[j]]
      BY <2>1, <3>1
    <3>4. \A j \in 1 .. Len(P) + 1 : a[j] = b[j]
      <4>1. \A j \in 1 .. Len(P) + 1 : j \in 1 .. Len(P) \/ j = Len(P) + 1
        BY <2>1
      <4>2. QED
        BY <2>1, <2>3, <3>1, <3>2, <4>1
    <3>5. a = b
      BY <3>3, <3>4 DEF b
    <3>6. QED
      BY <2>1, <3>5 DEF a, b
  <2>5. log' = Append(l, m) /\ Places(n + 1, lost') = Q
    BY <1>1, <1>2, <1>8 DEF l, Q
  <2>6. QED
    BY <1>3, <1>4, <1>6, <2>4, <2>5
<1>9. QED
  BY <1>5, <1>7, <1>8

\* A step that leaves the turn's messages and what is owed alone.
LEMMA StillStep ==
  ASSUME BundleInv, UNCHANGED <<before, history, conv, log, lost, todo>>,
         place' # "start", place' # "end" => place \notin {"start", "end"},
         place' \in {"infer", "open", "stream"} => todo = <<>>,
         place' = "executing" => todo # <<>>
  PROVE  BundleInv'
BY DEF BundleInv, BundleTypes, B!LogFollowsTurn, B!Kept

\* The end of a turn by an error.
LEMMA FailStep ==
  ASSUME BundleInv, B!fail
  PROVE  BundleInv'
BY StillStep DEF B!fail

\* The history that a turn begins with has no calls.
LEMMA LoadStep ==
  ASSUME BundleInv, B!loadHistory
  PROVE  BundleInv'
<1>1. /\ place = "start" /\ place' = "infer" /\ conv = <<>> /\ log = <<>>
      /\ conv' = <<B!User>> /\ UNCHANGED <<before, log, lost, todo>> /\ todo = <<>>
      /\ history' = Only(before, Replayed) \/ history' = <<>>
      /\ before \in Seq(Entry) /\ lost = {}
  <2>1. conv = <<>> => 1 .. Len(conv) = {}
    OBVIOUS
  <2>2. QED
    BY <2>1, SameOnly DEF B!loadHistory, BundleInv, BundleTypes, B!historyToMessages, Replayed
<1>2. history' \in Seq(Replayed)
  <2>1. Only(before, Replayed) \in Seq(Replayed)
    BY <1>1, OnlyType
  <2>2. <<>> \in Seq(Replayed)
    BY EmptySeq
  <2>3. QED
    BY <1>1, <2>1, <2>2
<1>3. conv' \in Seq(Entry) /\ Len(conv') = 1 /\ conv' # <<>> /\ DOMAIN conv' = {1} /\ conv'[1] = B!User
  <2>1. \A u \in Entry : <<u>> \in Seq(Entry) /\ Len(<<u>>) = 1 /\ <<u>> # <<>>
                         /\ DOMAIN <<u>> = {1} /\ <<u>>[1] = u
    OBVIOUS
  <2>2. QED
    BY <1>1, <2>1, Entries
<1>4. Owed(conv', todo')
  <2>1. \A i \in DOMAIN conv' : B!Calls(conv'[i]) = 0
    BY <1>3, Entries
  <2>2. \A c \in Seq(Entry) : (\A i \in DOMAIN c : B!Calls(c[i]) = 0) => Owed(c, <<>>)
    BY NothingOwed
  <2>3. QED
    BY <1>1, <1>3, <2>1, <2>2
<1>5. B!LogFollowsTurn'
  <2>1. Places(1, {}) = <<>>
    <3>1. /\ [i \in 1 .. 1 |-> i] \in Seq({1}) /\ {1} \cap ((2 .. 1) \ {}) = {}
      OBVIOUS
    <3>2. QED
      BY <3>1, OnlyNone DEF Places
  <2>2. B!LogFollowsTurn' <=>
          log' = [j \in DOMAIN Places(Len(conv'), lost') |-> conv'[Places(Len(conv'), lost')[j]]]
    BY SameOnly DEF B!LogFollowsTurn, B!Kept, Places
  <2>3. \A c : [j \in DOMAIN <<>> |-> c[<<>>[j]]] = <<>>
    OBVIOUS
  <2>4. QED
    BY <1>1, <1>3, <2>1, <2>2, <2>3
<1>6. QED
  BY <1>1, <1>2, <1>3, <1>4, <1>5 DEF BundleInv, BundleTypes

\* The answer of the model is in the conversation, and owes the calls it makes.
LEMMA CompletedStep ==
  ASSUME BundleInv, B!BundleConstants, NEW n \in 0 .. MaxCalls, NEW r, B!completed(n, r)
  PROVE  BundleInv'
<1>1. n \in Nat /\ B!Assistant(n) \in Entry
  BY Entries DEF B!BundleConstants
<1>2. /\ place = "stream" /\ conv # <<>> /\ B!Persist(B!Assistant(n))
      /\ conv' = Append(conv, B!Assistant(n)) /\ UNCHANGED <<before, history>>
      /\ \/ place' = "end" /\ todo' = todo
         \/ place' = "tool" /\ todo' = [k \in 1 .. n |-> k]
  BY DEF B!completed, B!Persist, BundleInv, BundleTypes
<1>3. /\ conv' \in Seq(Entry) /\ conv' # <<>> /\ lost' \subseteq 1 .. Len(conv')
      /\ B!LogFollowsTurn'
  BY <1>1, <1>2, PersistStep
<1>4. todo' \in Seq(Nat)
  <2>1. [k \in 1 .. n |-> k] \in Seq(Nat)
    BY <1>1
  <2>2. todo \in Seq(Nat)
    BY DEF BundleInv, BundleTypes
  <2>3. QED
    BY <1>2, <2>1, <2>2
<1>5. ASSUME place' # "end" PROVE Owed(conv', todo')
  <2>1. Owed(conv, <<>>) /\ conv \in Seq(Entry)
    BY <1>2 DEF BundleInv, BundleTypes
  <2>2. \A c \in Seq(Entry) : Owed(c, <<>>) => Owed(Append(c, B!Assistant(n)), [k \in 1 .. n |-> k])
    BY <1>1, AnswerOwes
  <2>3. QED
    BY <1>2, <1>5, <2>1, <2>2
<1>6. QED
  BY <1>2, <1>3, <1>4, <1>5 DEF BundleInv, BundleTypes

\* A call gets its result, in the conversation and, unless its append fails, in
\* the log.
LEMMA ResultStep ==
  ASSUME BundleInv, place \in {"tool", "executing"}, todo # <<>>, place' = "tool",
         B!Persist(B!ToolResult(Head(todo))), todo' = Tail(todo),
         UNCHANGED <<before, history>>
  PROVE  BundleInv'
<1>1. /\ conv \in Seq(Entry) /\ todo \in Seq(Nat) /\ Head(todo) \in Nat
      /\ Tail(todo) \in Seq(Nat) /\ Owed(conv, todo) /\ conv # <<>>
  BY DEF BundleInv, BundleTypes
<1>2. B!ToolResult(Head(todo)) \in Entry
  BY <1>1, Entries
<1>3. /\ conv' \in Seq(Entry) /\ conv' # <<>> /\ lost' \subseteq 1 .. Len(conv')
      /\ B!LogFollowsTurn'
  BY <1>1, <1>2, PersistStep
<1>4. Owed(conv', todo')
  BY <1>1, ResultAnswers DEF B!Persist
<1>5. QED
  BY <1>1, <1>3, <1>4 DEF BundleInv, BundleTypes

\* Each step of a bundle's turn preserves BundleInv.
LEMMA BundleStep ==
  ASSUME BundleInv, B!BundleConstants, [B!Next]_(B!vars)
  PROVE  BundleInv'
<1>1. CASE B!loadHistory
  BY <1>1, LoadStep
<1>2. CASE B!beforeInference
  <2>1. CASE B!fail
    BY <2>1, FailStep
  <2>2. CASE ~ B!fail
    BY <1>2, <2>2, StillStep DEF B!beforeInference, BundleInv
  <2>3. QED
    BY <2>1, <2>2
<1>3. CASE B!hookThrows
  BY <1>3, FailStep DEF B!hookThrows
<1>4. CASE B!inferStream
  <2>1. CASE B!fail
    BY <2>1, FailStep
  <2>2. CASE ~ B!fail
    BY <1>4, <2>2, StillStep DEF B!inferStream, BundleInv
  <2>3. QED
    BY <2>1, <2>2
<1>5. CASE B!textDelta
  BY <1>5, StillStep DEF B!textDelta, BundleInv
<1>6. CASE B!streamThrows
  BY <1>6, FailStep DEF B!streamThrows
<1>7. ASSUME NEW n \in 0 .. MaxCalls, NEW r, B!completed(n, r) PROVE BundleInv'
  BY <1>7, CompletedStep
<1>8. CASE B!toolBlocked
  BY <1>8, ResultStep DEF B!toolBlocked
<1>9. CASE B!toolStart
  BY <1>9, StillStep DEF B!toolStart
<1>10. CASE B!toolEnd
  BY <1>10, ResultStep DEF B!toolEnd, BundleInv
<1>11. CASE B!nextIteration
  BY <1>11, StillStep DEF B!nextIteration
<1>12. CASE B!expire
  BY <1>12 DEF B!expire, BundleInv, BundleTypes, B!LogFollowsTurn, B!Kept
<1>13. CASE UNCHANGED B!vars
  BY <1>13 DEF B!vars, BundleInv, BundleTypes, B!LogFollowsTurn, B!Kept
<1>14. QED
  BY <1>1, <1>2, <1>3, <1>4, <1>5, <1>6, <1>7, <1>8, <1>9, <1>10, <1>11, <1>12, <1>13
     DEF B!Next, B!Step

\* The invariant at the start of a turn.
LEMMA BundleInit ==
  ASSUME B!Init
  PROVE  BundleInv
<1>1. /\ place = "start" /\ conv = <<>> /\ todo = <<>> /\ log = <<>> /\ history = <<>> /\ lost = {}
  BY DEF B!Init
<1>2. before \in Seq(Entry)
  <2>1. SUFFICES ASSUME NEW u \in Entry, NEW a \in Entry, NEW t \in Entry, NEW b \in Entry,
                        u = B!User, a = B!Assistant(1), t = B!ToolResult(1), b = B!Assistant(0)
                 PROVE  before \in Seq(Entry)
    BY Entries
  <2>2. before = <<u>> \/ before = <<u, a, t, b, u>>
    BY <2>1 DEF B!Init
  <2>3. <<u>> \in Seq(Entry) /\ <<u, a, t, b, u>> \in Seq(Entry)
    OBVIOUS
  <2>4. QED
    BY <2>2, <2>3
<1>3. \A M : <<>> \in Seq(M)
  BY EmptySeq
<1>4. Owed(<<>>, <<>>)
  BY DEF Owed
<1>5. B!LogFollowsTurn
  <2>1. Len(conv) = 0 /\ [i \in 1 .. 0 |-> i] = <<>>
    BY <1>1
  <2>2. Places(Len(conv), lost) = <<>>
    BY <2>1, OnlyEmpty DEF Places
  <2>3. [j \in DOMAIN <<>> |-> conv[<<>>[j]]] = <<>>
    OBVIOUS
  <2>4. QED
    BY <1>1, <2>2, <2>3, LogIs
<1>6. BundleTypes
  BY <1>1, <1>2, <1>3 DEF BundleTypes
<1>7. QED
  BY <1>1, <1>4, <1>5, <1>6 DEF BundleInv

\* In a request the calls of the turn keep their results, behind a history that
\* makes none.
LEMMA RequestAnswered ==
  ASSUME BundleInv, place = "open"
  PROVE  \A i \in DOMAIN B!Request : \A k \in 1 .. B!Calls(B!Request[i]) :
           i + k <= Len(B!Request) /\ B!Request[i + k] = B!ToolResult(k)
<1> DEFINE h == Len(history)
           r == B!Request
<1>1. /\ history \in Seq(Replayed) /\ conv \in Seq(Entry) /\ Replayed \subseteq Entry
      /\ \A m \in Replayed : B!Calls(m) = 0
  BY Entries DEF BundleInv, BundleTypes, Replayed
<1>2. history \in Seq(Entry)
  BY <1>1
<1>3. /\ h \in Nat /\ Len(conv) \in Nat /\ Len(r) = h + Len(conv) /\ DOMAIN r = 1 .. h + Len(conv)
      /\ \A i \in 1 .. h : r[i] = history[i] /\ history[i] \in Replayed
      /\ \A i \in 1 .. Len(conv) : r[h + i] = conv[i]
  BY <1>1, <1>2 DEF B!Request
<1> HIDE DEF h, r
<1>4. SUFFICES ASSUME NEW i \in DOMAIN r, NEW k \in 1 .. B!Calls(r[i])
               PROVE  i + k <= Len(r) /\ r[i + k] = B!ToolResult(k)
  BY DEF r
<1>5. CASE i <= h
  BY <1>1, <1>3, <1>5
<1>6. CASE i > h
  <2>1. PICK j \in 1 .. Len(conv) : i = h + j
    <3>1. i - h \in 1 .. Len(conv) /\ i = h + (i - h)
      BY <1>3, <1>6
    <3>2. QED
      BY <3>1
  <2>2. r[i] = conv[j] /\ B!Calls(conv[j]) \in Nat
    BY <1>1, <1>3, <2>1, Entries
  <2>3. AnsweredOrOwed(conv, <<>>, j, k)
    BY <1>1, <2>1, <2>2 DEF BundleInv, Owed
  <2>4. j + k <= Len(conv) /\ conv[j + k] = B!ToolResult(k)
    BY <2>3 DEF AnsweredOrOwed
  <2>5. /\ k \in Nat /\ j + k \in 1 .. Len(conv) /\ i + k = h + (j + k)
    BY <1>3, <2>1, <2>2, <2>4
  <2>6. QED
    BY <1>3, <2>4, <2>5
<1>7. QED
  BY <1>3, <1>5, <1>6

\* For any budgets, iterations and answers of the model, of tools and of hooks, a
\* token that may expire at any moment and spine calls any of which may fail:
\* whenever the model is asked, each tool call of the request has its result right
\* after it, in the order of the calls, and the log has of the turn its messages,
\* in order, without those alone whose own append failed.
THEOREM BundleTurnsAnswer ==
  ASSUME B!BundleConstants
  PROVE  B!Spec => []BundleTurnAnswered
<1>1. B!Init => BundleInv
  BY BundleInit
<1>2. BundleInv /\ [B!Next]_(B!vars) => BundleInv'
  BY BundleStep
<1>3. BundleInv => BundleTurnAnswered
  BY RequestAnswered DEF BundleInv, BundleTurnAnswered, B!ToolsAnswered
<1>4. QED
  BY <1>1, <1>2, <1>3, PTL DEF B!Spec

-----------------------------------------------------------------------------
(***************************************************************************)
(* ClientView.  The messages of the log that the browser is to show are    *)
(* followed from the log through what is on the way to the reducer.        *)
(***************************************************************************)
UserMsg == [id : Nat, role : {"user"}]
AssistantMsg == [id : Nat, role : {"assistant"}]
ResultMsg == [id : Nat, role : {"toolResult"}]
LogMsg == [id : Nat, role : {"user", "assistant", "toolResult"}]
ViewMsg == [id : Nat, role : {"user", "assistant", "toolResult"}, live : BOOLEAN]

Ending(l) == l # <<>> /\ l[Len(l)].live = TRUE
InFlight(n) == IF n = 0 THEN <<>> ELSE <<V!Shown(V!Msg(n, "assistant"), TRUE)>>
Synced(l, n) == V!Settle(Only(l, V!Answer)) \o InFlight(n)

LEMMA SameViewOnly == \A s, T : V!Only(s, T) = Only(s, T)
BY DEF V!Only, Only

\* What is shown of a message of the log, and whether it is an answer.
LEMMA ShownIs ==
  \A m \in LogMsg :
    /\ V!Shown(m, TRUE) \in ViewMsg /\ V!Shown(m, TRUE).live = TRUE
    /\ V!Shown(m, FALSE) \in ViewMsg /\ V!Shown(m, FALSE).live = FALSE
    /\ V!Shown(m, TRUE).role = m.role /\ V!Shown(m, FALSE).role = m.role
    /\ m \in V!Answer <=> m.role # "user"
    /\ V!Shown(m, TRUE) \in V!ShownAnswer <=> m.role # "user"
    /\ V!Shown(m, FALSE) \in V!ShownAnswer <=> m.role # "user"
BY DEF LogMsg, ViewMsg, V!Shown, V!Answer, V!ShownAnswer

LEMMA SettleIs ==
  ASSUME NEW l \in Seq(LogMsg)
  PROVE  /\ V!Settle(l) \in Seq(ViewMsg) /\ Len(V!Settle(l)) = Len(l)
         /\ \A i \in 1 .. Len(l) : V!Settle(l)[i] = V!Shown(l[i], FALSE)
<1> DEFINE p == V!Settle(l)
<1>1. \A i \in 1 .. Len(l) : l[i] \in LogMsg
  OBVIOUS
<1>2. \A i \in 1 .. Len(l) : V!Shown(l[i], FALSE) \in ViewMsg
  BY <1>1, ShownIs
<1>3. Len(l) \in Nat /\ DOMAIN l = 1 .. Len(l)
  OBVIOUS
<1>4. p = [i \in 1 .. Len(l) |-> V!Shown(l[i], FALSE)]
  BY <1>3 DEF V!Settle
<1>5. p \in [1 .. Len(l) -> ViewMsg] /\ \A i \in 1 .. Len(l) : p[i] = V!Shown(l[i], FALSE)
  BY <1>2, <1>4
<1> HIDE DEF p
<1>6. p \in Seq(ViewMsg) /\ Len(p) = Len(l)
  BY <1>3, <1>5
<1>7. QED
  BY <1>5, <1>6 DEF p

LEMMA SettleAppend ==
  ASSUME NEW l \in Seq(LogMsg), NEW m \in LogMsg
  PROVE  V!Settle(Append(l, m)) = Append(V!Settle(l), V!Shown(m, FALSE))
<1> DEFINE k == Append(l, m)
           p == Append(V!Settle(l), V!Shown(m, FALSE))
<1>1. /\ k \in Seq(LogMsg) /\ Len(k) = Len(l) + 1 /\ k[Len(l) + 1] = m
      /\ \A i \in 1 .. Len(l) : k[i] = l[i]
  OBVIOUS
<1>2. /\ p \in Seq(ViewMsg) /\ Len(p) = Len(l) + 1 /\ p[Len(l) + 1] = V!Shown(m, FALSE)
      /\ \A i \in 1 .. Len(l) : p[i] = V!Shown(l[i], FALSE)
  <2> DEFINE q == V!Settle(l)
             x == V!Shown(m, FALSE)
  <2>1. /\ q \in Seq(ViewMsg) /\ Len(q) = Len(l) /\ x \in ViewMsg
        /\ \A i \in 1 .. Len(l) : q[i] = V!Shown(l[i], FALSE)
    BY SettleIs, ShownIs
  <2> HIDE DEF q, x
  <2>2. /\ Append(q, x) \in Seq(ViewMsg) /\ Len(Append(q, x)) = Len(q) + 1
        /\ Append(q, x)[Len(q) + 1] = x
        /\ \A i \in 1 .. Len(q) : Append(q, x)[i] = q[i]
    BY <2>1
  <2>3. QED
    BY <2>1, <2>2 DEF q, x
<1> HIDE DEF k, p
<1>3. /\ V!Settle(k) \in Seq(ViewMsg) /\ Len(V!Settle(k)) = Len(k)
      /\ \A i \in 1 .. Len(k) : V!Settle(k)[i] = V!Shown(k[i], FALSE)
  BY <1>1, SettleIs
<1>4. \A i \in 1 .. Len(l) + 1 : V!Settle(k)[i] = p[i]
  <2>1. SUFFICES ASSUME NEW i \in 1 .. Len(l) + 1 PROVE V!Settle(k)[i] = p[i]
    OBVIOUS
  <2>2. V!Settle(k)[i] = V!Shown(k[i], FALSE)
    BY <1>1, <1>3
  <2>3. Len(l) \in Nat
    OBVIOUS
  <2>4. CASE i = Len(l) + 1
    BY <1>1, <1>2, <2>2, <2>4
  <2>5. CASE i \in 1 .. Len(l)
    BY <1>1, <1>2, <2>2, <2>5
  <2>6. QED
    BY <2>3, <2>4, <2>5
<1>5. V!Settle(k) = p
  BY <1>1, <1>2, <1>3, <1>4
<1>6. QED
  BY <1>5 DEF k, p

\* To settle the answers of a log is to pick the answers of the settled log.
LEMMA OnlySettle ==
  ASSUME NEW l \in Seq(LogMsg)
  PROVE  /\ Only(V!Settle(l), V!ShownAnswer) = V!Settle(Only(l, V!Answer))
         /\ Only(l, V!Answer) \in Seq(LogMsg)
<1> DEFINE S == {k \in Seq(LogMsg) :
                   Only(V!Settle(k), V!ShownAnswer) = V!Settle(Only(k, V!Answer))}
<1>1. <<>> \in S
  <2>1. V!Settle(<<>>) = <<>>
    BY DEF V!Settle
  <2>2. QED
    BY <2>1, OnlyEmpty
<1>2. ASSUME NEW k \in Seq(LogMsg), NEW x \in LogMsg, k \in S PROVE Append(k, x) \in S
  <2>1. /\ V!Settle(Append(k, x)) = Append(V!Settle(k), V!Shown(x, FALSE))
        /\ V!Settle(k) \in Seq(ViewMsg) /\ V!Shown(x, FALSE) \in ViewMsg
        /\ x \in V!Answer <=> V!Shown(x, FALSE) \in V!ShownAnswer
    BY SettleAppend, SettleIs, ShownIs
  <2>2. /\ Only(k, V!Answer) \in Seq(LogMsg)
        /\ Only(Append(k, x), V!Answer)
             = IF x \in V!Answer THEN Append(Only(k, V!Answer), x) ELSE Only(k, V!Answer)
    BY OnlyType, OnlyAppend
  <2>3. Only(V!Settle(Append(k, x)), V!ShownAnswer)
          = IF x \in V!Answer THEN Append(Only(V!Settle(k), V!ShownAnswer), V!Shown(x, FALSE))
                              ELSE Only(V!Settle(k), V!ShownAnswer)
    <3> DEFINE u == V!Settle(k)
               y == V!Shown(x, FALSE)
    <3>1. /\ u \in Seq(ViewMsg) /\ y \in ViewMsg /\ V!Settle(Append(k, x)) = Append(u, y)
          /\ x \in V!Answer <=> y \in V!ShownAnswer
      BY <2>1
    <3> HIDE DEF u, y
    <3>2. Only(Append(u, y), V!ShownAnswer)
            = IF y \in V!ShownAnswer THEN Append(Only(u, V!ShownAnswer), y)
                                     ELSE Only(u, V!ShownAnswer)
      BY <3>1, OnlyAppend
    <3>3. QED
      BY <3>1, <3>2 DEF u, y
  <2>4. V!Settle(Append(Only(k, V!Answer), x))
          = Append(V!Settle(Only(k, V!Answer)), V!Shown(x, FALSE))
    BY <2>2, SettleAppend
  <2>5. CASE x \in V!Answer
    <3>1. Only(Append(k, x), V!Answer) = Append(Only(k, V!Answer), x)
      BY <2>2, <2>5
    <3>2. Only(V!Settle(Append(k, x)), V!ShownAnswer)
            = Append(V!Settle(Only(k, V!Answer)), V!Shown(x, FALSE))
      BY <1>2, <2>3, <2>5
    <3>3. Append(k, x) \in Seq(LogMsg)
      OBVIOUS
    <3>4. Only(V!Settle(Append(k, x)), V!ShownAnswer) = V!Settle(Only(Append(k, x), V!Answer))
      BY <2>4, <3>1, <3>2
    <3>5. QED
      BY <3>3, <3>4
  <2>6. CASE x \notin V!Answer
    BY <1>2, <2>2, <2>3, <2>6
  <2>7. QED
    BY <2>5, <2>6
<1>3. l \in S
  <2> HIDE DEF S
  <2>1. QED
    BY <1>1, <1>2, ListInduct
<1>4. QED
  BY <1>3, OnlyType

\* The answers shown of a synchronised session, and which of them streams.
LEMMA SyncedIs ==
  ASSUME NEW l \in Seq(LogMsg), NEW n \in Nat
  PROVE  /\ Synced(l, n) \in Seq(V!ShownAnswer)
         /\ Ending(Synced(l, n)) <=> n # 0
         /\ Only(V!Settle(l) \o InFlight(n), V!ShownAnswer) = Synced(l, n)
         /\ V!Settle(l) \o InFlight(n) \in Seq(ViewMsg)
         /\ \A i \in 1 .. Len(V!Settle(l) \o InFlight(n)) :
              (V!Settle(l) \o InFlight(n))[i].live = TRUE =>
                /\ i = Len(V!Settle(l) \o InFlight(n)) /\ n # 0
                /\ (V!Settle(l) \o InFlight(n))[i].role = "assistant"
<1> DEFINE p == Only(l, V!Answer)
           x == V!Shown(V!Msg(n, "assistant"), TRUE)
<1>1. /\ p \in Seq(LogMsg) /\ Only(V!Settle(l), V!ShownAnswer) = V!Settle(p)
  BY OnlySettle
<1>2. /\ x \in ViewMsg /\ x \in V!ShownAnswer /\ x.live = TRUE /\ x.role = "assistant"
  BY DEF V!Shown, V!Msg, V!ShownAnswer, ViewMsg
<1>3. V!Settle(p) \in Seq(V!ShownAnswer) /\ V!Settle(l) \in Seq(ViewMsg)
  BY <1>1, SettleIs, OnlyType
<1>4. InFlight(n) = IF n = 0 THEN <<>> ELSE <<x>>
  BY DEF InFlight
<1>5. \A i \in 1 .. Len(V!Settle(l)) : V!Settle(l)[i].live = FALSE
  <2>1. \A i \in 1 .. Len(l) : V!Shown(l[i], FALSE).live = FALSE
    <3>1. \A i \in 1 .. Len(l) : l[i] \in LogMsg
      OBVIOUS
    <3>2. QED
      BY <3>1, ShownIs
  <2>2. QED
    BY <2>1, SettleIs
<1>6. \A i \in 1 .. Len(V!Settle(p)) : V!Settle(p)[i].live = FALSE
  <2>1. \A i \in 1 .. Len(p) : V!Shown(p[i], FALSE).live = FALSE
    <3>1. \A i \in 1 .. Len(p) : p[i] \in LogMsg
      BY <1>1
    <3>2. QED
      BY <3>1, ShownIs
  <2>2. QED
    BY <1>1, <2>1, SettleIs
<1> DEFINE v == V!Settle(l)
           q == V!Settle(p)
<1>7. Only(v, V!ShownAnswer) = q
  BY <1>1
<1>8. Synced(l, n) = q \o InFlight(n)
  BY DEF Synced
<1> HIDE DEF v, q, x
<1>9. CASE n = 0
  <2>1. v \o InFlight(n) = v /\ q \o InFlight(n) = q
    BY <1>3, <1>4, <1>9, ConcatEmptySeq DEF v, q
  <2>2. ~ Ending(q)
    BY <1>3, <1>6 DEF Ending, q
  <2>3. QED
    BY <1>3, <1>5, <1>7, <1>8, <1>9, <2>1, <2>2 DEF v, q
<1>10. CASE n # 0
  <2>1. v \in Seq(ViewMsg) /\ q \in Seq(V!ShownAnswer)
    BY <1>3 DEF v, q
  <2>2. v \o InFlight(n) = Append(v, x) /\ q \o InFlight(n) = Append(q, x)
    BY <1>2, <1>4, <1>10, <2>1
  <2>3. Only(Append(v, x), V!ShownAnswer) = Append(q, x)
    BY <1>2, <1>7, <2>1, OnlyAppend
  <2>4. Ending(Append(q, x))
    BY <1>2, <2>1 DEF Ending
  <2>5. \A i \in 1 .. Len(Append(v, x)) : Append(v, x)[i].live = TRUE =>
          i = Len(Append(v, x)) /\ Append(v, x)[i].role = "assistant"
    <3>1. /\ Len(Append(v, x)) = Len(v) + 1 /\ Append(v, x)[Len(v) + 1] = x
          /\ \A i \in 1 .. Len(v) : Append(v, x)[i] = v[i] /\ v[i].live = FALSE
      BY <1>5, <2>1 DEF v
    <3>2. QED
      BY <1>2, <2>1, <3>1
  <2>6. QED
    BY <1>2, <1>8, <1>10, <2>1, <2>2, <2>3, <2>4, <2>5 DEF v
<1>11. QED
  BY <1>9, <1>10

Shows == [sess : Nat, ans : Seq(V!ShownAnswer)]

SyncMsg == [t : {"session_sync"}, s : Chats, msgs : Seq(LogMsg), stream : Nat, cursor : Nat,
            more : BOOLEAN]
KeysMsg == [t : {"capability_state"}, cap : {"commands", "schedules"}]
EventMsg == [t : {"agent_start", "tool_execution_start", "agent_end"}, s : Chats, m : {0}]
              \cup [t : {"message_start", "message_end"}, s : Chats, m : AssistantMsg]
              \cup [t : {"tool_execution_end"}, s : Chats, m : ResultMsg]
              \cup [t : {"inject_message"}, s : Chats, m : UserMsg]
DownMsg == SyncMsg \cup KeysMsg \cup EventMsg

\* What the browser shows after a message that it can take.
Takes(a, msg, b) ==
  \/ /\ msg.t = "session_sync"
     /\ b.sess = msg.s /\ b.ans = Synced(msg.msgs, msg.stream)
  \/ msg.t = "capability_state" /\ b = a
  \/ msg.t \notin {"session_sync", "capability_state"} /\ msg.s # a.sess /\ b = a
  \/ /\ msg.t \notin {"session_sync", "capability_state"} /\ msg.s = a.sess /\ b.sess = a.sess
     /\ \/ msg.t \in {"agent_start", "tool_execution_start"} /\ b.ans = a.ans
        \/ msg.t \in {"agent_end", "inject_message"} /\ ~ Ending(a.ans) /\ b.ans = a.ans
        \/ /\ msg.t = "message_start" /\ ~ Ending(a.ans)
           /\ b.ans = Append(a.ans, V!Shown(msg.m, TRUE))
        \/ /\ msg.t = "tool_execution_end" /\ ~ Ending(a.ans)
           /\ b.ans = Append(a.ans, V!Shown(msg.m, FALSE))
        \/ /\ msg.t = "message_end" /\ Ending(a.ans)
           /\ b.ans = Append(SubSeq(a.ans, 1, Len(a.ans) - 1), V!Shown(msg.m, FALSE))

\* r is what the browser comes to show from c on, while it takes the messages d.
Leads(r, c, d) ==
  /\ Len(r) = Len(d) + 1 /\ r[1] = c
  /\ \A i \in 1 .. Len(d) : Takes(r[i], d[i], r[i + 1])

\* Messages that make the browser take the agent for busy, and for idle.
Busying(msg) == \/ msg.t \in {"agent_start", "message_start", "tool_execution_start"}
                \/ msg.t = "session_sync" /\ msg.stream # 0
Calming(a, msg) == \/ msg.t = "session_sync" /\ msg.stream = 0
                   \/ msg.t = "agent_end" /\ msg.s = a.sess

NoneBusy(d) == \A j \in 1 .. Len(d) : ~ Busying(d[j])
Calmed(r, d) == \E k \in 1 .. Len(d) :
                  Calming(r[k], d[k]) /\ \A j \in k + 1 .. Len(d) : ~ Busying(d[j])

LEMMA LeadsOn ==
  ASSUME NEW r \in Seq(Shows), NEW c, NEW d \in Seq(DownMsg), Leads(r, c, d),
         NEW msg \in DownMsg, NEW b \in Shows, Takes(r[Len(r)], msg, b)
  PROVE  /\ Append(r, b) \in Seq(Shows) /\ Append(d, msg) \in Seq(DownMsg)
         /\ Leads(Append(r, b), c, Append(d, msg))
         /\ Append(r, b)[Len(Append(r, b))] = b
         /\ Calming(r[Len(r)], msg) => Calmed(Append(r, b), Append(d, msg))
         /\ Calmed(r, d) /\ ~ Busying(msg) => Calmed(Append(r, b), Append(d, msg))
         /\ NoneBusy(d) /\ ~ Busying(msg) => NoneBusy(Append(d, msg))
<1> DEFINE p == Append(r, b)
           e == Append(d, msg)
           n == Len(d)
<1>1. /\ n \in Nat /\ Len(r) = n + 1 /\ r[1] = c
      /\ \A i \in 1 .. n : Takes(r[i], d[i], r[i + 1])
  BY DEF Leads
<1>2. /\ p \in Seq(Shows) /\ Len(p) = n + 2 /\ p[n + 2] = b
      /\ \A i \in 1 .. n + 1 : p[i] = r[i]
  <2>1. /\ p \in Seq(Shows) /\ Len(p) = Len(r) + 1 /\ p[Len(r) + 1] = b
        /\ \A i \in 1 .. Len(r) : p[i] = r[i]
    OBVIOUS
  <2>2. QED
    BY <1>1, <2>1
<1>3. /\ e \in Seq(DownMsg) /\ Len(e) = n + 1 /\ e[n + 1] = msg
      /\ \A i \in 1 .. n : e[i] = d[i]
  OBVIOUS
<1> HIDE DEF p, e, n
<1>4. \A i \in 1 .. n + 1 : Takes(p[i], e[i], p[i + 1])
  <2>1. ASSUME NEW i \in 1 .. n PROVE Takes(p[i], e[i], p[i + 1])
    <3>1. i \in 1 .. n + 1 /\ i + 1 \in 1 .. n + 1
      BY <1>1
    <3>2. QED
      BY <1>1, <1>2, <1>3, <3>1
  <2>2. Takes(p[n + 1], e[n + 1], p[n + 1 + 1])
    <3>1. n + 1 \in 1 .. n + 1 /\ n + 1 + 1 = n + 2
      BY <1>1
    <3>2. QED
      BY <1>1, <1>2, <1>3, <3>1
  <2>3. \A i \in 1 .. n + 1 : i \in 1 .. n \/ i = n + 1
    BY <1>1
  <2>4. QED
    BY <2>1, <2>2, <2>3
<1>5. Leads(p, c, e)
  <2>1. Len(p) = Len(e) + 1 /\ p[1] = c
    BY <1>1, <1>2, <1>3
  <2>2. QED
    BY <1>3, <1>4, <2>1 DEF Leads
<1>6. ASSUME Calming(r[Len(r)], msg) PROVE Calmed(p, e)
  <2>1. n + 1 \in 1 .. Len(e) /\ Calming(p[n + 1], e[n + 1])
    BY <1>1, <1>2, <1>3, <1>6
  <2>2. \A j \in n + 1 + 1 .. Len(e) : ~ Busying(e[j])
    BY <1>1, <1>3
  <2>3. QED
    BY <2>1, <2>2 DEF Calmed
<1>7. ASSUME Calmed(r, d), ~ Busying(msg) PROVE Calmed(p, e)
  <2>1. PICK k \in 1 .. n : Calming(r[k], d[k]) /\ \A j \in k + 1 .. n : ~ Busying(d[j])
    BY <1>7 DEF Calmed, n
  <2>2. k \in 1 .. Len(e) /\ p[k] = r[k] /\ e[k] = d[k]
    <3>1. k \in 1 .. n + 1
      BY <1>1
    <3>2. p[k] = r[k] /\ e[k] = d[k]
      BY <1>2, <1>3, <3>1
    <3>3. QED
      BY <1>3, <3>1, <3>2
  <2>3. ASSUME NEW j \in k + 1 .. Len(e) PROVE ~ Busying(e[j])
    <3>1. CASE j = n + 1
      BY <1>3, <1>7, <3>1
    <3>2. CASE j # n + 1
      <4>1. j \in k + 1 .. n /\ j \in 1 .. n
        BY <1>1, <1>3, <3>2
      <4>2. QED
        BY <1>3, <2>1, <4>1
    <3>3. QED
      BY <3>1, <3>2
  <2>4. QED
    BY <2>1, <2>2, <2>3 DEF Calmed
<1>8. ASSUME NoneBusy(d), ~ Busying(msg) PROVE NoneBusy(e)
  <2>1. \A j \in 1 .. Len(e) : j = n + 1 \/ j \in 1 .. n
    BY <1>1, <1>3
  <2>2. \A j \in 1 .. n : ~ Busying(d[j])
    BY <1>8 DEF NoneBusy, n
  <2>3. QED
    BY <1>3, <1>8, <2>1, <2>2 DEF NoneBusy
<1>9. p[Len(p)] = b
  BY <1>2
<1>10. QED
  BY <1>2, <1>3, <1>5, <1>6, <1>7, <1>8, <1>9 DEF p, e

LEMMA LeadsTail ==
  ASSUME NEW r \in Seq(Shows), NEW c, NEW d \in Seq(DownMsg), Leads(r, c, d), d # <<>>
  PROVE  /\ Takes(c, Head(d), r[2]) /\ Leads(Tail(r), r[2], Tail(d)) /\ Tail(d) \in Seq(DownMsg)
         /\ Tail(r) \in Seq(Shows) /\ Tail(r)[Len(Tail(r))] = r[Len(r)]
         /\ Head(d) \in DownMsg /\ c \in Shows /\ r[2] \in Shows
         /\ Calmed(r, d) => \/ Calmed(Tail(r), Tail(d))
                            \/ NoneBusy(Tail(d)) /\ Calming(c, Head(d))
         /\ NoneBusy(d) => NoneBusy(Tail(d)) /\ ~ Busying(Head(d))
<1> DEFINE p == Tail(r)
           e == Tail(d)
           n == Len(d)
<1>1. /\ n \in Nat \ {0} /\ Len(r) = n + 1 /\ r[1] = c /\ Head(d) = d[1] /\ r # <<>>
      /\ \A i \in 1 .. n : Takes(r[i], d[i], r[i + 1])
  <2>1. n \in Nat \ {0} /\ Head(d) = d[1]
    OBVIOUS
  <2>2. Len(r) = n + 1 /\ r[1] = c /\ \A i \in 1 .. n : Takes(r[i], d[i], r[i + 1])
    BY DEF Leads
  <2>3. r # <<>>
    BY <2>1, <2>2
  <2>4. QED
    BY <2>1, <2>2, <2>3
<1>2. /\ p \in Seq(Shows) /\ Len(p) = n /\ \A i \in 1 .. n : p[i] = r[i + 1]
  <2>1. /\ p \in Seq(Shows) /\ Len(p) = Len(r) - 1 /\ \A i \in 1 .. Len(p) : p[i] = r[i + 1]
    BY <1>1
  <2>2. QED
    BY <1>1, <2>1
<1>3. /\ e \in Seq(DownMsg) /\ Len(e) = n - 1 /\ \A i \in 1 .. n - 1 : e[i] = d[i + 1]
  <2>1. /\ e \in Seq(DownMsg) /\ Len(e) = Len(d) - 1 /\ \A i \in 1 .. Len(e) : e[i] = d[i + 1]
    OBVIOUS
  <2>2. QED
    BY <2>1
<1>4. /\ d[1] \in DownMsg /\ r[1] \in Shows /\ r[2] \in Shows
  BY <1>1
<1> HIDE DEF p, e, n
<1>5. Leads(p, r[2], e)
  <2>1. Len(p) = Len(e) + 1 /\ p[1] = r[2]
    BY <1>1, <1>2, <1>3
  <2>2. ASSUME NEW i \in 1 .. Len(e) PROVE Takes(p[i], e[i], p[i + 1])
    <3>1. /\ i \in 1 .. n - 1 /\ i \in 1 .. n /\ i + 1 \in 1 .. n
      BY <1>1, <1>3
    <3>2. Takes(r[i + 1], d[i + 1], r[i + 1 + 1])
      BY <1>1, <3>1
    <3>3. QED
      BY <1>2, <1>3, <3>1, <3>2
  <2>3. QED
    BY <2>1, <2>2 DEF Leads
<1>6. Takes(c, Head(d), r[2])
  <2>1. 1 \in 1 .. n /\ 1 + 1 = 2
    BY <1>1
  <2>2. QED
    BY <1>1, <2>1
<1>7. p[Len(p)] = r[Len(r)]
  BY <1>1, <1>2
<1>8. ASSUME Calmed(r, d) PROVE Calmed(p, e) \/ (NoneBusy(e) /\ Calming(c, Head(d)))
  <2>1. PICK k \in 1 .. n : Calming(r[k], d[k]) /\ \A j \in k + 1 .. n : ~ Busying(d[j])
    BY <1>8 DEF Calmed, n
  <2>2. ASSUME NEW j \in k .. n - 1 PROVE ~ Busying(e[j])
    <3>1. j + 1 \in k + 1 .. n /\ j \in 1 .. n - 1
      BY <1>1
    <3>2. QED
      BY <1>3, <2>1, <3>1
  <2>3. CASE k = 1
    <3>1. NoneBusy(e)
      BY <1>3, <2>2, <2>3 DEF NoneBusy
    <3>2. QED
      BY <1>1, <2>1, <2>3, <3>1
  <2>4. CASE k # 1
    <3>1. k - 1 \in 1 .. n - 1 /\ k - 1 + 1 = k /\ k - 1 \in 1 .. n
      BY <1>1, <2>4
    <3>2. Calming(p[k - 1], e[k - 1])
      BY <1>2, <1>3, <2>1, <3>1
    <3>3. \A j \in k - 1 + 1 .. Len(e) : ~ Busying(e[j])
      BY <1>3, <2>2, <3>1
    <3>4. QED
      BY <1>3, <3>1, <3>2, <3>3 DEF Calmed
  <2>5. QED
    BY <2>3, <2>4
<1>9. ASSUME NoneBusy(d) PROVE NoneBusy(e) /\ ~ Busying(Head(d))
  <2>1. \A j \in 1 .. n : ~ Busying(d[j])
    BY <1>9 DEF NoneBusy, n
  <2>2. ASSUME NEW j \in 1 .. n - 1 PROVE ~ Busying(e[j])
    <3>1. j + 1 \in 1 .. n
      BY <1>1
    <3>2. QED
      BY <1>3, <2>1, <3>1
  <2>3. ~ Busying(d[1])
    BY <1>1, <2>1
  <2>4. QED
    BY <1>1, <1>3, <2>2, <2>3 DEF NoneBusy
<1>10. QED
  BY <1>1, <1>2, <1>3, <1>4, <1>5, <1>6, <1>7, <1>8, <1>9 DEF p, e

\* A browser that comes to show another session is synchronised on the way.
LEMMA SameSession ==
  ASSUME NEW r \in Seq(Shows), NEW c, NEW d \in Seq(DownMsg), Leads(r, c, d),
         NoneBusy(d), ~ Calmed(r, d)
  PROVE  r[Len(r)].sess = c.sess
<1> DEFINE n == Len(d)
           S == {i \in Nat : i <= n => r[i + 1].sess = c.sess}
<1>1. /\ n \in Nat /\ Len(r) = n + 1 /\ r[1] = c
      /\ \A i \in 1 .. n : Takes(r[i], d[i], r[i + 1])
  BY DEF Leads
<1>2. \A i \in 1 .. n : ~ Busying(d[i]) /\ ~ Calming(r[i], d[i])
  <2>1. \A i \in 1 .. n : ~ Busying(d[i])
    BY DEF NoneBusy
  <2>2. \A i \in 1 .. n : \A j \in i + 1 .. n : j \in 1 .. n
    BY <1>1
  <2>3. QED
    BY <2>1, <2>2 DEF Calmed
<1> HIDE DEF n
<1>3. 0 \in S
  BY <1>1
<1>4. ASSUME NEW i \in Nat, i \in S PROVE i + 1 \in S
  <2>1. SUFFICES ASSUME i + 1 <= n PROVE r[i + 1 + 1].sess = c.sess
    OBVIOUS
  <2>2. i + 1 \in 1 .. n /\ r[i + 1].sess = c.sess
    BY <1>1, <1>4, <2>1
  <2>3. Takes(r[i + 1], d[i + 1], r[i + 1 + 1]) /\ d[i + 1].t # "session_sync"
    BY <1>1, <1>2, <2>2 DEF Busying, Calming
  <2>4. r[i + 1 + 1].sess = r[i + 1].sess
    BY <2>3 DEF Takes
  <2>5. QED
    BY <2>2, <2>4
<1>5. n \in S
  <2> HIDE DEF S
  <2>1. QED
    BY <1>1, <1>3, <1>4, NatInduct
<1>6. QED
  BY <1>1, <1>5

\* What the browser is to show, as the log and the streaming message change.
LEMMA SyncedMoves ==
  ASSUME NEW l \in Seq(LogMsg), NEW n \in Nat, NEW m \in LogMsg
  PROVE  /\ m.role = "user" => Synced(Append(l, m), n) = Synced(l, n)
         /\ m.role # "user" => Synced(Append(l, m), 0) = Append(Synced(l, 0), V!Shown(m, FALSE))
         /\ n # 0 => /\ Synced(l, n) = Append(Synced(l, 0), V!Shown(V!Msg(n, "assistant"), TRUE))
                     /\ SubSeq(Synced(l, n), 1, Len(Synced(l, n)) - 1) = Synced(l, 0)
<1> DEFINE p == Only(l, V!Answer)
           q == V!Settle(p)
           x == V!Shown(V!Msg(n, "assistant"), TRUE)
           y == V!Shown(m, FALSE)
<1>1. p \in Seq(LogMsg) /\ q \in Seq(ViewMsg)
  BY OnlySettle, SettleIs
<1>2. x \in ViewMsg /\ y \in ViewMsg
  BY ShownIs DEF V!Shown, V!Msg, ViewMsg
<1>3. Only(Append(l, m), V!Answer) = IF m \in V!Answer THEN Append(p, m) ELSE p
  BY OnlyAppend
<1>4. m \in V!Answer <=> m.role # "user"
  BY ShownIs
<1>5. V!Settle(Append(p, m)) = Append(q, y)
  BY <1>1, SettleAppend
<1>6. Synced(l, n) = IF n = 0 THEN q ELSE Append(q, x)
  <2>1. q \o <<>> = q /\ q \o <<x>> = Append(q, x)
    <3> HIDE DEF q, x
    <3>1. QED
      BY <1>1, <1>2, ConcatEmptySeq
  <2>2. QED
    BY <2>1 DEF Synced, InFlight
<1>7. Synced(l, 0) = q
  <2>1. q \o <<>> = q
    <3> HIDE DEF q
    <3>1. QED
      BY <1>1, ConcatEmptySeq
  <2>2. QED
    BY <2>1 DEF Synced, InFlight
<1>8. ASSUME m.role = "user" PROVE Synced(Append(l, m), n) = Synced(l, n)
  BY <1>3, <1>4, <1>8 DEF Synced
<1>9. ASSUME m.role # "user" PROVE Synced(Append(l, m), 0) = Append(q, y)
  <2>1. V!Settle(Only(Append(l, m), V!Answer)) = Append(q, y)
    BY <1>3, <1>4, <1>5, <1>9
  <2>2. Append(q, y) \o <<>> = Append(q, y)
    <3> HIDE DEF q, y
    <3>1. QED
      BY <1>1, <1>2, ConcatEmptySeq
  <2>3. QED
    BY <2>1, <2>2 DEF Synced, InFlight
<1>10. SubSeq(Append(q, x), 1, Len(Append(q, x)) - 1) = q
  <2> HIDE DEF q, x
  <2>1. QED
    BY <1>1, <1>2
<1> HIDE DEF q, x, y
<1>11. QED
  BY <1>6, <1>7, <1>8, <1>9, <1>10 DEF x, y

OneStreams(v) == \A i \in 1 .. Len(v) : v[i].live = TRUE => i = Len(v) /\ v[i].role = "assistant"

\* The streaming message of a view is the last of its answers.
LEMMA EndingSame ==
  ASSUME NEW v \in Seq(ViewMsg), OneStreams(v)
  PROVE  /\ Only(v, V!ShownAnswer) \in Seq(V!ShownAnswer)
         /\ Ending(Only(v, V!ShownAnswer)) <=> Ending(v)
         /\ Ending(v) => Only(SubSeq(v, 1, Len(v) - 1), V!ShownAnswer)
                           = SubSeq(Only(v, V!ShownAnswer), 1, Len(Only(v, V!ShownAnswer)) - 1)
<1> DEFINE o == Only(v, V!ShownAnswer)
           f == SubSeq(v, 1, Len(v) - 1)
           g == Only(f, V!ShownAnswer)
           x == v[Len(v)]
<1>1. /\ o \in Seq(V!ShownAnswer)
      /\ \A i \in 1 .. Len(o) : \E j \in 1 .. Len(v) : v[j] = o[i]
  <2>1. DOMAIN v = 1 .. Len(v)
    OBVIOUS
  <2>2. /\ o \in Seq(V!ShownAnswer)
        /\ \A i \in DOMAIN o : \E j \in DOMAIN v : v[j] = o[i]
    BY OnlyType
  <2> HIDE DEF o
  <2>3. DOMAIN o = 1 .. Len(o)
    BY <2>2
  <2>4. QED
    BY <2>1, <2>2, <2>3
<1>2. ASSUME Ending(v)
      PROVE  g \in Seq(V!ShownAnswer) /\ x \in V!ShownAnswer /\ x.live = TRUE /\ o = Append(g, x)
  <2>1. v # <<>> /\ Len(v) \in Nat \ {0} /\ x \in ViewMsg /\ x.live = TRUE /\ x.role = "assistant"
    BY <1>2 DEF Ending, OneStreams
  <2>2. x \in V!ShownAnswer
    BY <2>1 DEF ViewMsg, V!ShownAnswer
  <2>3. f \in Seq(ViewMsg) /\ v = Append(f, x)
    BY <2>1
  <2>4. g \in Seq(V!ShownAnswer)
    BY <2>3, OnlyType
  <2>5. Only(Append(f, x), V!ShownAnswer) = Append(g, x)
    <3> HIDE DEF f, x
    <3>1. QED
      BY <2>1, <2>2, <2>3, OnlyAppend
  <2>6. QED
    BY <2>1, <2>2, <2>3, <2>4, <2>5
<1>3. ASSUME Ending(o) PROVE Ending(v)
  <2> HIDE DEF o
  <2>1. Len(o) \in 1 .. Len(o) /\ o[Len(o)].live = TRUE
    BY <1>1, <1>3 DEF Ending
  <2>2. PICK j \in 1 .. Len(v) : v[j] = o[Len(o)]
    BY <1>1, <2>1
  <2>3. j = Len(v) /\ v[j].live = TRUE
    BY <2>1, <2>2 DEF OneStreams
  <2>4. QED
    BY <2>2, <2>3 DEF Ending
<1>4. ASSUME Ending(v) PROVE Ending(o) /\ g = SubSeq(o, 1, Len(o) - 1)
  <2>1. g \in Seq(V!ShownAnswer) /\ x \in V!ShownAnswer /\ x.live = TRUE /\ o = Append(g, x)
    BY <1>2, <1>4
  <2> HIDE DEF g, x, o
  <2>2. QED
    BY <2>1 DEF Ending
<1>5. QED
  BY <1>1, <1>3, <1>4

\* Tracks: the browser comes to show now, if it comes to show its session.
Tracks(r, c, d, now) ==
  /\ r \in Seq(Shows) /\ d \in Seq(DownMsg) /\ Leads(r, c, d)
  /\ r[Len(r)].sess = now.sess => r[Len(r)] = now

LEMMA TracksEnd ==
  ASSUME NEW r, NEW c, NEW d, NEW now, Tracks(r, c, d, now)
  PROVE  r[Len(r)] \in Shows
BY DEF Tracks, Leads

LEMMA EventSent ==
  ASSUME NEW r, NEW c, NEW d, NEW now \in Shows, Tracks(r, c, d, now),
         NEW msg \in EventMsg, msg.s = now.sess,
         NEW new \in Shows, new.sess = now.sess, Takes(now, msg, new)
  PROVE  \E p : /\ Tracks(p, c, Append(d, msg), new) /\ p[Len(p)].sess = r[Len(r)].sess
                /\ msg.t = "agent_end" /\ p[Len(p)].sess = now.sess => Calmed(p, Append(d, msg))
<1>1. /\ r \in Seq(Shows) /\ d \in Seq(DownMsg) /\ Leads(r, c, d) /\ r[Len(r)] \in Shows
      /\ r[Len(r)].sess = now.sess => r[Len(r)] = now
  BY TracksEnd DEF Tracks
<1>2. msg \in DownMsg /\ msg.t \notin {"session_sync", "capability_state"}
  BY DEF DownMsg, EventMsg
<1>3. CASE r[Len(r)].sess = now.sess
  <2>1. Takes(r[Len(r)], msg, new)
    BY <1>1, <1>3
  <2>2. /\ Append(r, new) \in Seq(Shows) /\ Append(d, msg) \in Seq(DownMsg)
        /\ Leads(Append(r, new), c, Append(d, msg))
        /\ Append(r, new)[Len(Append(r, new))] = new
        /\ Calming(r[Len(r)], msg) => Calmed(Append(r, new), Append(d, msg))
    BY <1>1, <1>2, <2>1, LeadsOn
  <2>3. msg.t = "agent_end" => Calming(r[Len(r)], msg)
    BY <1>3 DEF Calming
  <2>4. QED
    BY <1>3, <2>2, <2>3 DEF Tracks
<1>4. CASE r[Len(r)].sess # now.sess
  <2> DEFINE b == r[Len(r)]
  <2>1. Takes(r[Len(r)], msg, b)
    BY <1>2, <1>4 DEF Takes
  <2>2. /\ Append(r, b) \in Seq(Shows) /\ Append(d, msg) \in Seq(DownMsg)
        /\ Leads(Append(r, b), c, Append(d, msg))
        /\ Append(r, b)[Len(Append(r, b))] = b
    BY <1>1, <1>2, <2>1, LeadsOn
  <2>3. QED
    BY <1>4, <2>2 DEF Tracks
<1>5. QED
  BY <1>3, <1>4

LEMMA SyncSent ==
  ASSUME Chats \subseteq Nat, NEW r, NEW c, NEW d, NEW old, Tracks(r, c, d, old),
         NEW msg \in SyncMsg, NEW new \in Shows,
         msg.s = new.sess => new.ans = Synced(msg.msgs, msg.stream)
  PROVE  \E p : /\ Tracks(p, c, Append(d, msg), new) /\ p[Len(p)].sess = msg.s
                /\ msg.stream = 0 => Calmed(p, Append(d, msg))
<1> DEFINE b == [sess |-> msg.s, ans |-> Synced(msg.msgs, msg.stream)]
<1>1. /\ r \in Seq(Shows) /\ d \in Seq(DownMsg) /\ Leads(r, c, d)
  BY DEF Tracks
<1>2. msg \in DownMsg /\ msg.t = "session_sync" /\ msg.s \in Nat
      /\ msg.msgs \in Seq(LogMsg) /\ msg.stream \in Nat
  BY DEF DownMsg, SyncMsg
<1>3. b \in Shows /\ b.sess = msg.s /\ b.ans = Synced(msg.msgs, msg.stream)
  BY <1>2, SyncedIs DEF Shows
<1> HIDE DEF b
<1>4. Takes(r[Len(r)], msg, b)
  BY <1>2, <1>3 DEF Takes
<1>5. /\ Append(r, b) \in Seq(Shows) /\ Append(d, msg) \in Seq(DownMsg)
      /\ Leads(Append(r, b), c, Append(d, msg))
      /\ Append(r, b)[Len(Append(r, b))] = b
      /\ Calming(r[Len(r)], msg) => Calmed(Append(r, b), Append(d, msg))
  BY <1>1, <1>2, <1>3, <1>4, LeadsOn
<1>6. msg.stream = 0 => Calming(r[Len(r)], msg)
  BY <1>2 DEF Calming
<1>7. b.sess = new.sess => b = new
  BY <1>3 DEF Shows
<1>8. QED
  BY <1>3, <1>5, <1>6, <1>7 DEF Tracks

LEMMA KeysSent ==
  ASSUME NEW r, NEW c, NEW d, NEW now, Tracks(r, c, d, now), NEW msg \in KeysMsg
  PROVE  \E p : /\ Tracks(p, c, Append(d, msg), now)
                /\ Calmed(r, d) => Calmed(p, Append(d, msg))
<1> DEFINE b == r[Len(r)]
<1>1. /\ r \in Seq(Shows) /\ d \in Seq(DownMsg) /\ Leads(r, c, d) /\ b \in Shows
      /\ b.sess = now.sess => b = now
  BY TracksEnd DEF Tracks
<1>2. msg \in DownMsg /\ msg.t = "capability_state"
  BY DEF DownMsg, KeysMsg
<1>3. Takes(r[Len(r)], msg, b) /\ ~ Busying(msg)
  BY <1>2 DEF Takes, Busying
<1>4. /\ Append(r, b) \in Seq(Shows) /\ Append(d, msg) \in Seq(DownMsg)
      /\ Leads(Append(r, b), c, Append(d, msg))
      /\ Append(r, b)[Len(Append(r, b))] = b
      /\ Calmed(r, d) /\ ~ Busying(msg) => Calmed(Append(r, b), Append(d, msg))
  BY <1>1, <1>2, <1>3, LeadsOn
<1>5. QED
  BY <1>1, <1>3, <1>4 DEF Tracks

UpMsg == [t : {"prompt", "queue_message"}, s : Chats, m : UserMsg]
           \cup [t : {"switch_session"}, s : Chats]
           \cup [t : {"request_sync"}, s : Chats, after : Nat]

Displayed == [sess |-> current, ans |-> Only(view, V!ShownAnswer)]
Promised == [sess |-> conn, ans |-> Synced(chatLog[conn], streaming[conn])]

\* The agent has something to do yet, or the browser takes it for idle.
Waits == \/ status = "idle" \/ queued[conn] # <<>>
         \/ \E i \in 1 .. Len(toServer) : toServer[i].t = "prompt" /\ toServer[i].s = conn

Follows(r) ==
  /\ Tracks(r, Displayed, toClient, Promised)
  /\ r[Len(r)].sess = conn /\ agentPhase[conn] = "idle" =>
       Calmed(r, toClient) \/ (NoneBusy(toClient) /\ Waits)

ServerTypes ==
  /\ chatLog \in [Chats -> Seq(LogMsg)] /\ queued \in [Chats -> Seq(UserMsg)]
  /\ agentPhase \in [Chats -> {"idle", "thinking", "streaming", "tools", "executing"}]
  /\ streaming \in [Chats -> Nat] /\ messages \in Nat
  /\ \A s \in Chats : streaming[s] # 0 <=> agentPhase[s] = "streaming"

WireTypes ==
  /\ toServer \in Seq(UpMsg) /\ toClient \in Seq(DownMsg)
  /\ isOpen => conn \in Chats
  /\ ~ isOpen => conn = 0 /\ toServer = <<>> /\ toClient = <<>>

ReducerTypes ==
  /\ view \in Seq(ViewMsg) /\ current \in Chats \cup {0}
  /\ OneStreams(view) /\ (status = "idle" => ~ Ending(view))

ViewInv ==
  /\ ServerTypes /\ WireTypes /\ ReducerTypes
  /\ isOpen => \E r : Follows(r)

LEMMA ShowsIs ==
  ASSUME NEW s \in Nat, NEW l \in Seq(LogMsg), NEW n \in Nat
  PROVE  [sess |-> s, ans |-> Synced(l, n)] \in Shows
BY SyncedIs DEF Shows

LEMMA PromisedIs ==
  ASSUME V!ViewConstants, ServerTypes, conn \in Chats
  PROVE  /\ Promised \in Shows /\ Promised.sess = conn
         /\ Promised.ans = Synced(chatLog[conn], streaming[conn])
         /\ Ending(Promised.ans) <=> agentPhase[conn] = "streaming"
<1>1. chatLog[conn] \in Seq(LogMsg) /\ streaming[conn] \in Nat /\ conn \in Nat
  BY DEF ServerTypes, V!ViewConstants
<1>2. Ending(Synced(chatLog[conn], streaming[conn])) <=> streaming[conn] # 0
  BY <1>1, SyncedIs
<1>3. QED
  BY <1>1, <1>2, ShowsIs DEF Promised, ServerTypes

LEMMA NextPromisedIs ==
  ASSUME V!ViewConstants, ServerTypes', conn' \in Chats
  PROVE  /\ Promised' \in Shows /\ Promised'.sess = conn'
         /\ Promised'.ans = Synced(chatLog'[conn'], streaming'[conn'])
<1>1. chatLog'[conn'] \in Seq(LogMsg) /\ streaming'[conn'] \in Nat /\ conn' \in Nat
  BY DEF ServerTypes, V!ViewConstants
<1>2. QED
  BY <1>1, ShowsIs DEF Promised

LEMMA DisplayedIs ==
  ASSUME V!ViewConstants, ReducerTypes
  PROVE  /\ Displayed \in Shows /\ Displayed.sess = current
         /\ Displayed.ans = Only(view, V!ShownAnswer)
<1>1. Only(view, V!ShownAnswer) \in Seq(V!ShownAnswer) /\ current \in Nat
  BY EndingSame DEF ReducerTypes, V!ViewConstants
<1>2. QED
  BY <1>1 DEF Displayed, Shows

\* The messages that the server sends are such.
LEMMA SyncIs ==
  ASSUME V!ViewConstants, ServerTypes, NEW s \in Chats, NEW n \in Nat
  PROVE  /\ V!Sync(s, n) \in SyncMsg /\ V!Sync(s, n).s = s
         /\ V!Sync(s, n).msgs = chatLog[s] /\ V!Sync(s, n).stream = streaming[s]
<1>1. chatLog[s] \in Seq(LogMsg) /\ streaming[s] \in Nat /\ n + PageLimit \in Nat
  BY DEF ServerTypes, V!ViewConstants
<1>2. (Len(chatLog[s]) > n + PageLimit) \in BOOLEAN
  OBVIOUS
<1>3. QED
  BY <1>1, <1>2 DEF V!Sync, SyncMsg

LEMMA KeysAre == V!CommandList \in KeysMsg /\ V!Schedules \in KeysMsg
BY DEF V!CommandList, V!Schedules, KeysMsg

LEMMA EventIs ==
  ASSUME NEW s \in Chats
  PROVE  /\ \A t \in {"agent_start", "tool_execution_start", "agent_end"} :
              V!Event(s, t, 0) \in EventMsg /\ V!Event(s, t, 0).t = t /\ V!Event(s, t, 0).s = s
         /\ \A t \in {"message_start", "message_end"}, m \in AssistantMsg :
              /\ V!Event(s, t, m) \in EventMsg /\ V!Event(s, t, m).t = t
              /\ V!Event(s, t, m).s = s /\ V!Event(s, t, m).m = m
         /\ \A m \in ResultMsg :
              /\ V!Event(s, "tool_execution_end", m) \in EventMsg
              /\ V!Event(s, "tool_execution_end", m).t = "tool_execution_end"
              /\ V!Event(s, "tool_execution_end", m).s = s
              /\ V!Event(s, "tool_execution_end", m).m = m
         /\ \A m \in UserMsg :
              /\ V!Event(s, "inject_message", m) \in EventMsg
              /\ V!Event(s, "inject_message", m).t = "inject_message"
              /\ V!Event(s, "inject_message", m).s = s
BY DEF V!Event, EventMsg

LEMMA MsgIs ==
  \A n \in Nat : /\ V!Msg(n, "user") \in UserMsg /\ V!Msg(n, "assistant") \in AssistantMsg
                 /\ V!Msg(n, "toolResult") \in ResultMsg
                 /\ V!Msg(n, "user").role = "user"
                 /\ V!Msg(n, "assistant").role = "assistant"
                 /\ V!Msg(n, "toolResult").role = "toolResult"
BY DEF V!Msg, UserMsg, AssistantMsg, ResultMsg

LEMMA MsgLogged == UserMsg \subseteq LogMsg /\ AssistantMsg \subseteq LogMsg /\ ResultMsg \subseteq LogMsg
BY DEF UserMsg, AssistantMsg, ResultMsg, LogMsg

\* A step that the browser does not learn of.
LEMMA Unmoved ==
  ASSUME NEW r, Follows(r), UNCHANGED <<view, current, conn, toClient>>, Promised' = Promised,
         agentPhase'[conn] = "idle" => agentPhase[conn] = "idle" /\ (Waits => Waits')
  PROVE  Follows(r)'
<1>1. Displayed' = Displayed
  BY DEF Displayed
<1>2. Tracks(r, Displayed, toClient, Promised)'
  BY <1>1 DEF Follows, Tracks, Leads
<1>3. Calmed(r, toClient)' = Calmed(r, toClient) /\ NoneBusy(toClient)' = NoneBusy(toClient)
  BY DEF Calmed, NoneBusy
<1>4. QED
  BY <1>1, <1>2, <1>3 DEF Follows

\* An event of the session that the browser is connected to.
LEMMA Broadcasted ==
  ASSUME V!ViewConstants, ServerTypes, ServerTypes', conn \in Chats, NEW r, Follows(r),
         UNCHANGED <<view, current, conn>>,
         NEW msg \in EventMsg, msg.s = conn, toClient' = Append(toClient, msg),
         Takes(Promised, msg, Promised'),
         agentPhase'[conn] # "idle" \/ msg.t = "agent_end"
  PROVE  \E p : Follows(p)'
<1>1. Displayed' = Displayed
  BY DEF Displayed
<1>2. /\ Promised \in Shows /\ Promised.sess = conn
      /\ Promised' \in Shows /\ Promised'.sess = conn
  BY PromisedIs, NextPromisedIs
<1>3. PICK p : /\ Tracks(p, Displayed, Append(toClient, msg), Promised')
               /\ msg.t = "agent_end" /\ p[Len(p)].sess = conn => Calmed(p, Append(toClient, msg))
  <2> HIDE DEF Promised, Displayed
  <2>1. Tracks(r, Displayed, toClient, Promised)
    BY DEF Follows
  <2>2. QED
    BY <1>2, <2>1, EventSent
<1>4. Tracks(p, Displayed, toClient, Promised)'
  BY <1>1, <1>3 DEF Tracks, Leads
<1>5. Calmed(p, Append(toClient, msg)) => Calmed(p, toClient)'
  BY DEF Calmed
<1>6. Follows(p)'
  BY <1>3, <1>4, <1>5 DEF Follows
<1>7. QED
  BY <1>6

\* What is on the way after a message of the browser was taken.
LEMMA UpTail ==
  ASSUME toServer \in Seq(UpMsg), toServer # <<>>
  PROVE  /\ Head(toServer) \in UpMsg /\ Tail(toServer) \in Seq(UpMsg)
         /\ Head(toServer) = toServer[1] /\ Len(Tail(toServer)) = Len(toServer) - 1
         /\ \A i \in 1 .. Len(toServer) - 1 : Tail(toServer)[i] = toServer[i + 1]
OBVIOUS

LEMMA WaitsOn ==
  ASSUME WireTypes, toServer # <<>>, toServer' = Tail(toServer), UNCHANGED <<conn, status>>,
         queued'[conn] = queued[conn],
         Head(toServer).t # "prompt" \/ Head(toServer).s # conn, Waits
  PROVE  Waits'
<1>1. /\ Head(toServer) = toServer[1] /\ Len(Tail(toServer)) = Len(toServer) - 1
      /\ \A i \in 1 .. Len(toServer) - 1 : Tail(toServer)[i] = toServer[i + 1]
      /\ Len(toServer) \in Nat
  BY UpTail DEF WireTypes
<1>2. ASSUME NEW i \in 1 .. Len(toServer), toServer[i].t = "prompt" /\ toServer[i].s = conn
      PROVE  Waits'
  <2>1. i # 1
    BY <1>1, <1>2
  <2>2. i - 1 \in 1 .. Len(toServer) - 1 /\ i - 1 + 1 = i
    BY <1>1, <2>1
  <2>3. toServer'[i - 1] = toServer[i] /\ i - 1 \in 1 .. Len(toServer')
    BY <1>1, <2>2
  <2>4. QED
    BY <1>2, <2>3 DEF Waits
<1>3. QED
  BY <1>2 DEF Waits

\* A user message on the log is not to be shown by the server.
LEMMA UserLogged ==
  ASSUME V!ViewConstants, ServerTypes, NEW s \in Chats, NEW m \in UserMsg, V!AppendEntry(s, m)
  PROVE  /\ chatLog' \in [Chats -> Seq(LogMsg)]
         /\ \A c \in Chats, n \in Nat : Synced(chatLog'[c], n) = Synced(chatLog[c], n)
<1>1. m \in LogMsg /\ m.role = "user"
  BY DEF UserMsg, LogMsg
<1>2. /\ chatLog[s] \in Seq(LogMsg) /\ chatLog' = [chatLog EXCEPT ![s] = Append(chatLog[s], m)]
      /\ Append(chatLog[s], m) \in Seq(LogMsg)
  BY <1>1 DEF ServerTypes, V!AppendEntry
<1>3. \A n \in Nat : Synced(Append(chatLog[s], m), n) = Synced(chatLog[s], n)
  BY <1>1, <1>2, SyncedMoves
<1>4. \A c \in Chats : chatLog'[c] = IF c = s THEN Append(chatLog[s], m) ELSE chatLog[c]
  BY <1>2 DEF ServerTypes
<1>5. chatLog' \in [Chats -> Seq(LogMsg)]
  BY <1>2 DEF ServerTypes
<1>6. QED
  BY <1>3, <1>4, <1>5

LEMMA PromptStep ==
  ASSUME V!ViewConstants, ViewInv, NEW s \in Chats, NEW m \in UserMsg,
         V!handlePrompt(s, m, <<>>), toServer # <<>>, toServer' = Tail(toServer),
         Head(toServer).s = s, UNCHANGED <<streaming, conn, V!client, isOpen, messages, moves>>
  PROVE  ViewInv'
<1> USE DEF V!client
<1>1. /\ chatLog' \in [Chats -> Seq(LogMsg)]
      /\ \A c \in Chats, n \in Nat : Synced(chatLog'[c], n) = Synced(chatLog[c], n)
  BY UserLogged DEF ViewInv, V!handlePrompt
<1>2. isOpen /\ conn \in Chats
  BY DEF ViewInv, WireTypes
<1>3. PICK r : Follows(r)
  BY <1>2 DEF ViewInv
<1>4. Promised' = Promised
  BY <1>1, <1>2 DEF Promised, ViewInv, ServerTypes
<1>5. toServer' \in Seq(UpMsg) /\ ReducerTypes'
  BY UpTail DEF ViewInv, WireTypes, ReducerTypes, OneStreams
<1>6. Displayed' = Displayed
  BY DEF Displayed
<1>7. CASE agentPhase[s] # "idle"
  <2>1. /\ queued' = [queued EXCEPT ![s] = Append(queued[s], m)] /\ UNCHANGED agentPhase
        /\ toClient' = IF conn = s THEN toClient \o <<>> ELSE toClient
    BY <1>7 DEF V!handlePrompt, V!Broadcast
  <2>2. toClient' = toClient
    BY <2>1, ConcatEmptySeq DEF ViewInv, WireTypes
  <2>3. queued[s] \in Seq(UserMsg) /\ Append(queued[s], m) \in Seq(UserMsg)
    BY DEF ViewInv, ServerTypes
  <2>4. ServerTypes' /\ WireTypes'
    BY <1>1, <1>5, <2>1, <2>2, <2>3, <1>2 DEF ViewInv, ServerTypes, WireTypes
  <2>5. ASSUME agentPhase'[conn] = "idle", Waits PROVE Waits'
    <3>1. conn # s
      BY <1>7, <2>1, <2>5
    <3>2. queued'[conn] = queued[conn]
      BY <1>2, <2>1, <3>1 DEF ViewInv, ServerTypes
    <3>3. QED
      BY <2>5, <3>1, <3>2, WaitsOn DEF ViewInv
  <2>6. Follows(r)'
    BY <1>3, <1>4, <2>1, <2>2, <2>5, Unmoved
  <2>7. QED
    BY <1>5, <2>4, <2>6 DEF ViewInv
<1>8. CASE agentPhase[s] = "idle"
  <2> DEFINE e == V!Event(s, "agent_start", 0)
  <2>1. /\ agentPhase' = [agentPhase EXCEPT ![s] = "thinking"] /\ UNCHANGED queued
        /\ toClient' = IF conn = s THEN toClient \o (<<>> \o <<e>>) ELSE toClient
    BY <1>8 DEF V!handlePrompt, V!Broadcast
  <2>2. e \in EventMsg /\ e.t = "agent_start" /\ e.s = s
    BY EventIs
  <2> HIDE DEF e
  <2>3. e \in DownMsg
    BY <2>2 DEF DownMsg
  <2>4. toClient' = IF conn = s THEN Append(toClient, e) ELSE toClient
    <3>1. toClient \in Seq(DownMsg)
      BY DEF ViewInv, WireTypes
    <3>2. <<>> \o <<e>> = <<e>> /\ toClient \o <<e>> = Append(toClient, e)
      BY <2>3, <3>1, ConcatEmptySeq
    <3>3. QED
      BY <2>1, <3>2
  <2>5. toClient' \in Seq(DownMsg)
    BY <2>3, <2>4 DEF ViewInv, WireTypes
  <2>6. ServerTypes' /\ WireTypes'
    BY <1>1, <1>2, <1>5, <1>8, <2>1, <2>5 DEF ViewInv, ServerTypes, WireTypes
  <2>7. CASE conn = s
    <3>1. Takes(Promised, e, Promised')
      BY <1>4, <2>2, <2>7 DEF Takes, Promised
    <3>2. \E p : Follows(p)'
      BY <1>2, <1>3, <2>1, <2>2, <2>4, <2>6, <2>7, <3>1, Broadcasted DEF ViewInv, ServerTypes
    <3>3. QED
      BY <1>5, <2>6, <3>2 DEF ViewInv
  <2>8. CASE conn # s
    <3>1. agentPhase'[conn] = agentPhase[conn] /\ queued'[conn] = queued[conn]
      BY <1>2, <2>1, <2>8 DEF ViewInv, ServerTypes
    <3>2. Waits => Waits'
      BY <2>8, <3>1, WaitsOn DEF ViewInv
    <3>3. Follows(r)'
      BY <1>3, <1>4, <2>4, <2>8, <3>1, <3>2, Unmoved
    <3>4. QED
      BY <1>5, <2>6, <3>3 DEF ViewInv
  <2>9. QED
    BY <2>7, <2>8
<1>9. QED
  BY <1>7, <1>8

LEMMA QueuedStep ==
  ASSUME V!ViewConstants, ViewInv, NEW s \in Chats, NEW m \in UserMsg, agentPhase[s] # "idle",
         queued' = [queued EXCEPT ![s] = Append(@, m)], toServer # <<>>,
         toServer' = Tail(toServer), Head(toServer).t = "queue_message",
         UNCHANGED <<chatLog, agentPhase, streaming, conn, toClient, V!client, isOpen, messages,
                     moves>>
  PROVE  ViewInv'
<1> USE DEF V!client
<1>1. conn \in Chats /\ isOpen
  BY DEF ViewInv, WireTypes
<1>2. PICK r : Follows(r)
  BY <1>1 DEF ViewInv
<1>3. queued[s] \in Seq(UserMsg) /\ Append(queued[s], m) \in Seq(UserMsg)
  BY DEF ViewInv, ServerTypes
<1>4. ServerTypes' /\ ReducerTypes' /\ WireTypes'
  BY <1>3, UpTail DEF ViewInv, ServerTypes, ReducerTypes, WireTypes, OneStreams
<1>5. ASSUME agentPhase'[conn] = "idle", Waits PROVE Waits'
  <2>1. queued'[conn] = queued[conn]
    BY <1>1, <1>5 DEF ViewInv, ServerTypes
  <2>2. QED
    BY <1>5, <2>1, WaitsOn DEF ViewInv
<1>6. Promised' = Promised
  BY DEF Promised
<1>7. Follows(r)'
  BY <1>2, <1>5, <1>6, Unmoved
<1>8. QED
  BY <1>4, <1>7 DEF ViewInv

LEMMA SwitchStep ==
  ASSUME V!ViewConstants, ViewInv, NEW s \in Chats, toServer # <<>>, toServer' = Tail(toServer),
         conn' = s, toClient' = toClient \o <<V!Sync(s, 0), V!CommandList>>,
         UNCHANGED <<V!server, V!client, isOpen, messages, moves>>
  PROVE  ViewInv'
<1> USE DEF V!client, V!server
<1> DEFINE a == V!Sync(s, 0)
           b == V!CommandList
<1>1. conn \in Chats /\ isOpen /\ toClient \in Seq(DownMsg)
  BY DEF ViewInv, WireTypes
<1>2. PICK r : Follows(r)
  BY <1>1 DEF ViewInv
<1>3. /\ a \in SyncMsg /\ a.s = s /\ a.msgs = chatLog[s] /\ a.stream = streaming[s]
      /\ b \in KeysMsg
  BY SyncIs, KeysAre DEF ViewInv
<1> HIDE DEF a, b
<1>4. a \in DownMsg /\ b \in DownMsg
  BY <1>3 DEF DownMsg
<1>5. toClient' = Append(Append(toClient, a), b)
  BY <1>1, <1>4 DEF a, b
<1>6. ServerTypes' /\ ReducerTypes'
  BY DEF ViewInv, ServerTypes, ReducerTypes, OneStreams
<1>7. WireTypes'
  <2>1. toClient' \in Seq(DownMsg)
    <3>1. Append(toClient, a) \in Seq(DownMsg)
      BY <1>1, <1>4
    <3>2. QED
      BY <1>4, <1>5, <3>1
  <2>2. toServer' \in Seq(UpMsg)
    BY UpTail DEF ViewInv, WireTypes
  <2>3. QED
    BY <1>1, <2>1, <2>2 DEF WireTypes
<1>8. Promised' \in Shows /\ Promised'.sess = s /\ Promised'.ans = Synced(a.msgs, a.stream)
  BY <1>3, <1>6, NextPromisedIs
<1>9. PICK p : /\ Tracks(p, Displayed, Append(toClient, a), Promised')
               /\ a.stream = 0 => Calmed(p, Append(toClient, a))
  <2> HIDE DEF Promised, Displayed
  <2>1. Tracks(r, Displayed, toClient, Promised) /\ Chats \subseteq Nat
    BY <1>2 DEF Follows, V!ViewConstants
  <2>2. QED
    BY <1>3, <1>8, <2>1, SyncSent
<1>10. PICK q : /\ Tracks(q, Displayed, Append(Append(toClient, a), b), Promised')
                /\ Calmed(p, Append(toClient, a)) => Calmed(q, Append(Append(toClient, a), b))
  BY <1>3, <1>9, KeysSent
<1>11. Displayed' = Displayed
  BY DEF Displayed
<1>12. Follows(q)'
  <2>1. Tracks(q, Displayed', toClient', Promised')
    BY <1>5, <1>10, <1>11
  <2>2. agentPhase[s] = "idle" => Calmed(q, toClient')
    BY <1>3, <1>5, <1>9, <1>10 DEF ViewInv, ServerTypes
  <2>3. QED
    BY <2>1, <2>2 DEF Follows, Tracks, Leads, Calmed
<1>13. QED
  BY <1>6, <1>7, <1>12 DEF ViewInv

LEMMA RequestStep ==
  ASSUME V!ViewConstants, ViewInv, NEW s \in Chats, NEW n \in Nat, toServer # <<>>,
         toServer' = Tail(toServer), toClient' = Append(toClient, V!Sync(s, n)),
         UNCHANGED <<V!server, V!client, conn, isOpen, messages, moves>>
  PROVE  ViewInv'
<1> USE DEF V!client, V!server
<1> DEFINE a == V!Sync(s, n)
<1>1. conn \in Chats /\ isOpen /\ toClient \in Seq(DownMsg)
  BY DEF ViewInv, WireTypes
<1>2. PICK r : Follows(r)
  BY <1>1 DEF ViewInv
<1>3. a \in SyncMsg /\ a.s = s /\ a.msgs = chatLog[s] /\ a.stream = streaming[s]
  BY SyncIs DEF ViewInv
<1>4. toClient' = Append(toClient, a)
  OBVIOUS
<1> HIDE DEF a
<1>5. a \in DownMsg
  BY <1>3 DEF DownMsg
<1>6. ServerTypes' /\ ReducerTypes'
  BY DEF ViewInv, ServerTypes, ReducerTypes, OneStreams
<1>7. WireTypes'
  <2>1. toClient' \in Seq(DownMsg) /\ toServer' \in Seq(UpMsg)
    BY <1>1, <1>4, <1>5, UpTail DEF ViewInv, WireTypes
  <2>2. QED
    BY <1>1, <2>1 DEF WireTypes
<1>8. /\ Promised \in Shows /\ Promised.sess = conn
      /\ Promised.ans = Synced(chatLog[conn], streaming[conn])
  BY <1>1, PromisedIs DEF ViewInv
<1>9. PICK p : /\ Tracks(p, Displayed, Append(toClient, a), Promised) /\ p[Len(p)].sess = a.s
               /\ a.stream = 0 => Calmed(p, Append(toClient, a))
  <2> HIDE DEF Promised, Displayed
  <2>1. Tracks(r, Displayed, toClient, Promised) /\ Chats \subseteq Nat
    BY <1>2 DEF Follows, V!ViewConstants
  <2>2. a.s = Promised.sess => Promised.ans = Synced(a.msgs, a.stream)
    BY <1>3, <1>8
  <2>3. QED
    BY <1>3, <1>8, <2>1, <2>2, SyncSent
<1>10. Displayed' = Displayed /\ Promised' = Promised
  BY DEF Displayed, Promised
<1>11. Follows(p)'
  <2>1. Tracks(p, Displayed', toClient', Promised')
    BY <1>4, <1>9, <1>10
  <2>2. p[Len(p)].sess = conn /\ agentPhase[conn] = "idle" => Calmed(p, toClient')
    BY <1>1, <1>3, <1>4, <1>9 DEF ViewInv, ServerTypes
  <2>3. QED
    BY <2>1, <2>2 DEF Follows, Tracks, Leads, Calmed
<1>12. QED
  BY <1>6, <1>7, <1>11 DEF ViewInv

\* The server takes a message of the browser.
LEMMA ClientMessageStep ==
  ASSUME V!ViewConstants, ViewInv, V!handleClientMessage
  PROVE  ViewInv'
<1> DEFINE msg == Head(toServer)
<1>1. /\ toServer # <<>> /\ toServer' = Tail(toServer) /\ msg \in UpMsg
      /\ UNCHANGED <<V!client, isOpen, messages, moves>>
  BY UpTail DEF V!handleClientMessage, ViewInv, WireTypes
<1>2. msg.s \in Chats
  BY <1>1 DEF UpMsg
<1>3. CASE msg.t \in {"prompt", "queue_message"}
  <2>1. msg.m \in UserMsg
    BY <1>1, <1>3 DEF UpMsg
  <2>2. CASE V!handlePrompt(msg.s, msg.m, <<>>) /\ UNCHANGED <<streaming, conn>>
    BY <1>1, <1>2, <2>1, <2>2, PromptStep
  <2>3. CASE /\ msg.t = "queue_message" /\ agentPhase[msg.s] # "idle"
             /\ queued' = [queued EXCEPT ![msg.s] = Append(@, msg.m)]
             /\ UNCHANGED <<chatLog, agentPhase, streaming, conn, toClient>>
    BY <1>1, <1>2, <2>1, <2>3, QueuedStep
  <2>4. QED
    BY <1>3, <2>2, <2>3 DEF V!handleClientMessage
<1>4. CASE msg.t = "switch_session"
  <2>1. /\ conn' = msg.s /\ toClient' = toClient \o <<V!Sync(msg.s, 0), V!CommandList>>
        /\ UNCHANGED V!server
    BY <1>4 DEF V!handleClientMessage
  <2>2. QED
    BY <1>1, <1>2, <2>1, SwitchStep
<1>5. CASE msg.t = "request_sync"
  <2>1. /\ toClient' = Append(toClient, V!Sync(msg.s, msg.after)) /\ msg.after \in Nat
        /\ UNCHANGED <<V!server, conn>>
    BY <1>1, <1>5 DEF V!handleClientMessage, UpMsg
  <2>2. QED
    BY <1>1, <1>2, <2>1, RequestStep
<1>6. QED
  BY <1>1, <1>3, <1>4, <1>5 DEF UpMsg

\* An event of a session's agent is sent to the browser connected to it.
LEMMA AgentMoved ==
  ASSUME V!ViewConstants, ViewInv, ServerTypes', NEW s \in Chats, NEW msg \in EventMsg, msg.s = s,
         \/ conn = s /\ toClient' = Append(toClient, msg)
         \/ conn # s /\ toClient' = toClient,
         UNCHANGED <<conn, toServer, V!client, isOpen, queued>>,
         \A c \in Chats \ {s} : agentPhase'[c] = agentPhase[c] /\ chatLog'[c] = chatLog[c]
                                  /\ streaming'[c] = streaming[c],
         conn = s => Takes(Promised, msg, Promised'),
         agentPhase'[s] # "idle" \/ msg.t = "agent_end"
  PROVE  ViewInv'
<1> USE DEF V!client
<1>1. ReducerTypes'
  BY DEF ViewInv, ReducerTypes, OneStreams
<1>2. CASE ~ isOpen
  <2>1. conn # s
    BY <1>2 DEF ViewInv, WireTypes, V!ViewConstants
  <2>2. WireTypes'
    BY <1>2, <2>1 DEF ViewInv, WireTypes
  <2>3. QED
    BY <1>1, <1>2, <2>2 DEF ViewInv
<1>3. CASE isOpen
  <2>1. conn \in Chats /\ toClient \in Seq(DownMsg)
    BY <1>3 DEF ViewInv, WireTypes
  <2>2. PICK r : Follows(r)
    BY <1>3 DEF ViewInv
  <2>3. msg \in DownMsg
    BY DEF DownMsg
  <2>4. WireTypes'
    BY <1>3, <2>1, <2>3 DEF ViewInv, WireTypes
  <2>5. CASE conn = s
    <3>1. /\ toClient' = Append(toClient, msg) /\ Takes(Promised, msg, Promised')
          /\ agentPhase'[conn] # "idle" \/ msg.t = "agent_end"
      BY <2>5
    <3>2. \E p : Follows(p)'
      BY <2>1, <2>2, <2>5, <3>1, Broadcasted DEF ViewInv
    <3>3. QED
      BY <1>1, <2>4, <3>2 DEF ViewInv
  <2>6. CASE conn # s
    <3>1. /\ agentPhase'[conn] = agentPhase[conn] /\ toClient' = toClient
          /\ chatLog'[conn] = chatLog[conn] /\ streaming'[conn] = streaming[conn]
      BY <2>1, <2>6
    <3>2. Promised' = Promised /\ (Waits => Waits')
      BY <3>1 DEF Promised, Waits
    <3>3. Follows(r)'
      BY <2>2, <3>1, <3>2, Unmoved
    <3>4. QED
      BY <1>1, <2>4, <3>3 DEF ViewInv
  <2>7. QED
    BY <2>5, <2>6
<1>4. QED
  BY <1>2, <1>3

\* What is broadcast of a session.
LEMMA BroadcastIs ==
  ASSUME ViewInv, NEW s \in Chats, NEW msg \in EventMsg, V!Broadcast(s, <<msg>>)
  PROVE  \/ conn = s /\ toClient' = Append(toClient, msg)
         \/ conn # s /\ toClient' = toClient
<1>1. msg \in DownMsg /\ toClient \in Seq(DownMsg)
  BY DEF DownMsg, ViewInv, WireTypes
<1>2. toClient \o <<msg>> = Append(toClient, msg)
  BY <1>1
<1>3. QED
  BY <1>2 DEF V!Broadcast

LEMMA AgentEventStep ==
  ASSUME V!ViewConstants, ViewInv, NEW s \in Chats, V!agentEvent(s),
         UNCHANGED <<conn, toServer, V!client, isOpen, moves>>
  PROVE  ViewInv'
<1> DEFINE u == messages + 1
           n == streaming[s]
<1>1. /\ chatLog[s] \in Seq(LogMsg) /\ n \in Nat /\ u \in Nat \ {0}
      /\ n # 0 <=> agentPhase[s] = "streaming"
  BY DEF ViewInv, ServerTypes
<1>2. conn = s => /\ Promised.sess = s /\ Promised.ans = Synced(chatLog[s], n)
                  /\ Ending(Promised.ans) <=> n # 0
  BY <1>1, PromisedIs DEF ViewInv
<1> HIDE DEF u, n
<1>3. CASE /\ agentPhase[s] = "thinking" /\ agentPhase' = [agentPhase EXCEPT ![s] = "streaming"]
           /\ messages' = u /\ streaming' = [streaming EXCEPT ![s] = messages']
           /\ V!Broadcast(s, <<V!Event(s, "message_start", V!Msg(messages', "assistant"))>>)
           /\ UNCHANGED <<chatLog, queued>>
  <2> DEFINE m == V!Msg(u, "assistant")
             e == V!Event(s, "message_start", m)
  <2>1. m \in AssistantMsg /\ m \in LogMsg /\ m.role = "assistant"
    BY <1>1, MsgIs, MsgLogged
  <2>2. e \in EventMsg /\ e.t = "message_start" /\ e.s = s /\ e.m = m
    BY <2>1, EventIs
  <2>3. V!Broadcast(s, <<e>>)
    BY <1>3
  <2>4. Synced(chatLog[s], u) = Append(Synced(chatLog[s], 0), V!Shown(m, TRUE))
    BY <1>1, <2>1, SyncedMoves
  <2> HIDE DEF m, e
  <2>5. ServerTypes'
    BY <1>1, <1>3 DEF ViewInv, ServerTypes
  <2>6. streaming'[s] = u
    BY <1>3 DEF ViewInv, ServerTypes
  <2>7. ASSUME conn = s PROVE Takes(Promised, e, Promised')
    <3>1. Promised'.sess = s /\ Promised'.ans = Synced(chatLog[s], u)
      BY <1>3, <2>6, <2>7 DEF Promised
    <3>2. n = 0 /\ ~ Ending(Promised.ans)
      BY <1>1, <1>2, <1>3, <2>7
    <3>3. Promised.ans = Synced(chatLog[s], 0)
      BY <1>2, <2>7, <3>2
    <3>4. QED
      BY <1>2, <2>2, <2>4, <2>7, <3>1, <3>2, <3>3 DEF Takes
  <2>8. agentPhase'[s] # "idle" /\
        \A c \in Chats \ {s} : agentPhase'[c] = agentPhase[c] /\ chatLog'[c] = chatLog[c]
                                 /\ streaming'[c] = streaming[c]
    BY <1>3 DEF ViewInv, ServerTypes
  <2>9. QED
    BY <1>3, <2>2, <2>3, <2>5, <2>7, <2>8, BroadcastIs, AgentMoved
<1>4. CASE /\ agentPhase[s] = "streaming"
           /\ V!AppendEntry(s, V!Msg(n, "assistant"))
           /\ V!Broadcast(s, <<V!Event(s, "message_end", V!Msg(n, "assistant"))>>)
           /\ streaming' = [streaming EXCEPT ![s] = 0]
           /\ agentPhase' = [agentPhase EXCEPT ![s] = "tools"]
           /\ UNCHANGED <<queued, messages>>
  <2> DEFINE m == V!Msg(n, "assistant")
             e == V!Event(s, "message_end", m)
             l == Append(chatLog[s], m)
  <2>1. m \in AssistantMsg /\ m \in LogMsg /\ m.role = "assistant"
    BY <1>1, MsgIs, MsgLogged
  <2>2. e \in EventMsg /\ e.t = "message_end" /\ e.s = s /\ e.m = m
    BY <2>1, EventIs
  <2>3. V!Broadcast(s, <<e>>)
    BY <1>4
  <2>4. n # 0
    BY <1>1, <1>4
  <2>5. /\ Synced(l, 0) = Append(Synced(chatLog[s], 0), V!Shown(m, FALSE))
        /\ SubSeq(Synced(chatLog[s], n), 1, Len(Synced(chatLog[s], n)) - 1) = Synced(chatLog[s], 0)
    BY <1>1, <2>1, <2>4, SyncedMoves
  <2>6. l \in Seq(LogMsg) /\ chatLog' = [chatLog EXCEPT ![s] = l]
    BY <1>1, <1>4, <2>1 DEF V!AppendEntry
  <2> HIDE DEF m, e, l
  <2>7. ServerTypes'
    BY <1>4, <2>6 DEF ViewInv, ServerTypes
  <2>8. streaming'[s] = 0 /\ chatLog'[s] = l
    BY <1>4, <2>6 DEF ViewInv, ServerTypes
  <2>9. ASSUME conn = s PROVE Takes(Promised, e, Promised')
    <3>1. Promised'.sess = s /\ Promised'.ans = Synced(l, 0)
      BY <2>8, <2>9 DEF Promised
    <3>2. QED
      BY <1>2, <2>2, <2>4, <2>5, <2>9, <3>1 DEF Takes
  <2>10. agentPhase'[s] # "idle" /\
        \A c \in Chats \ {s} : agentPhase'[c] = agentPhase[c] /\ chatLog'[c] = chatLog[c]
                                 /\ streaming'[c] = streaming[c]
    BY <1>4, <2>6 DEF ViewInv, ServerTypes
  <2>11. QED
    BY <1>4, <2>2, <2>3, <2>7, <2>9, <2>10, BroadcastIs, AgentMoved
<1>5. CASE /\ agentPhase[s] = "tools"
           /\ agentPhase' = [agentPhase EXCEPT ![s] = "executing"]
           /\ V!Broadcast(s, <<V!Event(s, "tool_execution_start", 0)>>)
           /\ UNCHANGED <<chatLog, streaming, queued, messages>>
  <2> DEFINE e == V!Event(s, "tool_execution_start", 0)
  <2>1. e \in EventMsg /\ e.t = "tool_execution_start" /\ e.s = s
    BY EventIs
  <2>2. V!Broadcast(s, <<e>>)
    BY <1>5
  <2> HIDE DEF e
  <2>3. ServerTypes'
    BY <1>5 DEF ViewInv, ServerTypes
  <2>4. ASSUME conn = s PROVE Takes(Promised, e, Promised')
    BY <1>2, <1>5, <2>1, <2>4 DEF Takes, Promised
  <2>5. agentPhase'[s] # "idle" /\
        \A c \in Chats \ {s} : agentPhase'[c] = agentPhase[c] /\ chatLog'[c] = chatLog[c]
                                 /\ streaming'[c] = streaming[c]
    BY <1>5 DEF ViewInv, ServerTypes
  <2>6. QED
    BY <1>5, <2>1, <2>2, <2>3, <2>4, <2>5, BroadcastIs, AgentMoved
<1>6. CASE /\ agentPhase[s] = "executing" /\ messages' = u
           /\ V!AppendEntry(s, V!Msg(messages', "toolResult"))
           /\ V!Broadcast(s, <<V!Event(s, "tool_execution_end", V!Msg(messages', "toolResult"))>>)
           /\ agentPhase' = [agentPhase EXCEPT ![s] = "thinking"]
           /\ UNCHANGED <<streaming, queued>>
  <2> DEFINE m == V!Msg(u, "toolResult")
             e == V!Event(s, "tool_execution_end", m)
             l == Append(chatLog[s], m)
  <2>1. m \in ResultMsg /\ m \in LogMsg /\ m.role # "user"
    BY <1>1, MsgIs, MsgLogged
  <2>2. e \in EventMsg /\ e.t = "tool_execution_end" /\ e.s = s /\ e.m = m
    BY <2>1, EventIs
  <2>3. V!Broadcast(s, <<e>>)
    BY <1>6
  <2>4. n = 0
    BY <1>1, <1>6
  <2>5. Synced(l, 0) = Append(Synced(chatLog[s], 0), V!Shown(m, FALSE))
    BY <1>1, <2>1, SyncedMoves
  <2>6. l \in Seq(LogMsg) /\ chatLog' = [chatLog EXCEPT ![s] = l]
    BY <1>1, <1>6, <2>1 DEF V!AppendEntry
  <2> HIDE DEF m, e, l
  <2>7. ServerTypes'
    BY <1>1, <1>6, <2>6 DEF ViewInv, ServerTypes
  <2>8. streaming'[s] = 0 /\ chatLog'[s] = l
    BY <1>6, <2>4, <2>6 DEF ViewInv, ServerTypes, n
  <2>9. ASSUME conn = s PROVE Takes(Promised, e, Promised')
    <3>1. Promised'.sess = s /\ Promised'.ans = Synced(l, 0)
      BY <2>8, <2>9 DEF Promised
    <3>2. QED
      BY <1>2, <2>2, <2>4, <2>5, <2>9, <3>1 DEF Takes
  <2>10. agentPhase'[s] # "idle" /\
        \A c \in Chats \ {s} : agentPhase'[c] = agentPhase[c] /\ chatLog'[c] = chatLog[c]
                                 /\ streaming'[c] = streaming[c]
    BY <1>6, <2>6 DEF ViewInv, ServerTypes
  <2>11. QED
    BY <1>6, <2>2, <2>3, <2>7, <2>9, <2>10, BroadcastIs, AgentMoved
<1>7. CASE /\ agentPhase[s] \in {"thinking", "tools"}
           /\ agentPhase' = [agentPhase EXCEPT ![s] = "idle"]
           /\ V!Broadcast(s, <<V!Event(s, "agent_end", 0)>>)
           /\ UNCHANGED <<chatLog, streaming, queued, messages>>
  <2> DEFINE e == V!Event(s, "agent_end", 0)
  <2>1. e \in EventMsg /\ e.t = "agent_end" /\ e.s = s
    BY EventIs
  <2>2. V!Broadcast(s, <<e>>)
    BY <1>7
  <2> HIDE DEF e
  <2>3. ServerTypes'
    BY <1>7 DEF ViewInv, ServerTypes
  <2>4. ASSUME conn = s PROVE Takes(Promised, e, Promised')
    BY <1>1, <1>2, <1>7, <2>1, <2>4 DEF Takes, Promised
  <2>5. \A c \in Chats \ {s} : agentPhase'[c] = agentPhase[c] /\ chatLog'[c] = chatLog[c]
                                 /\ streaming'[c] = streaming[c]
    BY <1>7 DEF ViewInv, ServerTypes
  <2>6. QED
    BY <1>7, <2>1, <2>2, <2>3, <2>4, <2>5, BroadcastIs, AgentMoved
<1>8. QED
  BY <1>3, <1>4, <1>5, <1>6, <1>7 DEF V!agentEvent, u, n

LEMMA QueueStep ==
  ASSUME V!ViewConstants, ViewInv, V!processQueue
  PROVE  ViewInv'
<1>1. PICK s \in Chats :
        /\ agentPhase[s] = "idle" /\ queued[s] # <<>>
        /\ queued' = [queued EXCEPT ![s] = Tail(queued[s])]
        /\ V!AppendEntry(s, Head(queued[s]))
        /\ agentPhase' = [agentPhase EXCEPT ![s] = "thinking"]
        /\ V!Broadcast(s, <<V!Event(s, "inject_message", Head(queued[s])),
                            V!Event(s, "agent_start", 0)>>)
        /\ UNCHANGED <<streaming, conn, toServer, V!client, isOpen, messages, moves>>
  BY DEF V!processQueue
<1> USE DEF V!client
<1> DEFINE m == Head(queued[s])
           d == V!Event(s, "inject_message", m)
           e == V!Event(s, "agent_start", 0)
<1>2. m \in UserMsg /\ Tail(queued[s]) \in Seq(UserMsg)
  BY <1>1 DEF ViewInv, ServerTypes
<1>3. /\ d \in EventMsg /\ d.t = "inject_message" /\ d.s = s
      /\ e \in EventMsg /\ e.t = "agent_start" /\ e.s = s
  BY <1>2, EventIs
<1>4. V!AppendEntry(s, m) /\ V!Broadcast(s, <<d, e>>)
  BY <1>1
<1> HIDE DEF m, d, e
<1>5. /\ chatLog' \in [Chats -> Seq(LogMsg)]
      /\ \A c \in Chats, n \in Nat : Synced(chatLog'[c], n) = Synced(chatLog[c], n)
  BY <1>2, <1>4, UserLogged DEF ViewInv
<1>6. ServerTypes' /\ ReducerTypes'
  BY <1>1, <1>2, <1>5 DEF ViewInv, ServerTypes, ReducerTypes, OneStreams
<1>7. d \in DownMsg /\ e \in DownMsg /\ toClient \in Seq(DownMsg)
  BY <1>3 DEF DownMsg, ViewInv, WireTypes
<1>8. toClient' = IF conn = s THEN Append(Append(toClient, d), e) ELSE toClient
  <2>1. toClient \o <<d, e>> = Append(Append(toClient, d), e)
    BY <1>7
  <2>2. QED
    BY <1>4, <2>1 DEF V!Broadcast
<1>9. WireTypes'
  <2>1. Append(toClient, d) \in Seq(DownMsg)
    BY <1>7
  <2>2. toClient' \in Seq(DownMsg)
    BY <1>7, <1>8, <2>1
  <2>3. ~ isOpen => conn # s
    BY DEF ViewInv, WireTypes, V!ViewConstants
  <2>4. QED
    BY <1>1, <1>8, <2>2, <2>3 DEF ViewInv, WireTypes
<1>10. CASE ~ isOpen
  BY <1>1, <1>6, <1>9, <1>10 DEF ViewInv
<1>11. CASE isOpen
  <2>1. PICK r : Follows(r)
    BY <1>11 DEF ViewInv
  <2>2. conn \in Chats
    BY <1>11 DEF ViewInv, WireTypes
  <2>3. Promised' = Promised /\ Displayed' = Displayed
    BY <1>1, <1>5, <2>2 DEF Promised, Displayed, ViewInv, ServerTypes
  <2>4. CASE conn = s
    <3>1. /\ Promised \in Shows /\ Promised.sess = s /\ ~ Ending(Promised.ans)
      BY <1>1, <2>2, <2>4, PromisedIs DEF ViewInv
    <3>2. Takes(Promised, d, Promised) /\ Takes(Promised, e, Promised)
      BY <1>3, <3>1 DEF Takes
    <3>3. Tracks(r, Displayed, toClient, Promised)
      BY <2>1 DEF Follows
    <3> HIDE DEF Promised, Displayed
    <3>4. PICK p : Tracks(p, Displayed, Append(toClient, d), Promised)
      BY <1>3, <3>1, <3>2, <3>3, EventSent
    <3>5. PICK q : Tracks(q, Displayed, Append(Append(toClient, d), e), Promised)
      BY <1>3, <3>1, <3>2, <3>4, EventSent
    <3>6. Tracks(q, Displayed', toClient', Promised')
      BY <1>8, <2>3, <2>4, <3>5
    <3>7. agentPhase'[conn] # "idle" /\ conn' = conn
      BY <1>1, <2>2, <2>4 DEF ViewInv, ServerTypes
    <3>8. Follows(q)'
      BY <3>6, <3>7 DEF Follows, Tracks, Leads
    <3>9. QED
      BY <1>6, <1>9, <3>8 DEF ViewInv
  <2>5. CASE conn # s
    <3>1. agentPhase'[conn] = agentPhase[conn] /\ queued'[conn] = queued[conn]
      BY <1>1, <2>2, <2>5 DEF ViewInv, ServerTypes
    <3>2. toClient' = toClient /\ (Waits => Waits')
      BY <1>1, <1>8, <2>5, <3>1 DEF Waits
    <3>3. Follows(r)'
      BY <1>1, <2>1, <2>3, <3>1, <3>2, Unmoved
    <3>4. QED
      BY <1>6, <1>9, <3>3 DEF ViewInv
  <2>6. QED
    BY <2>4, <2>5
<1>12. QED
  BY <1>10, <1>11

-----------------------------------------------------------------------------
(* The browser takes a message of the server.                              *)

LEMMA SyncTaken ==
  ASSUME V!ViewConstants, ReducerTypes, NEW msg \in SyncMsg, V!sessionSync(msg),
         NEW b \in Shows, Takes(Displayed, msg, b)
  PROVE  /\ ReducerTypes' /\ Displayed' = b
         /\ Calming(Displayed, msg) => status' = "idle"
         /\ ~ Busying(msg) /\ status = "idle" => status' = "idle"
<1> DEFINE l == msg.msgs
           n == msg.stream
           v == V!Settle(l) \o InFlight(n)
<1>1. msg.t = "session_sync" /\ msg.s \in Chats /\ l \in Seq(LogMsg) /\ n \in Nat
  BY DEF SyncMsg
<1>2. /\ view' = v /\ current' = msg.s /\ status' = IF n = 0 THEN "idle" ELSE "streaming"
  BY DEF V!sessionSync, V!SESSION_SYNC, V!Settled, V!Placeholder, InFlight
<1>3. b.sess = msg.s /\ b.ans = Synced(l, n)
  BY <1>1 DEF Takes
<1> HIDE DEF v
<1>4. /\ Only(v, V!ShownAnswer) = Synced(l, n) /\ v \in Seq(ViewMsg)
      /\ \A i \in 1 .. Len(v) : v[i].live = TRUE =>
           i = Len(v) /\ n # 0 /\ v[i].role = "assistant"
  <2> HIDE DEF l, n
  <2>1. QED
    BY <1>1, SyncedIs DEF v
<1>5. OneStreams(view')
  BY <1>2, <1>4 DEF OneStreams
<1>6. status' = "idle" => ~ Ending(view')
  <2>1. n = 0 => ~ Ending(v)
    BY <1>4 DEF Ending
  <2>2. QED
    BY <1>1, <1>2, <2>1
<1>7. ReducerTypes'
  BY <1>1, <1>2, <1>4, <1>5, <1>6 DEF ReducerTypes, OneStreams, Ending
<1>8. Displayed' = b
  BY <1>2, <1>3, <1>4 DEF Displayed, Shows
<1>9. QED
  BY <1>1, <1>2, <1>7, <1>8 DEF Calming, Busying

LEMMA ViewGrown ==
  ASSUME NEW v \in Seq(ViewMsg), OneStreams(v), ~ Ending(v), NEW x \in ViewMsg,
         x.live = TRUE => x.role = "assistant"
  PROVE  /\ Append(v, x) \in Seq(ViewMsg) /\ OneStreams(Append(v, x))
         /\ Ending(Append(v, x)) <=> x.live = TRUE
<1> DEFINE w == Append(v, x)
<1>1. /\ w \in Seq(ViewMsg) /\ Len(w) = Len(v) + 1 /\ w[Len(v) + 1] = x
      /\ \A i \in 1 .. Len(v) : w[i] = v[i]
      /\ Len(v) \in Nat
  OBVIOUS
<1>2. \A i \in 1 .. Len(v) : v[i].live # TRUE
  <2>1. SUFFICES ASSUME NEW i \in 1 .. Len(v), v[i].live = TRUE PROVE FALSE
    OBVIOUS
  <2>2. i = Len(v) /\ v # <<>>
    BY <2>1 DEF OneStreams
  <2>3. QED
    BY <2>1, <2>2 DEF Ending
<1> HIDE DEF w
<1>3. OneStreams(w)
  <2>1. \A i \in 1 .. Len(w) : i \in 1 .. Len(v) \/ i = Len(v) + 1
    BY <1>1
  <2>2. QED
    BY <1>1, <1>2, <2>1 DEF OneStreams
<1>4. Ending(w) <=> x.live = TRUE
  BY <1>1 DEF Ending
<1>5. QED
  BY <1>1, <1>3, <1>4 DEF w

LEMMA ViewSettled ==
  ASSUME NEW v \in Seq(ViewMsg), OneStreams(v), v # <<>>
  PROVE  /\ SubSeq(v, 1, Len(v) - 1) \in Seq(ViewMsg) /\ OneStreams(SubSeq(v, 1, Len(v) - 1))
         /\ ~ Ending(SubSeq(v, 1, Len(v) - 1))
<1> DEFINE f == SubSeq(v, 1, Len(v) - 1)
           n == Len(v) - 1
<1>1. n \in Nat
  OBVIOUS
<1>2. /\ f \in Seq(ViewMsg) /\ Len(f) = n /\ \A i \in 1 .. n : f[i] = v[i]
  <2>1. \A i \in 1 .. n : v[i] \in ViewMsg
    OBVIOUS
  <2> HIDE DEF n
  <2>2. /\ SubSeq(v, 1, n) \in Seq(ViewMsg)
        /\ Len(SubSeq(v, 1, n)) = IF 1 <= n THEN n - 1 + 1 ELSE 0
        /\ \A i \in 1 .. n - 1 + 1 : SubSeq(v, 1, n)[i] = v[1 + i - 1]
    BY <1>1, <2>1, SubSeqProperties
  <2>3. n - 1 + 1 = n /\ \A i \in 1 .. n : 1 + i - 1 = i
    BY <1>1
  <2>4. f = SubSeq(v, 1, n)
    BY DEF n
  <2>5. QED
    BY <1>1, <2>2, <2>3, <2>4
<1>3. \A i \in 1 .. n : v[i].live # TRUE
  <2>1. SUFFICES ASSUME NEW i \in 1 .. n, v[i].live = TRUE PROVE FALSE
    OBVIOUS
  <2>2. i \in 1 .. Len(v) /\ i # Len(v)
    BY <1>1
  <2>3. QED
    BY <2>1, <2>2 DEF OneStreams
<1> HIDE DEF f, n
<1>4. \A i \in 1 .. Len(f) : f[i].live # TRUE
  BY <1>2, <1>3
<1>5. ASSUME Ending(f) PROVE FALSE
  <2>1. f # <<>> /\ f[Len(f)].live = TRUE
    BY <1>5 DEF Ending
  <2>2. Len(f) \in 1 .. Len(f)
    BY <1>2, <2>1
  <2>3. QED
    BY <1>4, <2>1, <2>2
<1>6. OneStreams(f)
  BY <1>4 DEF OneStreams
<1>7. QED
  BY <1>2, <1>5, <1>6 DEF f

LEMMA EventTaken ==
  ASSUME V!ViewConstants, ReducerTypes, NEW msg \in EventMsg, msg.s = current,
         V!sessionEvent(msg), UNCHANGED current,
         NEW b \in Shows, Takes(Displayed, msg, b)
  PROVE  /\ ReducerTypes' /\ Displayed' = b
         /\ Calming(Displayed, msg) => status' = "idle"
         /\ ~ Busying(msg) /\ status = "idle" => status' = "idle"
<1> DEFINE o == Only(view, V!ShownAnswer)
           f == SubSeq(view, 1, Len(view) - 1)
<1>1. /\ view \in Seq(ViewMsg) /\ OneStreams(view) /\ current \in Chats \cup {0}
      /\ status = "idle" => ~ Ending(view)
  BY DEF ReducerTypes
<1>2. /\ Displayed.sess = current /\ Displayed.ans = o /\ (Ending(o) <=> Ending(view))
  BY <1>1, EndingSame DEF Displayed
<1>3. b.sess = current /\ b = [sess |-> b.sess, ans |-> b.ans]
  BY <1>2 DEF Takes, Shows, EventMsg
<1>4. Displayed' = [sess |-> current, ans |-> Only(view', V!ShownAnswer)]
  BY DEF Displayed
<1>5. ASSUME Only(view', V!ShownAnswer) = b.ans PROVE Displayed' = b
  BY <1>3, <1>4, <1>5
<1>6. ASSUME view' \in Seq(ViewMsg), OneStreams(view'), status' = "idle" => ~ Ending(view')
      PROVE  ReducerTypes'
  BY <1>1, <1>6 DEF ReducerTypes, OneStreams, Ending
<1> HIDE DEF o, f
<1>7. CASE msg.t = "agent_start" \/ msg.t = "tool_execution_start"
  <2>1. view' = view /\ status' # "idle" /\ b.ans = o
    BY <1>2, <1>7 DEF V!sessionEvent, Takes
  <2>2. QED
    BY <1>1, <1>5, <1>6, <1>7, <2>1 DEF Busying, Calming, o
<1>8. CASE msg.t = "agent_end"
  <2>1. view' = view /\ status' = "idle" /\ b.ans = o /\ ~ Ending(o)
    BY <1>2, <1>8 DEF V!sessionEvent, Takes
  <2>2. QED
    BY <1>1, <1>2, <1>5, <1>6, <2>1 DEF o
<1>9. CASE msg.t = "inject_message"
  <2> DEFINE x == V!Shown(msg.m, FALSE)
  <2>1. msg.m \in LogMsg /\ msg.m.role = "user"
    BY <1>9 DEF EventMsg, UserMsg, LogMsg
  <2>2. x \in ViewMsg /\ x.live = FALSE /\ x \notin V!ShownAnswer
    BY <2>1, ShownIs
  <2>3. view' = Append(view, x) /\ status' = status /\ b.ans = o /\ ~ Ending(view)
    BY <1>2, <1>9 DEF V!sessionEvent, V!ADD_MESSAGE, Takes
  <2> HIDE DEF x
  <2>4. Only(view', V!ShownAnswer) = o
    BY <1>1, <2>2, <2>3, OnlyAppend DEF o
  <2>5. view' \in Seq(ViewMsg) /\ OneStreams(view') /\ ~ Ending(view')
    BY <1>1, <2>2, <2>3, ViewGrown
  <2>6. QED
    BY <1>5, <1>6, <1>9, <2>3, <2>4, <2>5 DEF Calming
<1>10. CASE msg.t = "message_start"
  <2> DEFINE x == V!Shown(msg.m, TRUE)
  <2>1. msg.m \in LogMsg /\ msg.m.role = "assistant"
    BY <1>10 DEF EventMsg, AssistantMsg, LogMsg
  <2>2. x \in ViewMsg /\ x \in V!ShownAnswer /\ x.role = "assistant"
    BY <2>1, ShownIs
  <2>3. /\ view' = Append(view, x) /\ status' = "streaming" /\ b.ans = Append(o, x)
        /\ ~ Ending(view)
    BY <1>2, <1>10 DEF V!sessionEvent, V!ADD_MESSAGE, Takes
  <2> HIDE DEF x
  <2>4. Only(view', V!ShownAnswer) = Append(o, x)
    BY <1>1, <2>2, <2>3, OnlyAppend DEF o
  <2>5. view' \in Seq(ViewMsg) /\ OneStreams(view')
    BY <1>1, <2>2, <2>3, ViewGrown
  <2>6. QED
    BY <1>5, <1>6, <1>10, <2>3, <2>4, <2>5 DEF Calming, Busying
<1>11. CASE msg.t = "tool_execution_end"
  <2> DEFINE x == V!Shown(msg.m, FALSE)
  <2>1. msg.m \in LogMsg /\ msg.m.role = "toolResult"
    BY <1>11 DEF EventMsg, ResultMsg, LogMsg
  <2>2. x \in ViewMsg /\ x.live = FALSE /\ x \in V!ShownAnswer
    BY <2>1, ShownIs
  <2>3. view' = Append(view, x) /\ status' = status /\ b.ans = Append(o, x) /\ ~ Ending(view)
    BY <1>2, <1>11 DEF V!sessionEvent, V!ADD_MESSAGE, Takes
  <2> HIDE DEF x
  <2>4. Only(view', V!ShownAnswer) = Append(o, x)
    BY <1>1, <2>2, <2>3, OnlyAppend DEF o
  <2>5. view' \in Seq(ViewMsg) /\ OneStreams(view') /\ ~ Ending(view')
    BY <1>1, <2>2, <2>3, ViewGrown
  <2>6. QED
    BY <1>5, <1>6, <1>11, <2>3, <2>4, <2>5 DEF Calming
<1>12. CASE msg.t = "message_end"
  <2> DEFINE x == V!Shown(msg.m, FALSE)
  <2>1. msg.m \in LogMsg /\ msg.m.role = "assistant"
    BY <1>12 DEF EventMsg, AssistantMsg, LogMsg
  <2>2. x \in ViewMsg /\ x.live = FALSE /\ x \in V!ShownAnswer
    BY <2>1, ShownIs
  <2>3. /\ Ending(view) /\ b.ans = Append(SubSeq(o, 1, Len(o) - 1), x)
    BY <1>2, <1>12 DEF Takes
  <2>4. view' = Append(f, x) /\ status' = status
    BY <1>12, <2>3 DEF V!sessionEvent, V!finalize, V!Last, V!Front, Ending, f
  <2> HIDE DEF x
  <2>5. f \in Seq(ViewMsg) /\ OneStreams(f) /\ ~ Ending(f)
    BY <1>1, <2>3, ViewSettled DEF f, Ending
  <2>6. Only(view', V!ShownAnswer) = Append(Only(f, V!ShownAnswer), x)
    BY <2>2, <2>4, <2>5, OnlyAppend
  <2>7. Only(f, V!ShownAnswer) = SubSeq(o, 1, Len(o) - 1)
    BY <1>1, <2>3, EndingSame DEF f, o
  <2>8. view' \in Seq(ViewMsg) /\ OneStreams(view') /\ ~ Ending(view')
    BY <2>2, <2>4, <2>5, ViewGrown
  <2>9. QED
    BY <1>5, <1>6, <1>12, <2>3, <2>4, <2>6, <2>7, <2>8 DEF Calming
<1>13. QED
  BY <1>7, <1>8, <1>9, <1>10, <1>11, <1>12 DEF EventMsg

\* What a message of the server makes of the view, whatever it is.
LEMMA Taken ==
  ASSUME V!ViewConstants, ReducerTypes, WireTypes, V!handleMessage, Head(toClient) \in DownMsg,
         NEW b \in Shows, Takes(Displayed, Head(toClient), b)
  PROVE  /\ ReducerTypes' /\ Displayed' = b
         /\ Calming(Displayed, Head(toClient)) => status' = "idle"
         /\ ~ Busying(Head(toClient)) /\ status = "idle" => status' = "idle"
         /\ \/ toServer' = toServer
            \/ \E u \in UpMsg : toServer' = Append(toServer, u)
<1> DEFINE msg == Head(toClient)
<1>1. Displayed.sess = current
  BY DEF Displayed
<1>2. CASE msg \in SyncMsg
  <2>1. msg.t = "session_sync" /\ msg.s \in Chats /\ msg.cursor \in Nat
    BY <1>2 DEF SyncMsg
  <2>2. V!sessionSync(msg)
    BY <2>1 DEF V!handleMessage
  <2>3. [t |-> "request_sync", s |-> msg.s, after |-> msg.cursor] \in UpMsg
    BY <2>1 DEF UpMsg
  <2>4. \/ toServer' = toServer
        \/ toServer' = Append(toServer, [t |-> "request_sync", s |-> msg.s, after |-> msg.cursor])
    BY <2>2 DEF V!sessionSync, V!requestMore
  <2>5. QED
    BY <1>2, <2>2, <2>3, <2>4, SyncTaken
<1>3. CASE msg \in KeysMsg
  <2>1. msg.t = "capability_state"
    BY <1>3 DEF KeysMsg
  <2>2. UNCHANGED <<toServer, view, current, status>> /\ b = Displayed
    BY <2>1 DEF V!handleMessage, Takes
  <2>3. ReducerTypes' /\ Displayed' = Displayed
    BY <2>2 DEF ReducerTypes, OneStreams, Displayed
  <2>4. ~ Calming(Displayed, msg)
    BY <2>1 DEF Calming
  <2>5. QED
    BY <2>2, <2>3, <2>4
<1>4. CASE msg \in EventMsg
  <2>1. msg.t \notin {"session_sync", "capability_state"}
    BY <1>4 DEF EventMsg
  <2>2. UNCHANGED <<toServer, current>>
    BY <2>1 DEF V!handleMessage
  <2>3. CASE msg.s = current
    <3>1. V!sessionEvent(msg)
      BY <2>1, <2>3 DEF V!handleMessage
    <3>2. QED
      BY <1>4, <2>2, <2>3, <3>1, EventTaken
  <2>4. CASE msg.s # current
    <3>1. UNCHANGED <<view, status>> /\ b = Displayed
      BY <1>1, <2>1, <2>4 DEF V!handleMessage, Takes
    <3>2. ReducerTypes' /\ Displayed' = Displayed
      BY <2>2, <3>1 DEF ReducerTypes, OneStreams, Displayed
    <3>3. ~ Calming(Displayed, msg)
      BY <1>1, <2>1, <2>4 DEF Calming
    <3>4. QED
      BY <2>2, <3>1, <3>2, <3>3
  <2>5. QED
    BY <2>3, <2>4
<1>5. QED
  BY <1>2, <1>3, <1>4 DEF DownMsg

LEMMA UpAppended ==
  ASSUME toServer \in Seq(UpMsg), NEW u \in UpMsg, toServer' = Append(toServer, u)
  PROVE  /\ toServer' \in Seq(UpMsg) /\ Len(toServer') = Len(toServer) + 1
         /\ toServer'[Len(toServer) + 1] = u
         /\ \A i \in 1 .. Len(toServer) : toServer'[i] = toServer[i]
OBVIOUS

\* Waits, when the browser sends something.
LEMMA WaitsStill ==
  ASSUME toServer \in Seq(UpMsg), UNCHANGED <<conn, queued>>, status = "idle" => status' = "idle",
         \/ toServer' = toServer
         \/ \E u \in UpMsg : toServer' = Append(toServer, u),
         Waits
  PROVE  Waits'
<1>1. ASSUME NEW i \in 1 .. Len(toServer), toServer[i].t = "prompt" /\ toServer[i].s = conn
      PROVE  Waits'
  <2>1. CASE toServer' = toServer
    BY <1>1, <2>1 DEF Waits
  <2>2. ASSUME NEW u \in UpMsg, toServer' = Append(toServer, u) PROVE Waits'
    <3>1. i \in 1 .. Len(toServer') /\ toServer'[i] = toServer[i]
      BY <2>2, UpAppended
    <3>2. QED
      BY <1>1, <3>1 DEF Waits
  <2>3. QED
    BY <2>1, <2>2
<1>2. QED
  BY <1>1 DEF Waits

\* The browser takes a message of the server.
LEMMA MessageStep ==
  ASSUME V!ViewConstants, ViewInv, V!handleMessage
  PROVE  ViewInv'
<1> DEFINE msg == Head(toClient)
<1>1. /\ toClient # <<>> /\ toClient' = Tail(toClient) /\ toClient \in Seq(DownMsg)
      /\ UNCHANGED <<V!server, conn, isOpen>>
  BY DEF V!handleMessage, ViewInv, WireTypes
<1>2. isOpen /\ conn \in Chats
  BY <1>1 DEF ViewInv, WireTypes
<1>3. PICK r : Follows(r)
  BY <1>2 DEF ViewInv
<1>4. /\ r \in Seq(Shows) /\ Leads(r, Displayed, toClient)
      /\ r[Len(r)].sess = conn => r[Len(r)] = Promised
  BY <1>3 DEF Follows, Tracks, Promised
<1> DEFINE b == r[2]
           p == Tail(r)
<1>5. /\ Takes(Displayed, msg, b) /\ Leads(p, b, Tail(toClient)) /\ Tail(toClient) \in Seq(DownMsg)
      /\ p \in Seq(Shows) /\ p[Len(p)] = r[Len(r)] /\ msg \in DownMsg /\ b \in Shows
      /\ Calmed(r, toClient) => \/ Calmed(p, Tail(toClient))
                                \/ NoneBusy(Tail(toClient)) /\ Calming(Displayed, msg)
      /\ NoneBusy(toClient) => NoneBusy(Tail(toClient)) /\ ~ Busying(msg)
  <2> HIDE DEF Displayed
  <2>1. QED
    BY <1>1, <1>4, LeadsTail
<1>6. /\ ReducerTypes' /\ Displayed' = b
      /\ Calming(Displayed, msg) => status' = "idle"
      /\ ~ Busying(msg) /\ status = "idle" => status' = "idle"
      /\ \/ toServer' = toServer
         \/ \E u \in UpMsg : toServer' = Append(toServer, u)
  BY <1>5, Taken DEF ViewInv
<1> HIDE DEF msg, b, p
<1>7. ServerTypes'
  BY <1>1 DEF ViewInv, ServerTypes, V!server, V!handleMessage
<1>8. WireTypes'
  <2>1. toServer' \in Seq(UpMsg)
    BY <1>6, UpAppended DEF ViewInv, WireTypes
  <2>2. QED
    BY <1>1, <1>2, <1>5, <2>1 DEF WireTypes
<1>9. Promised' = Promised
  BY <1>1 DEF Promised, V!server
<1>10. Tracks(p, Displayed', toClient', Promised')
  <2>1. Promised.sess = conn
    BY DEF Promised
  <2>2. QED
    BY <1>1, <1>4, <1>5, <1>6, <1>9, <2>1 DEF Tracks
<1>11. ASSUME p[Len(p)].sess = conn, agentPhase[conn] = "idle"
       PROVE  Calmed(p, toClient') \/ (NoneBusy(toClient') /\ Waits')
  <2>1. Calmed(r, toClient) \/ (NoneBusy(toClient) /\ Waits)
    BY <1>3, <1>5, <1>11 DEF Follows
  <2>2. CASE Calmed(r, toClient)
    BY <1>1, <1>5, <1>6, <2>2 DEF Waits
  <2>3. CASE NoneBusy(toClient) /\ Waits
    <3>1. NoneBusy(toClient') /\ ~ Busying(msg)
      BY <1>1, <1>5, <2>3
    <3>2. Waits'
      BY <1>1, <1>6, <2>3, <3>1, WaitsStill DEF ViewInv, WireTypes, V!server
    <3>3. QED
      BY <3>1, <3>2
  <2>4. QED
    BY <2>1, <2>2, <2>3
<1>12. Follows(p)'
  BY <1>1, <1>10, <1>11 DEF Follows, Tracks, Leads, Calmed, NoneBusy, V!server
<1>13. QED
  BY <1>6, <1>7, <1>8, <1>12 DEF ViewInv

\* A message put into the view by the user is not an answer.
LEMMA LocalAdded ==
  ASSUME V!ViewConstants, ReducerTypes, NEW m \in UserMsg, status = "idle", V!AddLocal(m),
         UNCHANGED current
  PROVE  ReducerTypes' /\ Displayed' = Displayed
<1> DEFINE x == V!Shown(m, FALSE)
<1>1. view' = Append(view, x) /\ status' = "streaming"
  BY DEF V!AddLocal, V!ADD_MESSAGE
<1>2. x \in ViewMsg /\ x.live = FALSE /\ x \notin V!ShownAnswer
  <2>1. m \in LogMsg /\ m.role = "user"
    BY DEF UserMsg, LogMsg
  <2>2. QED
    BY <2>1, ShownIs
<1> HIDE DEF x
<1>3. /\ view \in Seq(ViewMsg) /\ OneStreams(view) /\ ~ Ending(view) /\ current \in Chats \cup {0}
  BY DEF ReducerTypes
<1>4. view' \in Seq(ViewMsg) /\ OneStreams(view')
  BY <1>1, <1>2, <1>3, ViewGrown
<1>5. ReducerTypes'
  BY <1>1, <1>3, <1>4 DEF ReducerTypes, OneStreams
<1>6. Only(view', V!ShownAnswer) = Only(view, V!ShownAnswer)
  BY <1>1, <1>2, <1>3, OnlyAppend
<1>7. QED
  BY <1>5, <1>6 DEF Displayed

\* The user sends a message; the browser tells the server of it, when it can.
LEMMA SendStep ==
  ASSUME V!ViewConstants, ViewInv, V!sendMessage
  PROVE  ViewInv'
<1> DEFINE m == V!Msg(messages', "user")
<1>1. /\ current # 0 /\ messages' = messages + 1
      /\ UNCHANGED <<V!server, conn, toClient, current, isOpen>>
  BY DEF V!sendMessage
<1>2. current \in Chats /\ messages' \in Nat
  BY <1>1 DEF ViewInv, ReducerTypes, ServerTypes
<1>3. m \in UserMsg
  BY <1>2, MsgIs
<1>4. PICK u \in UpMsg : /\ toServer' = IF isOpen THEN Append(toServer, u) ELSE toServer
                         /\ \/ status = "idle" /\ V!AddLocal(m) /\ u.t = "prompt" /\ u.s = current
                            \/ status # "idle" /\ UNCHANGED <<view, status>>
  <2> DEFINE a == [t |-> "prompt", s |-> current, m |-> m]
             c == [t |-> "queue_message", s |-> current, m |-> m]
  <2>1. a \in UpMsg /\ c \in UpMsg /\ a.t = "prompt" /\ a.s = current
    <3> HIDE DEF m
    <3>1. QED
      BY <1>2, <1>3 DEF UpMsg
  <2>2. \/ V!Send(a) /\ status = "idle" /\ V!AddLocal(m)
        \/ V!Send(c) /\ status # "idle" /\ UNCHANGED <<view, status>>
    BY DEF V!sendMessage
  <2> HIDE DEF a, c, m
  <2>3. CASE V!Send(a) /\ status = "idle" /\ V!AddLocal(m)
    BY <2>1, <2>3 DEF V!Send
  <2>4. CASE V!Send(c) /\ status # "idle" /\ UNCHANGED <<view, status>>
    BY <2>1, <2>4 DEF V!Send
  <2>5. QED
    BY <2>2, <2>3, <2>4
<1> HIDE DEF m
<1>5. ReducerTypes' /\ Displayed' = Displayed
  <2>1. CASE status = "idle" /\ V!AddLocal(m)
    BY <1>1, <1>3, <2>1, LocalAdded DEF ViewInv
  <2>2. CASE UNCHANGED <<view, status>>
    BY <1>1, <2>2 DEF ViewInv, ReducerTypes, OneStreams, Displayed
  <2>3. QED
    BY <1>4, <2>1, <2>2
<1>6. ServerTypes'
  BY <1>1, <1>2 DEF ViewInv, ServerTypes, V!server
<1>7. CASE ~ isOpen
  <2>1. WireTypes'
    BY <1>1, <1>4, <1>7 DEF ViewInv, WireTypes
  <2>2. QED
    BY <1>1, <1>5, <1>6, <1>7, <2>1 DEF ViewInv
<1>8. CASE isOpen
  <2>1. toServer' = Append(toServer, u) /\ toServer \in Seq(UpMsg) /\ conn \in Chats
    BY <1>4, <1>8 DEF ViewInv, WireTypes
  <2>2. /\ toServer' \in Seq(UpMsg) /\ Len(toServer') = Len(toServer) + 1
        /\ toServer'[Len(toServer) + 1] = u /\ Len(toServer) \in Nat
    BY <2>1, UpAppended
  <2>3. WireTypes'
    BY <1>1, <1>8, <2>1, <2>2 DEF ViewInv, WireTypes
  <2>4. PICK r : Follows(r)
    BY <1>8 DEF ViewInv
  <2>5. Promised' = Promised
    BY <1>1 DEF Promised, V!server
  <2>6. Tracks(r, Displayed', toClient', Promised')
    BY <1>1, <1>5, <2>4, <2>5 DEF Follows
  <2>7. ASSUME r[Len(r)].sess = conn, NoneBusy(toClient), ~ Calmed(r, toClient), Waits
        PROVE  Waits'
    <3>1. CASE status = "idle"
      <4>1. u.t = "prompt" /\ u.s = current
        BY <1>4, <3>1
      <4>2. r[Len(r)].sess = current
        <5>1. r \in Seq(Shows) /\ toClient \in Seq(DownMsg) /\ Leads(r, Displayed, toClient)
          BY <2>4 DEF Follows, Tracks
        <5>2. r[Len(r)].sess = Displayed.sess
          <6> HIDE DEF Displayed
          <6>1. QED
            BY <2>7, <5>1, SameSession
        <5>3. QED
          BY <5>2 DEF Displayed
      <4>3. Len(toServer) + 1 \in 1 .. Len(toServer') /\ conn' = conn
        BY <1>1, <2>2
      <4>4. QED
        BY <2>2, <2>7, <4>1, <4>2, <4>3 DEF Waits
    <3>2. CASE status # "idle"
      BY <1>1, <1>4, <2>1, <2>7, <3>2, WaitsStill DEF V!server
    <3>3. QED
      BY <3>1, <3>2
  <2>8. r[Len(r)].sess = conn /\ agentPhase[conn] = "idle" =>
          Calmed(r, toClient) \/ (NoneBusy(toClient) /\ Waits')
    BY <2>4, <2>7 DEF Follows
  <2>9. Follows(r)'
    BY <1>1, <2>6, <2>8 DEF Follows, Tracks, Leads, Calmed, NoneBusy, V!server
  <2>10. QED
    BY <1>5, <1>6, <2>3, <2>9 DEF ViewInv
<1>9. QED
  BY <1>7, <1>8

LEMMA SwitchAsked ==
  ASSUME V!ViewConstants, ViewInv, V!switchSession
  PROVE  ViewInv'
<1>1. /\ isOpen /\ UNCHANGED <<V!server, conn, toClient, V!client, isOpen, messages>>
  BY DEF V!switchSession
<1> USE DEF V!server, V!client
<1>2. PICK s \in Chats : toServer' = Append(toServer, [t |-> "switch_session", s |-> s])
  BY <1>1 DEF V!switchSession, V!Send
<1>3. [t |-> "switch_session", s |-> s] \in UpMsg
  BY DEF UpMsg
<1>4. toServer \in Seq(UpMsg)
  BY DEF ViewInv, WireTypes
<1>5. ServerTypes' /\ ReducerTypes' /\ WireTypes'
  <2>1. toServer' \in Seq(UpMsg)
    BY <1>2, <1>3, <1>4, UpAppended
  <2>2. QED
    BY <1>1, <2>1 DEF ViewInv, ServerTypes, ReducerTypes, WireTypes, OneStreams
<1>6. PICK r : Follows(r)
  BY <1>1 DEF ViewInv
<1>7. Waits => Waits'
  BY <1>1, <1>2, <1>3, <1>4, WaitsStill
<1>8. Promised' = Promised
  BY <1>1 DEF Promised
<1>9. Follows(r)'
  BY <1>1, <1>6, <1>7, <1>8, Unmoved
<1>10. QED
  BY <1>5, <1>9 DEF ViewInv

\* A new connection is synchronised first.
LEMMA ConnectStep ==
  ASSUME V!ViewConstants, ViewInv, V!connect
  PROVE  ViewInv'
<1>1. PICK s \in Chats : /\ conn' = s
                         /\ toClient' = <<V!Sync(s, 0), V!CommandList, V!Schedules>>
  BY DEF V!connect
<1>2. isOpen' = TRUE /\ UNCHANGED <<V!server, V!client, messages>>
  BY DEF V!connect
<1> USE DEF V!server, V!client
<1> DEFINE a == V!Sync(s, 0)
           b == V!CommandList
           c == V!Schedules
<1>3. /\ a \in SyncMsg /\ a.s = s /\ a.msgs = chatLog[s] /\ a.stream = streaming[s]
      /\ b \in KeysMsg /\ c \in KeysMsg
  BY SyncIs, KeysAre DEF ViewInv
<1> HIDE DEF a, b, c
<1>4. a \in DownMsg /\ b \in DownMsg /\ c \in DownMsg
  BY <1>3 DEF DownMsg
<1>5. toClient' = <<a, b, c>>
  BY <1>1 DEF a, b, c
<1>6. /\ toClient' = Append(Append(Append(<<>>, a), b), c) /\ toClient' \in Seq(DownMsg)
  BY <1>4, <1>5
<1>7. ServerTypes' /\ ReducerTypes'
  BY <1>2 DEF ViewInv, ServerTypes, ReducerTypes, OneStreams
<1>8. WireTypes'
  <2>1. toServer' \in Seq(UpMsg)
    <3>1. <<>> \in Seq(UpMsg)
      OBVIOUS
    <3>2. CASE current # 0
      <4> DEFINE u == [t |-> "switch_session", s |-> current]
      <4>1. u \in UpMsg
        BY <3>2 DEF UpMsg, ViewInv, ReducerTypes
      <4>2. toServer' = <<u>> \/ toServer' = <<>>
        BY DEF V!connect
      <4> HIDE DEF u
      <4>3. <<u>> \in Seq(UpMsg)
        BY <4>1
      <4>4. QED
        BY <3>1, <4>2, <4>3
    <3>3. CASE current = 0
      BY <3>1, <3>3 DEF V!connect
    <3>4. QED
      BY <3>2, <3>3
  <2>2. QED
    BY <1>1, <1>2, <1>6, <2>1 DEF WireTypes
<1>9. Promised' \in Shows /\ Promised'.sess = s /\ Promised'.ans = Synced(a.msgs, a.stream)
  BY <1>1, <1>2, <1>3, <1>7, NextPromisedIs
<1>10. Tracks(<<Displayed>>, Displayed, <<>>, Displayed)
  <2>1. Displayed \in Shows
    BY DisplayedIs DEF ViewInv
  <2> HIDE DEF Displayed
  <2>2. /\ <<Displayed>> \in Seq(Shows) /\ <<>> \in Seq(DownMsg)
        /\ Len(<<Displayed>>) = 1 /\ <<Displayed>>[1] = Displayed /\ Len(<<>>) = 0
    BY <2>1
  <2>3. Leads(<<Displayed>>, Displayed, <<>>)
    BY <2>2 DEF Leads
  <2>4. QED
    BY <2>2, <2>3 DEF Tracks
<1>11. Displayed' = Displayed
  BY <1>2 DEF Displayed
<1> HIDE DEF Displayed
<1>12. PICK p : /\ Tracks(p, Displayed, Append(<<>>, a), Promised')
                /\ a.stream = 0 => Calmed(p, Append(<<>>, a))
  <2> HIDE DEF Promised
  <2>1. Chats \subseteq Nat
    BY DEF V!ViewConstants
  <2>2. QED
    BY <1>3, <1>9, <1>10, <2>1, SyncSent
<1>13. PICK q : /\ Tracks(q, Displayed, Append(Append(<<>>, a), b), Promised')
                /\ Calmed(p, Append(<<>>, a)) => Calmed(q, Append(Append(<<>>, a), b))
  BY <1>3, <1>12, KeysSent
<1>14. PICK r : /\ Tracks(r, Displayed, Append(Append(Append(<<>>, a), b), c), Promised')
                /\ Calmed(q, Append(Append(<<>>, a), b))
                     => Calmed(r, Append(Append(Append(<<>>, a), b), c))
  BY <1>3, <1>13, KeysSent
<1>15. Follows(r)'
  <2>1. Tracks(r, Displayed', toClient', Promised')
    BY <1>6, <1>11, <1>14
  <2>2. agentPhase[s] = "idle" => Calmed(r, toClient')
    BY <1>3, <1>6, <1>12, <1>13, <1>14 DEF ViewInv, ServerTypes
  <2>3. QED
    BY <1>1, <1>2, <2>1, <2>2 DEF Follows, Tracks, Leads, Calmed
<1>16. QED
  BY <1>7, <1>8, <1>15 DEF ViewInv

LEMMA DisconnectStep ==
  ASSUME V!ViewConstants, ViewInv, V!disconnect
  PROVE  ViewInv'
<1>1. /\ conn' = 0 /\ toServer' = <<>> /\ toClient' = <<>> /\ isOpen' = FALSE
      /\ UNCHANGED <<V!server, V!client, messages>>
  BY DEF V!disconnect
<1>2. toServer' \in Seq(UpMsg) /\ toClient' \in Seq(DownMsg)
  BY <1>1
<1>3. QED
  BY <1>1, <1>2 DEF ViewInv, ServerTypes, ReducerTypes, WireTypes, OneStreams, V!server, V!client

LEMMA NextViewInv ==
  ASSUME V!ViewConstants, ViewInv, [V!Next]_(V!vars)
  PROVE  ViewInv'
<1>1. CASE UNCHANGED V!vars
  <2>1. Displayed' = Displayed /\ Promised' = Promised /\ Waits' = Waits
    BY <1>1 DEF V!vars, Displayed, Promised, Waits
  <2>2. ServerTypes' /\ ReducerTypes' /\ WireTypes'
    BY <1>1 DEF V!vars, ViewInv, ServerTypes, ReducerTypes, WireTypes, OneStreams
  <2>3. ASSUME isOpen PROVE \E r : Follows(r)'
    <3>1. PICK r : Follows(r)
      BY <2>3 DEF ViewInv
    <3>2. Follows(r)'
      BY <1>1, <2>1, <3>1, Unmoved DEF V!vars
    <3>3. QED
      BY <3>2
  <2>4. isOpen' = isOpen
    BY <1>1 DEF V!vars
  <2>5. QED
    BY <2>2, <2>3, <2>4 DEF ViewInv
<1>2. ASSUME NEW s \in Chats, V!agentEvent(s), UNCHANGED <<conn, toServer, V!client, isOpen, moves>>
      PROVE  ViewInv'
  BY <1>2, AgentEventStep
<1>3. CASE V!handleAgentEvent
  BY <1>2, <1>3 DEF V!handleAgentEvent
<1>4. ~ V!sendCommand /\ ~ V!steerMessage
  BY DEF V!sendCommand, V!steerMessage, V!ViewConstants
<1>5. QED
  BY <1>1, <1>3, <1>4, ConnectStep, DisconnectStep, SendStep, SwitchAsked, ClientMessageStep,
     QueueStep, MessageStep DEF V!Next

\* A browser that has caught up shows the answers of the session that it is
\* connected to, each once and settled, and does not take an idle agent for busy,
\* whatever was switched, lost and synchronised, on any page size (ClientView).
THEOREM BrowserShowsAnswers ==
  ASSUME V!ViewConstants
  PROVE  V!Spec => []BrowserCatchesUp
<1>1. V!Init => ViewInv
  <2>1. SUFFICES ASSUME V!Init PROVE ViewInv
    OBVIOUS
  <2>2. /\ ServerTypes /\ WireTypes /\ ~ isOpen
    BY <2>1 DEF V!Init, ServerTypes, WireTypes
  <2>3. ReducerTypes
    BY <2>1 DEF V!Init, ReducerTypes, OneStreams, Ending
  <2>4. QED
    BY <2>2, <2>3 DEF ViewInv
<1>2. ViewInv /\ [V!Next]_(V!vars) => ViewInv'
  BY NextViewInv
<1>3. ViewInv => BrowserCatchesUp
  <2>1. SUFFICES ASSUME ViewInv, V!Quiescent
                 PROVE  /\ V!Only(view, V!ShownAnswer) = V!Settle(V!Only(chatLog[current], V!Answer))
                        /\ status = "idle"
    BY DEF BrowserCatchesUp, V!AnswersShown, V!StatusSettles
  <2>2. /\ isOpen /\ toServer = <<>> /\ toClient = <<>> /\ current = conn
        /\ agentPhase[conn] = "idle" /\ queued[conn] = <<>> /\ conn \in Chats
    BY <2>1 DEF V!Quiescent, ViewInv, WireTypes
  <2>3. PICK r : Follows(r)
    BY <2>1, <2>2 DEF ViewInv
  <2>4. Len(r) = 1 /\ r[1] = Displayed
    BY <2>2, <2>3 DEF Follows, Tracks, Leads
  <2>5. Displayed.sess = conn /\ Promised.sess = conn
    BY <2>2 DEF Displayed, Promised
  <2>6. Displayed = Promised
    BY <2>3, <2>4, <2>5 DEF Follows, Tracks
  <2>7. ~ Calmed(r, toClient) /\ ~ (\E i \in 1 .. Len(toServer) : toServer[i].t = "prompt")
    BY <2>2 DEF Calmed
  <2>8. status = "idle"
    BY <2>2, <2>3, <2>4, <2>5, <2>7 DEF Follows, Waits
  <2>9. Only(view, V!ShownAnswer) = Synced(chatLog[conn], streaming[conn])
    BY <2>6 DEF Displayed, Promised
  <2>10. streaming[conn] = 0 /\ chatLog[conn] \in Seq(LogMsg)
    BY <2>1, <2>2 DEF ViewInv, ServerTypes
  <2>11. Synced(chatLog[conn], 0) = V!Settle(Only(chatLog[conn], V!Answer))
    <3> DEFINE q == V!Settle(Only(chatLog[conn], V!Answer))
    <3>1. q \in Seq(ViewMsg)
      BY <2>10, OnlySettle, SettleIs
    <3>2. Synced(chatLog[conn], 0) = q \o <<>>
      BY DEF Synced, InFlight
    <3> HIDE DEF q
    <3>3. q \o <<>> = q
      BY <3>1, ConcatEmptySeq
    <3>4. QED
      BY <3>2, <3>3 DEF q
  <2>12. QED
    BY <2>2, <2>8, <2>9, <2>10, <2>11, SameViewOnly
<1>4. QED
  BY <1>1, <1>2, <1>3, PTL DEF V!Spec

-----------------------------------------------------------------------------
(***************************************************************************)
(* RateBounded for one key.  q are the times of its grants, r the row of   *)
(* one of its windows.  The row knows the current window only; what bounds *)
(* a span over the window before is that its first grant, at most lim      *)
(* grants back, is a whole window older than the current start.            *)
(***************************************************************************)
Times(q, now) ==
  /\ q \in Seq(Nat)
  /\ \A i, j \in DOMAIN q : i <= j => q[i] <= q[j]
  /\ \A i \in DOMAIN q : q[i] <= now

\* A nonempty set of natural numbers has a least element.
LEMMA FirstOf ==
  ASSUME NEW T, T \subseteq Nat, T # {}
  PROVE  \E m \in T : \A n \in T : m <= n
<1> DEFINE R == {xy \in Nat \X Nat : xy[1] < xy[2]}
<1>1. PICK x \in T : \A y \in T : ~ (<<y, x>> \in R)
  <2>1. IsWellFoundedOn(R, Nat)
    BY NatLessThanWellFounded DEF OpToRel
  <2> HIDE DEF R
  <2>2. QED
    BY <2>1, WFMin
<1>2. ASSUME NEW y \in T PROVE x <= y
  <2>1. x \in Nat /\ y \in Nat
    OBVIOUS
  <2>2. ~ (y < x)
    BY <1>1, <2>1
  <2>3. QED
    BY <2>1, <2>2
<1>3. QED
  BY <1>2

\* 2 * lim grants, from the first to the last, take a whole window.
Spaced(q, len, lim) ==
  \A i, j \in DOMAIN q : i + 2 * lim <= j + 1 => q[i] + len <= q[j]

Window(q, start, count, len, lim, now) ==
  /\ start \in Nat /\ count \in Nat
  /\ start <= now /\ count <= lim /\ count <= Len(q)
  /\ count = 0 => q = << >>
  /\ count > 0 => q[Len(q) + 1 - count] = start
  /\ \A i \in DOMAIN q : i + count + lim <= Len(q) + 1 => q[i] + len <= start
  /\ Spaced(q, len, lim)

\* What a further grant does to the times.
LEMMA AppendTime ==
  ASSUME NEW q, NEW now \in Nat, Times(q, now)
  PROVE  /\ q \in Seq(Nat)
         /\ Len(q) \in Nat /\ DOMAIN q = 1 .. Len(q)
         /\ Len(Append(q, now)) = Len(q) + 1
         /\ DOMAIN Append(q, now) = 1 .. Len(q) + 1
         /\ \A i \in 1 .. Len(q) : /\ Append(q, now)[i] = q[i]
                                   /\ q[i] \in Nat /\ q[i] <= now
         /\ Append(q, now)[Len(q) + 1] = now
         /\ Times(Append(q, now), now)
<1>1. /\ q \in Seq(Nat) /\ Len(q) \in Nat /\ DOMAIN q = 1 .. Len(q)
      /\ Len(Append(q, now)) = Len(q) + 1 /\ DOMAIN Append(q, now) = 1 .. Len(q) + 1
      /\ \A i \in 1 .. Len(q) : /\ Append(q, now)[i] = q[i]
                                /\ q[i] \in Nat /\ q[i] <= now
      /\ Append(q, now)[Len(q) + 1] = now
      /\ Append(q, now) \in Seq(Nat)
  BY DEF Times
<1>2. PICK n \in Nat : n = Len(q)
  BY <1>1
<1> DEFINE a == Append(q, now)
<1> HIDE DEF a
<1>3. /\ DOMAIN q = 1 .. n /\ DOMAIN a = 1 .. n + 1 /\ a[n + 1] = now
      /\ \A i \in 1 .. n : a[i] = q[i] /\ q[i] \in Nat /\ q[i] <= now
  BY <1>1, <1>2 DEF a
<1>4. ASSUME NEW i \in 1 .. n + 1, NEW j \in 1 .. n + 1, i <= j
      PROVE  a[i] <= a[j] /\ a[i] <= now
  <2>1. CASE j \in 1 .. n
    <3>1. i \in 1 .. n
      BY <1>4, <2>1
    <3>2. q[i] <= q[j]
      BY <1>3, <1>4, <2>1, <3>1 DEF Times
    <3>3. QED
      BY <1>3, <2>1, <3>1, <3>2
  <2>2. CASE j = n + 1
    <3>1. i \in 1 .. n \/ i = n + 1
      OBVIOUS
    <3>2. QED
      BY <1>3, <2>2, <3>1
  <2>3. QED
    BY <2>1, <2>2
<1>5. Times(a, now)
  <2>1. a \in Seq(Nat)
    BY <1>1 DEF a
  <2>2. \A i \in DOMAIN a : i <= i
    BY <1>3
  <2>3. QED
    BY <1>3, <1>4, <2>1, <2>2 DEF Times
<1>6. QED
  BY <1>1, <1>2, <1>5 DEF a

\* If everything lim grants back is a window older than `now`, a grant at `now`
\* is spaced as the earlier ones are.
LEMMA AppendSpaced ==
  ASSUME NEW q, NEW n \in Nat, NEW len \in Nat \ {0}, NEW lim \in Nat \ {0},
         NEW now \in Nat, Times(q, now), Spaced(q, len, lim), Len(q) = n,
         \A i \in DOMAIN q : i + 2 * lim <= n + 2 => q[i] + len <= now
  PROVE  Spaced(Append(q, now), len, lim)
<1> DEFINE a == Append(q, now)
<1> HIDE DEF a
<1>1. /\ DOMAIN q = 1 .. n /\ DOMAIN a = 1 .. n + 1 /\ a[n + 1] = now
      /\ \A i \in 1 .. n : a[i] = q[i] /\ q[i] \in Nat
  <2>1. Append(q, now) = a
    BY DEF a
  <2>2. QED
    BY <2>1, AppendTime
<1>2. ASSUME NEW i \in 1 .. n + 1, NEW j \in 1 .. n + 1, i + 2 * lim <= j + 1
      PROVE  a[i] + len <= a[j]
  <2>1. i \in 1 .. n
    BY <1>2
  <2>2. CASE j \in 1 .. n
    BY <1>1, <1>2, <2>1, <2>2 DEF Spaced
  <2>3. CASE j = n + 1
    <3>1. i + 2 * lim <= n + 2
      BY <1>2, <2>3
    <3>2. q[i] + len <= now
      BY <1>1, <2>1, <3>1
    <3>3. QED
      BY <1>1, <2>1, <2>3, <3>2
  <2>4. QED
    BY <2>2, <2>3
<1>3. QED
  BY <1>1, <1>2 DEF Spaced, a

\* A grant inside the current window.
LEMMA GrantInWindow ==
  ASSUME NEW q, NEW start, NEW count, NEW len \in Nat \ {0}, NEW lim \in Nat \ {0},
         NEW now \in Nat, Times(q, now), Window(q, start, count, len, lim, now),
         count > 0, count < lim
  PROVE  Window(Append(q, now), start, count + 1, len, lim, now)
<1> DEFINE a == Append(q, now)
<1>0. PICK n \in Nat : n = Len(q)
  BY AppendTime
<1>1.   /\ Len(q) = n /\ DOMAIN q = 1 .. n /\ Len(a) = n + 1 /\ DOMAIN a = 1 .. n + 1
        /\ \A i \in 1 .. n : a[i] = q[i] /\ q[i] \in Nat
  BY <1>0, AppendTime
<1>2. /\ start \in Nat /\ count \in Nat /\ start <= now /\ count <= n
      /\ q[n + 1 - count] = start
      /\ \A i \in 1 .. n : i + count + lim <= n + 1 => q[i] + len <= start
      /\ Spaced(q, len, lim)
  BY <1>1 DEF Window
<1>3. Spaced(a, len, lim)
  <2>1. ASSUME NEW i \in DOMAIN q, i + 2 * lim <= n + 2
        PROVE  q[i] + len <= now
    <3>1. i \in 1 .. n /\ i + count + lim <= n + 1
      BY <1>1, <1>2, <2>1
    <3>2. q[i] + len <= start /\ q[i] \in Nat
      BY <1>1, <1>2, <3>1
    <3>3. QED
      BY <1>2, <3>2
  <2>2. QED
    BY <1>1, <1>2, <2>1, AppendSpaced
<1> HIDE DEF a
<1>4. a[n + 2 - (count + 1)] = start
  <2>1. n + 2 - (count + 1) = n + 1 - count /\ n + 1 - count \in 1 .. n
    BY <1>2
  <2>2. QED
    BY <1>1, <1>2, <2>1
<1>5. ASSUME NEW i \in 1 .. n + 1, i + (count + 1) + lim <= n + 2
      PROVE  a[i] + len <= start
  <2>1. i \in 1 .. n /\ i + count + lim <= n + 1
    BY <1>2, <1>5
  <2>2. QED
    BY <1>1, <1>2, <2>1
<1>6. Window(a, start, count + 1, len, lim, now)
  BY <1>1, <1>2, <1>3, <1>4, <1>5 DEF Window
<1>7. QED
  BY <1>6 DEF a

\* A grant that begins a window.
LEMMA GrantNewWindow ==
  ASSUME NEW q, NEW start, NEW count, NEW len \in Nat \ {0}, NEW lim \in Nat \ {0},
         NEW now \in Nat, Times(q, now), Window(q, start, count, len, lim, now),
         count = 0 \/ start + len <= now
  PROVE  Window(Append(q, now), now, 1, len, lim, now)
<1> DEFINE a == Append(q, now)
<1>0. PICK n \in Nat : n = Len(q)
  BY AppendTime
<1>1.   /\ Len(q) = n /\ DOMAIN q = 1 .. n /\ Len(a) = n + 1 /\ DOMAIN a = 1 .. n + 1
        /\ \A i \in 1 .. n : a[i] = q[i] /\ q[i] \in Nat
        /\ a[n + 1] = now
  BY <1>0, AppendTime
<1>2. /\ start \in Nat /\ count \in Nat /\ start <= now /\ count <= n /\ count <= lim
      /\ count = 0 => n = 0
      /\ count > 0 => q[n + 1 - count] = start
      /\ Spaced(q, len, lim)
  BY <1>1 DEF Window
<1>3. ASSUME NEW i \in 1 .. n, i + lim <= n + 1
      PROVE  q[i] + len <= now
  <2>1. count > 0 /\ start + len <= now
    BY <1>2
  <2>2. n + 1 - count \in 1 .. n /\ i <= n + 1 - count
    BY <1>2, <1>3, <2>1
  <2>3. q[i] <= q[n + 1 - count]
    BY <1>1, <2>2 DEF Times
  <2>4. q[i] <= start /\ q[i] \in Nat
    BY <1>1, <1>2, <2>1, <2>3
  <2>5. QED
    BY <1>2, <2>1, <2>4
<1>4. Spaced(a, len, lim)
  <2>1. ASSUME NEW i \in DOMAIN q, i + 2 * lim <= n + 2
        PROVE  q[i] + len <= now
    <3>1. i \in 1 .. n /\ i + lim <= n + 1
      BY <1>1, <2>1
    <3>2. QED
      BY <1>3, <3>1
  <2>2. QED
    BY <1>1, <1>2, <2>1, AppendSpaced
<1> HIDE DEF a
<1>5. ASSUME NEW i \in 1 .. n + 1, i + 1 + lim <= n + 2
      PROVE  a[i] + len <= now
  <2>1. i \in 1 .. n /\ i + lim <= n + 1
    BY <1>5
  <2>2. QED
    BY <1>1, <1>3, <2>1
<1>6. n + 2 - 1 = n + 1 /\ 1 <= n + 1
  OBVIOUS
<1>7. Window(a, now, 1, len, lim, now)
  BY <1>1, <1>4, <1>5, <1>6 DEF Window
<1>8. QED
  BY <1>7 DEF a

\* What is written for a window that was not full.
LEMMA WrittenIsWindow ==
  ASSUME NEW q, NEW r, NEW len \in Nat \ {0}, NEW lim \in Nat \ {0}, clock \in Nat,
         Times(q, clock), Window(q, r.start, r.count, len, lim, clock),
         Counted(r, clock, len) < lim
  PROVE  Window(Append(q, clock), Written(r, len).start, Written(r, len).count, len, lim, clock)
<1>1. r.start \in Nat /\ r.count \in Nat /\ r.start <= clock
  BY DEF Window
<1>2. CASE r.count = 0 \/ clock - r.start >= len
  <2>1. windowStart(r, clock, len) = clock /\ Counted(r, clock, len) = 0
    BY <1>1, <1>2 DEF windowStart, Counted
  <2>2. Written(r, len) = [start |-> clock, count |-> 1]
    BY <2>1 DEF Written
  <2>3. r.count = 0 \/ r.start + len <= clock
    BY <1>1, <1>2
  <2>4. QED
    BY <2>2, <2>3, GrantNewWindow
<1>3. CASE r.count # 0 /\ ~ (clock - r.start >= len)
  <2>1. windowStart(r, clock, len) = r.start /\ Counted(r, clock, len) = r.count
    BY <1>3 DEF windowStart, Counted
  <2>2. Written(r, len) = [start |-> r.start, count |-> r.count + 1]
    BY <2>1 DEF Written
  <2>3. r.count > 0 /\ r.count < lim
    BY <1>1, <1>3, <2>1
  <2>4. QED
    BY <2>2, <2>3, GrantInWindow
<1>4. QED
  BY <1>2, <1>3

\* The grants of a span are neighbours, and so fewer than 2 * lim.
LEMMA SpanBound ==
  ASSUME NEW q, NEW now \in Nat, Times(q, now), NEW len \in Nat \ {0},
         NEW lim \in Nat \ {0}, Spaced(q, len, lim), NEW t \in Nat
  PROVE  Cardinality({i \in DOMAIN q : q[i] >= t /\ q[i] < t + len}) < 2 * lim
<1> DEFINE S == {i \in DOMAIN q : q[i] >= t /\ q[i] < t + len}
<1>1. S \subseteq Nat /\ \A i \in S : q[i] \in Nat
  <2>1. Len(q) \in Nat /\ DOMAIN q = 1 .. Len(q) /\ \A i \in 1 .. Len(q) : q[i] \in Nat
    BY AppendTime
  <2>2. QED
    BY <2>1
<1>2. CASE S = {}
  BY <1>2, FS_EmptySet
<1>3. CASE S # {}
  <2>1. PICK m \in S : \A i \in S : m <= i
    <3> HIDE DEF S
    <3>1. QED
      BY <1>1, <1>3, FirstOf
  <2>2. ASSUME NEW i \in S PROVE i \in m .. m + (2 * lim - 2)
    <3>1. q[m] >= t /\ q[i] < t + len /\ q[m] \in Nat /\ q[i] \in Nat
      BY <1>1
    <3>2. ~ (q[m] + len <= q[i])
      BY <3>1
    <3>3. ~ (m + 2 * lim <= i + 1)
      BY <3>2 DEF Spaced
    <3>4. m \in Nat /\ i \in Nat /\ m <= i
      BY <1>1, <2>1
    <3>5. QED
      BY <3>3, <3>4
  <2>3. m \in Int /\ m + (2 * lim - 2) \in Int /\ m <= m + (2 * lim - 2)
    BY <1>1
  <2>4. /\ IsFiniteSet(m .. m + (2 * lim - 2))
        /\ Cardinality(m .. m + (2 * lim - 2)) = 2 * lim - 1
    <3>1. PICK b \in Int : b = m + (2 * lim - 2)
      BY <2>3
    <3>2. IsFiniteSet(m .. b) /\ Cardinality(m .. b) = IF m > b THEN 0 ELSE b - m + 1
      BY <2>3, FS_Interval
    <3>3. ~ (m > b) /\ b - m + 1 = 2 * lim - 1
      BY <2>3, <3>1
    <3>4. QED
      BY <3>1, <3>2, <3>3
  <2>5. Cardinality(S) <= 2 * lim - 1 /\ Cardinality(S) \in Nat
    <3>1. S \subseteq m .. m + (2 * lim - 2)
      BY <2>2
    <3> HIDE DEF S
    <3>2. QED
      BY <2>4, <3>1, FS_Subset, FS_CardinalityType
  <2>6. QED
    BY <2>5
<1>4. QED
  BY <1>2, <1>3

\* The rows of every key, and what they are rows of.
LimiterInv ==
  /\ clock \in Nat
  /\ buckets \in [Keys -> [minute : [start : Nat, count : Nat],
                           hour : [start : Nat, count : Nat]]]
  /\ consumed \in [Keys -> Seq(Nat)]
  /\ \A k \in Keys :
       /\ Times(consumed[k], clock)
       /\ Window(consumed[k], buckets[k].minute.start, buckets[k].minute.count,
                 MinuteTicks, LimitOf[k].perMinute, clock)
       /\ LimitOf[k].perHour # NoHour =>
            Window(consumed[k], buckets[k].hour.start, buckets[k].hour.count,
                   HourTicks, LimitOf[k].perHour, clock)

\* What a row knows of its window bounds the grants of every span.
LEMMA LimiterInvBounds ==
  ASSUME LimitsArePositive, LimiterInv
  PROVE  RateBounded
<1>1. ASSUME NEW k \in Keys, NEW t \in 0 .. clock
      PROVE  /\ GrantedWithin(k, t, MinuteTicks) < 2 * LimitOf[k].perMinute
             /\ LimitOf[k].perHour # NoHour =>
                  GrantedWithin(k, t, HourTicks) < 2 * LimitOf[k].perHour
  <2>1. /\ LimitOf[k].perMinute \in Nat \ {0} /\ LimitOf[k].perHour \in Nat
        /\ MinuteTicks \in Nat \ {0} /\ HourTicks \in Nat \ {0}
        /\ t \in Nat /\ clock \in Nat /\ Times(consumed[k], clock)
    BY DEF LimitsArePositive, LimiterInv
  <2>2. /\ Spaced(consumed[k], MinuteTicks, LimitOf[k].perMinute)
        /\ LimitOf[k].perHour # NoHour =>
             Spaced(consumed[k], HourTicks, LimitOf[k].perHour)
    BY DEF LimiterInv, Window
  <2>3. GrantedWithin(k, t, MinuteTicks) < 2 * LimitOf[k].perMinute
    BY <2>1, <2>2, SpanBound DEF GrantedWithin
  <2>4. ASSUME LimitOf[k].perHour # NoHour
        PROVE  GrantedWithin(k, t, HourTicks) < 2 * LimitOf[k].perHour
    BY <2>1, <2>2, <2>4, SpanBound DEF GrantedWithin, NoHour
  <2>5. QED
    BY <2>3, <2>4
<1>2. QED
  BY <1>1 DEF RateBounded

\* No row and no grant: the limiter begins in LimiterInv.
LEMMA LimiterInitInv ==
  ASSUME LimitsArePositive, LimiterInit
  PROVE  LimiterInv
BY DEF LimitsArePositive, LimiterInit, LimiterInv, NoRow, Times, Window, Spaced

\* A step that grants a unit of keys that have one.
LEMMA ChargeStep ==
  ASSUME LimitsArePositive, LimiterInv, NEW ks, \A k \in ks : Allowed(k),
         Charge(ks), clock' = clock
  PROVE  LimiterInv'
<1> USE DEF LimitsArePositive
<1>1. clock \in Nat /\ clock' = clock
  BY DEF LimiterInv
<1>2. ASSUME NEW k \in Keys, k \in ks
      PROVE  /\ consumed'[k] = Append(consumed[k], clock)
             /\ consumed'[k] \in Seq(Nat)
             /\ buckets'[k] = Charged(k)
             /\ Times(consumed'[k], clock)
             /\ Window(consumed'[k], buckets'[k].minute.start, buckets'[k].minute.count,
                       MinuteTicks, LimitOf[k].perMinute, clock)
             /\ LimitOf[k].perHour # NoHour =>
                  Window(consumed'[k], buckets'[k].hour.start, buckets'[k].hour.count,
                         HourTicks, LimitOf[k].perHour, clock)
             /\ LimitOf[k].perHour = NoHour => buckets'[k].hour = buckets[k].hour
  <2>1. consumed'[k] = Append(consumed[k], clock) /\ buckets'[k] = Charged(k)
    BY <1>2 DEF Charge
  <2>2. /\ Times(consumed[k], clock) /\ consumed[k] \in Seq(Nat)
        /\ Window(consumed[k], buckets[k].minute.start, buckets[k].minute.count,
                  MinuteTicks, LimitOf[k].perMinute, clock)
        /\ LimitOf[k].perHour # NoHour =>
             Window(consumed[k], buckets[k].hour.start, buckets[k].hour.count,
                    HourTicks, LimitOf[k].perHour, clock)
    BY DEF LimiterInv
  <2>3. /\ Counted(buckets[k].minute, clock, MinuteTicks) < LimitOf[k].perMinute
        /\ LimitOf[k].perHour # NoHour =>
             Counted(buckets[k].hour, clock, HourTicks) < LimitOf[k].perHour
    BY <1>2 DEF Allowed
  <2>4. /\ LimitOf[k].perMinute \in Nat \ {0} /\ MinuteTicks \in Nat \ {0}
        /\ HourTicks \in Nat \ {0} /\ LimitOf[k].perHour \in Nat
    OBVIOUS
  <2>5. /\ buckets'[k].minute = Written(buckets[k].minute, MinuteTicks)
        /\ LimitOf[k].perHour # NoHour =>
             buckets'[k].hour = Written(buckets[k].hour, HourTicks)
        /\ LimitOf[k].perHour = NoHour => buckets'[k].hour = buckets[k].hour
    BY <2>1 DEF Charged
  <2>6. Window(Append(consumed[k], clock),
               Written(buckets[k].minute, MinuteTicks).start,
               Written(buckets[k].minute, MinuteTicks).count,
               MinuteTicks, LimitOf[k].perMinute, clock)
    BY <1>1, <2>2, <2>3, <2>4, WrittenIsWindow
  <2>7. LimitOf[k].perHour # NoHour =>
          Window(Append(consumed[k], clock),
                 Written(buckets[k].hour, HourTicks).start,
                 Written(buckets[k].hour, HourTicks).count,
                 HourTicks, LimitOf[k].perHour, clock)
    <3>1. LimitOf[k].perHour # NoHour => LimitOf[k].perHour \in Nat \ {0}
      BY <2>4 DEF NoHour
    <3>2. QED
      BY <1>1, <2>2, <2>3, <2>4, <3>1, WrittenIsWindow
  <2>8. Times(Append(consumed[k], clock), clock) /\ Append(consumed[k], clock) \in Seq(Nat)
    BY <1>1, <2>2, AppendTime
  <2>9. QED
    BY <2>1, <2>5, <2>6, <2>7, <2>8
<1>3. ASSUME NEW k \in Keys, k \notin ks
      PROVE  consumed'[k] = consumed[k] /\ buckets'[k] = buckets[k]
  BY <1>3 DEF Charge
<1>4. buckets' \in [Keys -> [minute : [start : Nat, count : Nat],
                             hour : [start : Nat, count : Nat]]]
  <2>1. ASSUME NEW k \in Keys
        PROVE  buckets'[k] \in [minute : [start : Nat, count : Nat],
                                hour : [start : Nat, count : Nat]]
    <3>1. buckets[k] \in [minute : [start : Nat, count : Nat],
                          hour : [start : Nat, count : Nat]]
      BY DEF LimiterInv
    <3>2. CASE k \in ks
      <4>1. /\ buckets'[k] = Charged(k)
            /\ buckets'[k].minute.start \in Nat /\ buckets'[k].minute.count \in Nat
            /\ LimitOf[k].perHour # NoHour =>
                 buckets'[k].hour.start \in Nat /\ buckets'[k].hour.count \in Nat
        BY <1>2, <3>2 DEF Window
      <4>2. QED
        BY <3>1, <4>1 DEF Charged, Written
    <3>3. QED
      BY <1>3, <3>1, <3>2
  <2>2. buckets' = [k \in Keys |-> IF k \in ks THEN Charged(k) ELSE buckets[k]]
    BY DEF Charge
  <2>3. QED
    BY <2>1, <2>2
<1>5. consumed' \in [Keys -> Seq(Nat)]
  <2>1. consumed' = [k \in Keys |-> IF k \in ks THEN Append(consumed[k], clock)
                                    ELSE consumed[k]]
    BY DEF Charge
  <2>2. \A k \in Keys : consumed'[k] \in Seq(Nat)
    BY <1>2, <1>3 DEF LimiterInv
  <2>3. QED
    BY <2>1, <2>2
<1>6. QED
  BY <1>1, <1>2, <1>3, <1>4, <1>5 DEF LimiterInv

\* The clock alone lets rows grow old and grants nothing.
LEMMA TimePasses ==
  ASSUME LimitsArePositive, LimiterInv, UNCHANGED <<buckets, consumed>>,
         clock' = clock \/ clock' = clock + 1
  PROVE  LimiterInv'
<1>1. clock \in Nat /\ clock' \in Nat /\ clock <= clock'
  BY DEF LimiterInv
<1>2. ASSUME NEW q, Times(q, clock) PROVE Times(q, clock')
  <2>1. \A i \in DOMAIN q : q[i] \in Nat /\ q[i] <= clock
    BY <1>2 DEF Times
  <2>2. QED
    BY <1>1, <1>2, <2>1 DEF Times
<1>3. ASSUME NEW q, NEW s, NEW c, NEW len, NEW lim, Window(q, s, c, len, lim, clock)
      PROVE  Window(q, s, c, len, lim, clock')
  BY <1>1, <1>3 DEF Window
<1>4. QED
  BY <1>1, <1>2, <1>3 DEF LimiterInv

\* Whoever asks and whenever: less than twice the limit is granted in any span
\* as long as a window.
THEOREM LimiterBounded ==
  ASSUME LimitsArePositive
  PROVE  LimiterInit /\ [][LimiterNext]_limiterVars => []RateBounded
<1>1. LimiterInit => LimiterInv
  BY LimiterInitInv
<1>2. LimiterInv /\ [LimiterNext]_limiterVars => LimiterInv'
  BY ChargeStep, TimePasses DEF LimiterNext, LimiterTick, consume, limiterVars
<1>3. LimiterInv => RateBounded
  BY LimiterInvBounds
<1>4. QED
  BY <1>1, <1>2, <1>3, PTL

\* Inside a channel the rows move only by accept's call of the limiter.
LEMMA ChannelLimiterStep ==
  ASSUME LimitsArePositive, LimiterInv, [Next]_vars
  PROVE  LimiterInv'
<1>1. ASSUME NEW m \in Inbounds, deny(m) PROVE LimiterInv'
  BY <1>1, ChargeStep, TimePasses DEF deny
<1>2. ASSUME NEW m \in Inbounds, accept(m) PROVE LimiterInv'
  <2>1. \A k \in {SenderKey(m), AccountKey(m)} : Allowed(k)
    BY <1>2 DEF accept
  <2>2. QED
    BY <1>2, <2>1, ChargeStep DEF accept
<1>3. ASSUME UNCHANGED limiterVars \/ LimiterTick PROVE LimiterInv'
  BY <1>3, TimePasses DEF limiterVars, LimiterTick
<1>4. QED
  BY <1>1, <1>2, <1>3
  DEF Next, vars, receive, parseWebhook, clientTurn, endTurn, afterTurn,
      sendMessage, addAccount, addAccountEnds, removeAccount, removeAccountEnds,
      evict, tick

\* The same of the channel, whose messages take a unit of two keys at a time or,
\* refused for the second, of the first alone.
THEOREM ChannelBounded ==
  ASSUME LimitsArePositive
  PROVE  Spec => []RateBounded
<1>1. Init => LimiterInv
  BY LimiterInitInv DEF Init
<1>2. LimiterInv /\ [Next]_vars => LimiterInv'
  BY ChannelLimiterStep
<1>3. LimiterInv => RateBounded
  BY LimiterInvBounds
<1>4. QED
  BY <1>1, <1>2, <1>3, PTL DEF Spec

-----------------------------------------------------------------------------
(***************************************************************************)
(* ChunksFit: whatever is left to send of a reply came from chunkMessage.  *)
(***************************************************************************)
Fits(s) ==
  /\ s \in Seq(Nat) /\ Len(s) <= MAX_CHUNKS
  /\ \A i \in DOMAIN s : s[i] <= MAX_MESSAGE_LENGTH

\* chunkMessage's chunks are at most MAX_CHUNKS, and each is short enough to send.
LEMMA ChunkMessageFits ==
  ASSUME ChannelConstants, NEW n \in Nat
  PROVE  Fits(chunkMessage(n))
<1> DEFINE M == MAX_MESSAGE_LENGTH
           full == n \div M + (IF n % M = 0 THEN 0 ELSE 1)
<1>1. M \in Nat /\ M > 0 /\ MAX_CHUNKS \in Nat /\ MAX_CHUNKS > 0
      /\ SuffixLength \in Nat /\ SuffixLength <= M
  BY DEF ChannelConstants
<1> HIDE DEF M
<1>2. /\ full \in Nat
      /\ n <= M * MAX_CHUNKS => full <= MAX_CHUNKS
      /\ n + M > full * M
  <2>1. PICK d \in Nat : d = n \div M
    BY <1>1
  <2>2. PICK e \in Nat : e = n % M
    BY <1>1
  <2>3. n = M * d + e /\ e < M
    BY <1>1, <2>1, <2>2
  <2>4. CASE e = 0
    <3>1. full = d
      BY <2>1, <2>2, <2>4
    <3>2. n = M * d
      BY <1>1, <2>3, <2>4
    <3>3. M * d <= M * MAX_CHUNKS => d <= MAX_CHUNKS
      BY <1>1, Z3
    <3> HIDE DEF full
    <3>4. QED
      BY <1>1, <3>1, <3>2, <3>3
  <2>5. CASE e # 0
    <3>1. full = d + 1
      BY <2>1, <2>2, <2>5
    <3>2. n > M * d /\ n + M > (d + 1) * M
      BY <1>1, <2>3, <2>5, Z3
    <3>3. M * d < M * MAX_CHUNKS => d + 1 <= MAX_CHUNKS
      BY <1>1, Z3
    <3>4. M * d \in Nat /\ M * MAX_CHUNKS \in Nat
      BY <1>1
    <3> HIDE DEF full
    <3>5. QED
      BY <1>1, <3>1, <3>2, <3>3, <3>4
  <2>6. QED
    BY <2>4, <2>5
<1> HIDE DEF full
<1>3. CASE n = 0
  BY <1>1, <1>3 DEF chunkMessage, Fits, M
<1>4. CASE n # 0 /\ n <= M * MAX_CHUNKS
  <2> DEFINE s == [i \in 1 .. full |-> Least(M, n - (i - 1) * M)]
  <2>1. chunkMessage(n) = s
    BY <1>4 DEF chunkMessage, full, M
  <2>2. ASSUME NEW i \in 1 .. full
        PROVE  Least(M, n - (i - 1) * M) \in Nat /\ Least(M, n - (i - 1) * M) <= M
    <3>1. (i - 1) * M <= (full - 1) * M /\ (full - 1) * M = full * M - M
      BY <1>1, <1>2, Z3
    <3>2. (i - 1) * M \in Int /\ full * M \in Int
      BY <1>1, <1>2
    <3>3. n - (i - 1) * M > 0
      BY <1>1, <1>2, <3>1, <3>2
    <3>4. QED
      BY <1>1, <3>2, <3>3 DEF Least
  <2>3. s \in [1 .. full -> Nat] /\ \A i \in 1 .. full : s[i] <= M
    BY <2>2
  <2> HIDE DEF s
  <2>4. s \in Seq(Nat) /\ Len(s) = full /\ DOMAIN s = 1 .. full
    BY <1>2, <2>3
  <2>5. QED
    BY <1>2, <1>4, <2>1, <2>3, <2>4 DEF Fits, M
<1>5. CASE ~ (n <= M * MAX_CHUNKS)
  <2> DEFINE s == [i \in 1 .. MAX_CHUNKS |->
                     IF i < MAX_CHUNKS THEN M ELSE lastBudget + SuffixLength]
  <2>1. chunkMessage(n) = s
    <3>1. n # 0
      BY <1>1, <1>5
    <3>2. QED
      BY <1>5, <3>1 DEF chunkMessage, M
  <2>2. lastBudget + SuffixLength = M
    BY <1>1 DEF lastBudget, M
  <2>3. s \in [1 .. MAX_CHUNKS -> Nat] /\ \A i \in 1 .. MAX_CHUNKS : s[i] <= M
    BY <1>1, <2>2
  <2> HIDE DEF s
  <2>4. s \in Seq(Nat) /\ Len(s) = MAX_CHUNKS /\ DOMAIN s = 1 .. MAX_CHUNKS
    BY <1>1, <2>3
  <2>5. QED
    BY <1>1, <2>1, <2>3, <2>4 DEF Fits, M
<1>6. QED
  BY <1>3, <1>4, <1>5

\* What is left of an answer after a chunk was sent still fits.
LEMMA TailFits ==
  ASSUME NEW s, Fits(s), MAX_CHUNKS \in Nat, Len(s) > 1
  PROVE  Fits(Tail(s))
<1>1. /\ s \in Seq(Nat) /\ Len(s) \in Nat /\ Tail(s) \in Seq(Nat) /\ Len(Tail(s)) = Len(s) - 1
      /\ \A i \in DOMAIN Tail(s) : i + 1 \in DOMAIN s /\ Tail(s)[i] = s[i + 1]
  BY DEF Fits
<1>2. QED
  BY <1>1 DEF Fits

-----------------------------------------------------------------------------
(***************************************************************************)
(* AnsweredOnce.  What stands for the answer to a message is in one place  *)
(* at a time, and pc tells in which kind: "running" is the session's turn, *)
(* "done" a record of the hook, the reply or the end.  The order of the    *)
(* messages is kept as a relation, since Place is a choice.                *)
(***************************************************************************)
\* m was stashed, and n not before it.
NotBefore(q, m, n) ==
  \E i, j \in DOMAIN q : i <= j /\ q[i] = m /\ q[j] = n

Owners == Inbounds \cup {Client}

Text == [kind : {"error", "answer"}, size : Nat]

ReplyRecord == [owner : Owners, to : Inbounds, text : Text, todo : {s \in Seq(Nat) : Fits(s)}]

AnswerTypes ==
  /\ pc \in [Inbounds -> {"unsent", "parsing", "refused", "ignored", "denied",
                          "running", "done", "lost"}]
  /\ run \in [Senders -> Owners \cup {Nobody}]
  /\ stash \in [Senders -> Inbounds \cup {Nobody}]
  /\ after \subseteq [owner : Owners, session : Senders, text : Text]
  /\ sending \subseteq ReplyRecord
  /\ sent \subseteq [owner : Owners, to : Inbounds, text : Text]

\* A message enters the order once, when it is accepted.
OrderOf(q, p) ==
  /\ q \in Seq(Inbounds)
  /\ \A i, j \in DOMAIN q : q[i] = q[j] => i = j
  /\ \A i \in DOMAIN q : p[q[i]] \in {"running", "done", "lost"}
  /\ \A m \in Inbounds : p[m] \in {"running", "done"} => \E i \in DOMAIN q : q[i] = m

\* One record of S for a message, and none of both S and T.
Single(S) ==
  \A x, y \in S : x.owner \in Inbounds /\ x.owner = y.owner => x = y
Apart(S, T) ==
  \A x \in S, y \in T : x.owner \in Inbounds => x.owner # y.owner

Holders ==
  /\ Single(after) /\ Single(sending) /\ Single(sent)
  /\ Apart(after, sending) /\ Apart(after, sent) /\ Apart(sending, sent)
  /\ \A x \in after \cup sending \cup sent :
       x.owner \in Inbounds => pc[x.owner] = "done" /\ x.owner \notin dropped
  /\ \A m \in dropped \cap Inbounds : pc[m] = "done"
  /\ \A m \in Inbounds : pc[m] = "done" =>
       \/ m \in dropped
       \/ \E x \in after \cup sending \cup sent : x.owner = m
  /\ \A m \in Inbounds : pc[m] = "running" => run[SenderOf[m]] = m
  /\ \A s \in Senders : run[s] \in Inbounds => s = SenderOf[run[s]] /\ pc[run[s]] = "running"

\* A turn, a hook and a reply belong to the message they answer or a later one.
LaterTarget ==
  /\ \A s \in Senders : run[s] \in Inbounds => NotBefore(order, run[s], stash[s])
  /\ \A d \in after : d.owner \in Inbounds => NotBefore(order, d.owner, stash[d.session])
  /\ \A r \in sending \cup sent : r.owner \in Inbounds => NotBefore(order, r.owner, r.to)

AnswerInv == AnswerTypes /\ OrderOf(order, pc) /\ Holders /\ LaterTarget

\* The invariant says what the property does in terms of numbers and places.
LEMMA AnswerInvImplies ==
  ASSUME ChannelConstants, AnswerInv
  PROVE  ChannelAnswers
<1>1. ASSUME NEW m \in Accepted, pc[m] # "lost"
      PROVE  Answers(m) = 1
  <2>1. m \in Inbounds /\ pc[m] \in {"running", "done"}
    BY <1>1 DEF Accepted, AnswerInv, OrderOf
  <2> DEFINE X == {x \in after \cup sending \cup sent : x.owner = m}
             Y == {x \in dropped : x = m}
             Z == {s \in Senders : run[s] = m}
  <2>2. CASE pc[m] = "running"
    <3>1. X = {} /\ Y = {}
      BY <2>1, <2>2 DEF AnswerInv, Holders
    <3>2. Z = {SenderOf[m]}
      BY <2>1, <2>2 DEF AnswerInv, Holders, Senders
    <3> HIDE DEF X, Y, Z
    <3>3. Cardinality(X) = 0 /\ Cardinality(Y) = 0 /\ Cardinality(Z) = 1
      BY <3>1, <3>2, FS_EmptySet, FS_Singleton
    <3>4. QED
      BY <3>3 DEF Answers, X, Y, Z
  <2>3. CASE pc[m] = "done" /\ m \in dropped
    <3>1. X = {} /\ Y = {m}
      BY <2>1, <2>3 DEF AnswerInv, Holders
    <3>2. Z = {}
      BY <2>1, <2>3 DEF AnswerInv, Holders
    <3> HIDE DEF X, Y, Z
    <3>3. Cardinality(X) = 0 /\ Cardinality(Y) = 1 /\ Cardinality(Z) = 0
      BY <3>1, <3>2, FS_EmptySet, FS_Singleton
    <3>4. QED
      BY <3>3 DEF Answers, X, Y, Z
  <2>4. CASE pc[m] = "done" /\ m \notin dropped
    <3>1. PICK x \in after \cup sending \cup sent : x.owner = m
      BY <2>1, <2>4 DEF AnswerInv, Holders
    <3>2. X = {x}
      BY <2>1, <3>1 DEF AnswerInv, Holders, Single, Apart
    <3>3. Y = {} /\ Z = {}
      BY <2>1, <2>4 DEF AnswerInv, Holders
    <3> HIDE DEF X, Y, Z
    <3>4. Cardinality(X) = 1 /\ Cardinality(Y) = 0 /\ Cardinality(Z) = 0
      BY <3>2, <3>3, FS_EmptySet, FS_Singleton
    <3>5. QED
      BY <3>4 DEF Answers, X, Y, Z
  <2>5. QED
    BY <2>1, <2>2, <2>3, <2>4
<1>2. ASSUME NEW r \in sending \cup sent, r.owner # Client
      PROVE  Place(r.to) >= Place(r.owner)
  <2>1. r.owner \in Inbounds
    BY <1>2 DEF AnswerInv, AnswerTypes, ReplyRecord, Owners
  <2>2. PICK i \in DOMAIN order, j \in DOMAIN order :
          i <= j /\ order[i] = r.owner /\ order[j] = r.to
    BY <1>2, <2>1 DEF AnswerInv, LaterTarget, NotBefore
  <2>3. Place(r.owner) = i /\ Place(r.to) = j
    BY <2>2 DEF Place, AnswerInv, OrderOf
  <2>4. i \in Nat /\ j \in Nat
    BY DEF AnswerInv, OrderOf
  <2>5. QED
    BY <2>2, <2>3, <2>4
<1>3. ChunksFit
  BY DEF ChunksFit, AnswerInv, AnswerTypes, ReplyRecord, Fits
<1>4. QED
  BY <1>1, <1>2, <1>3 DEF ChannelAnswers, AnsweredOnce

\* A channel that nobody has written to is in AnswerInv.
LEMMA InitAnswerInv ==
  ASSUME ChannelConstants, Init
  PROVE  AnswerInv
BY DEF Init, ChannelConstants, AnswerInv, AnswerTypes, OrderOf, Holders, Single,
       Apart, LaterTarget, Owners

\* Steps that touch no answer: a message on its way in may be turned away.
LEMMA NoAnswerTouched ==
  ASSUME AnswerInv, AnswerTypes',
         UNCHANGED <<run, stash, after, sending, sent, dropped, order>>,
         \A m \in Inbounds :
           pc'[m] = pc[m] \/ (pc[m] \in {"unsent", "parsing"} /\
                              pc'[m] \in {"parsing", "refused", "ignored", "denied"})
  PROVE  AnswerInv'
<1>1. OrderOf(order', pc')
  BY DEF AnswerInv, OrderOf
<1>2. Holders'
  BY DEF AnswerInv, Holders
<1>3. LaterTarget'
  BY DEF AnswerInv, LaterTarget
<1>4. QED
  BY <1>1, <1>2, <1>3 DEF AnswerInv

\* What was in order stays so, and the new message comes after all of it.
LEMMA AppendOrder ==
  ASSUME NEW q \in Seq(Inbounds), NEW m \in Inbounds
  PROVE  /\ \A a, b : NotBefore(q, a, b) => NotBefore(Append(q, m), a, b)
         /\ \A a : (\E i \in DOMAIN q : q[i] = a) => NotBefore(Append(q, m), a, m)
         /\ NotBefore(Append(q, m), m, m)
<1>1. /\ DOMAIN Append(q, m) = DOMAIN q \cup {Len(q) + 1}
      /\ \A i \in DOMAIN q : Append(q, m)[i] = q[i] /\ i <= Len(q) + 1
      /\ Append(q, m)[Len(q) + 1] = m /\ Len(q) + 1 <= Len(q) + 1
  OBVIOUS
<1>2. QED
  BY <1>1 DEF NotBefore

\* A reply carries the inbound whose turn it answers.
LEMMA ReplyTyped ==
  ASSUME ChannelConstants, NEW m \in Owners, NEW to \in Inbounds, NEW text \in Text
  PROVE  Reply(m, to, text) \in ReplyRecord /\ Reply(m, to, text).owner = m
         /\ Reply(m, to, text).to = to
<1>1. Fits(chunkMessage(text.size))
  BY ChunkMessageFits DEF Text
<1>2. chunkMessage(text.size) \in Seq(Nat)
  BY <1>1 DEF Fits
<1>3. QED
  BY <1>1, <1>2 DEF Reply, ReplyRecord

\* The error text and the answers of turns are texts.
LEMMA ErrorIsText == Error \in Text /\ \A n \in Nat : Answer(n) \in Text
BY DEF Error, Answer, Text

\* The message enters the order: it had no answer before, and is the latest.
LEMMA AcceptOrder ==
  ASSUME ChannelConstants, AnswerInv, NEW m \in Inbounds, accept(m)
  PROVE  /\ order' = Append(order, m) /\ order \in Seq(Inbounds)
         /\ \A i \in DOMAIN order : order[i] # m
         /\ OrderOf(order', pc')
         /\ pc[m] = "parsing" /\ stash' = [stash EXCEPT ![SenderOf[m]] = m]
         /\ \E w \in {"running", "done"} : pc' = [pc EXCEPT ![m] = w]
<1>1. /\ order' = Append(order, m) /\ order \in Seq(Inbounds) /\ pc[m] = "parsing"
      /\ stash' = [stash EXCEPT ![SenderOf[m]] = m]
      /\ \A i \in DOMAIN order : order[i] # m
  BY DEF accept, AnswerInv, OrderOf
<1>2. PICK w \in {"running", "done"} : pc' = [pc EXCEPT ![m] = w]
  BY DEF accept, promptStarts, promptFails, Goto
<1>3. /\ order' \in Seq(Inbounds)
      /\ DOMAIN order' = DOMAIN order \cup {Len(order) + 1}
      /\ \A i \in DOMAIN order : order'[i] = order[i] /\ i # Len(order) + 1
      /\ order'[Len(order) + 1] = m
  BY <1>1
<1>4. pc'[m] = w /\ \A n \in Inbounds \ {m} : pc'[n] = pc[n]
  BY <1>2 DEF AnswerInv, AnswerTypes
<1>5. OrderOf(order', pc')
  <2>1. \A i, j \in DOMAIN order' : order'[i] = order'[j] => i = j
    BY <1>1, <1>3 DEF AnswerInv, OrderOf
  <2>2. \A i \in DOMAIN order' : pc'[order'[i]] \in {"running", "done", "lost"}
    BY <1>1, <1>3, <1>4 DEF AnswerInv, OrderOf
  <2>3. ASSUME NEW n \in Inbounds, pc'[n] \in {"running", "done"}
        PROVE  \E i \in DOMAIN order' : order'[i] = n
    <3>1. CASE n = m
      BY <1>3, <3>1
    <3>2. CASE n # m
      <4>1. PICK i \in DOMAIN order : order[i] = n
        BY <1>4, <2>3, <3>2 DEF AnswerInv, OrderOf
      <4>2. QED
        BY <1>3, <4>1
    <3>3. QED
      BY <3>1, <3>2
  <2>4. QED
    BY <1>3, <2>1, <2>2, <2>3 DEF OrderOf
<1>6. QED
  BY <1>1, <1>2, <1>5

\* The stash that accept writes is not older than the message it is of.
LEMMA AcceptTarget ==
  ASSUME ChannelConstants, AnswerInv, NEW m \in Inbounds, accept(m)
  PROVE  LaterTarget'
<1>1. /\ order' = Append(order, m) /\ order \in Seq(Inbounds)
      /\ stash' = [stash EXCEPT ![SenderOf[m]] = m]
  BY AcceptOrder
<1>2. /\ stash \in [Senders -> Inbounds \cup {Nobody}] /\ run \in [Senders -> Owners \cup {Nobody}]
      /\ after \subseteq [owner : Owners, session : Senders, text : Text]
      /\ SenderOf[m] \in Senders
  BY DEF AnswerInv, AnswerTypes, Senders
<1>3. /\ \A a, b : NotBefore(order, a, b) => NotBefore(order', a, b)
      /\ \A a, b : NotBefore(order, a, b) => NotBefore(order', a, m)
      /\ NotBefore(order', m, m)
  <2>1. \A a, b : NotBefore(order, a, b) => \E i \in DOMAIN order : order[i] = a
    BY DEF NotBefore
  <2>2. QED
    BY <1>1, <2>1, AppendOrder
<1>4. \A s \in Senders : stash'[s] = stash[s] \/ stash'[s] = m
  BY <1>1, <1>2
<1>5. ASSUME NEW a, NEW s \in Senders, NotBefore(order, a, stash[s])
      PROVE  NotBefore(order', a, stash'[s])
  BY <1>3, <1>4, <1>5
<1>6. CASE promptStarts(m)
  <2>1. /\ run' = [run EXCEPT ![SenderOf[m]] = m]
        /\ UNCHANGED <<after, sending, sent>>
    BY <1>6 DEF promptStarts, replyVars
  <2>2. ASSUME NEW s \in Senders, run'[s] \in Inbounds
        PROVE  NotBefore(order', run'[s], stash'[s])
    <3>1. CASE s = SenderOf[m]
      BY <1>1, <1>2, <1>3, <2>1, <3>1
    <3>2. CASE s # SenderOf[m]
      BY <1>2, <1>5, <2>1, <2>2, <3>2 DEF AnswerInv, LaterTarget
    <3>3. QED
      BY <3>1, <3>2
  <2>3. \A d \in after' : d.owner \in Inbounds => NotBefore(order', d.owner, stash'[d.session])
    BY <1>2, <1>5, <2>1 DEF AnswerInv, LaterTarget
  <2>4. \A r \in sending' \cup sent' : r.owner \in Inbounds => NotBefore(order', r.owner, r.to)
    BY <1>3, <2>1 DEF AnswerInv, LaterTarget
  <2>5. QED
    BY <2>2, <2>3, <2>4 DEF LaterTarget
<1>7. CASE promptFails(m)
  <2>1. sending' = sending \cup {Reply(m, m, Error)} /\ UNCHANGED <<after, sent, run>>
    BY <1>7 DEF promptFails
  <2>2. Reply(m, m, Error).owner = m /\ Reply(m, m, Error).to = m
    BY DEF Reply
  <2>3. \A s \in Senders : run'[s] \in Inbounds => NotBefore(order', run'[s], stash'[s])
    BY <1>5, <2>1 DEF AnswerInv, LaterTarget
  <2>4. \A d \in after' : d.owner \in Inbounds => NotBefore(order', d.owner, stash'[d.session])
    BY <1>2, <1>5, <2>1 DEF AnswerInv, LaterTarget
  <2>5. \A r \in sending' \cup sent' : r.owner \in Inbounds => NotBefore(order', r.owner, r.to)
    BY <1>3, <2>1, <2>2 DEF AnswerInv, LaterTarget
  <2>6. QED
    BY <2>3, <2>4, <2>5 DEF LaterTarget
<1>8. QED
  BY <1>6, <1>7 DEF accept

\* A webhook preserves AnswerInv, whether it lets its message pass or not.
LEMMA AcceptStep ==
  ASSUME ChannelConstants, AnswerInv, NEW m \in Inbounds, accept(m)
  PROVE  AnswerInv'
<1>1. /\ pc[m] = "parsing" /\ OrderOf(order', pc') /\ LaterTarget'
      /\ stash' = [stash EXCEPT ![SenderOf[m]] = m]
  BY AcceptOrder, AcceptTarget
<1>2. /\ m \in Owners /\ SenderOf[m] \in Senders /\ m # Nobody
      /\ m \notin dropped /\ \A x \in after \cup sending \cup sent : x.owner # m
      /\ \A s \in Senders : run[s] # m
  BY <1>1 DEF Owners, Senders, ChannelConstants, AnswerInv, Holders
<1>3. CASE promptStarts(m)
  <2>1. /\ run[SenderOf[m]] = Nobody /\ run' = [run EXCEPT ![SenderOf[m]] = m]
        /\ pc' = [pc EXCEPT ![m] = "running"] /\ UNCHANGED replyVars
    BY <1>3 DEF promptStarts, Goto
  <2>2. AnswerTypes'
    BY <1>1, <1>2, <2>1 DEF AnswerInv, AnswerTypes, replyVars
  <2>3. Holders'
    <3>1. /\ pc'[m] = "running" /\ \A n \in Inbounds \ {m} : pc'[n] = pc[n]
          /\ run'[SenderOf[m]] = m
          /\ \A s \in Senders \ {SenderOf[m]} : run'[s] = run[s]
      BY <1>2, <2>1 DEF AnswerInv, AnswerTypes
    <3>2. /\ \A n \in Inbounds : pc'[n] = "running" => run'[SenderOf[n]] = n
          /\ \A s \in Senders : run'[s] \in Inbounds =>
               s = SenderOf[run'[s]] /\ pc'[run'[s]] = "running"
      <4>1. ASSUME NEW n \in Inbounds \ {m}, pc[n] = "running"
            PROVE  run'[SenderOf[n]] = n
        BY <2>1, <3>1, <4>1 DEF AnswerInv, Holders, Senders, ChannelConstants
      <4>2. QED
        BY <1>2, <3>1, <4>1 DEF AnswerInv, Holders
    <3>3. QED
      BY <1>1, <1>2, <2>1, <3>1, <3>2 DEF AnswerInv, Holders, replyVars
  <2>4. QED
    BY <1>1, <2>2, <2>3 DEF AnswerInv
<1>4. CASE promptFails(m)
  <2> DEFINE r == Reply(m, m, Error)
  <2>1. /\ sending' = sending \cup {r} /\ UNCHANGED <<after, sent, dropped, run>>
        /\ pc' = [pc EXCEPT ![m] = "done"]
    BY <1>4 DEF promptFails, Goto
  <2>2. r \in ReplyRecord /\ r.owner = m
    BY <1>2, ReplyTyped, ErrorIsText
  <2> HIDE DEF r
  <2>3. AnswerTypes'
    BY <1>1, <1>2, <2>1, <2>2 DEF AnswerInv, AnswerTypes
  <2>4. Holders'
    <3>1. pc'[m] = "done" /\ \A n \in Inbounds \ {m} : pc'[n] = pc[n]
      BY <2>1 DEF AnswerInv, AnswerTypes
    <3>2. Single(sending') /\ Apart(after', sending') /\ Apart(sending', sent')
      BY <1>2, <2>1, <2>2 DEF AnswerInv, Holders, Single, Apart
    <3>3. QED
      BY <1>1, <1>2, <2>1, <2>2, <3>1, <3>2 DEF AnswerInv, Holders
  <2>5. QED
    BY <1>1, <2>3, <2>4 DEF AnswerInv
<1>5. QED
  BY <1>3, <1>4 DEF accept

\* The turn ends and its hook is to be called.
LEMMA EndTurnStep ==
  ASSUME ChannelConstants, AnswerInv, NEW s \in Senders, endTurn(s)
  PROVE  AnswerInv'
<1>1. PICK n \in Lengths \cup {0} :
        after' = after \cup {[owner |-> run[s], session |-> s, text |-> Answer(n)]}
  BY DEF endTurn
<1> DEFINE d == [owner |-> run[s], session |-> s, text |-> Answer(n)]
<1>2. /\ run[s] # Nobody /\ run' = [run EXCEPT ![s] = Nobody]
      /\ pc' = IF run[s] = Client THEN pc ELSE [pc EXCEPT ![run[s]] = "done"]
      /\ UNCHANGED <<sending, sent, dropped, stash, order>>
  BY DEF endTurn
<1>3. run[s] \in Owners /\ d.owner = run[s] /\ d.session = s
      /\ d \in [owner : Owners, session : Senders, text : Text]
  <2>1. n \in Nat
    BY DEF ChannelConstants
  <2>2. run[s] \in Owners
    BY <1>2 DEF AnswerInv, AnswerTypes
  <2>3. QED
    BY <2>1, <2>2, ErrorIsText
<1>4. after' = after \cup {d}
  BY <1>1
<1> HIDE DEF d
<1>5. AnswerTypes'
  BY <1>2, <1>3, <1>4 DEF AnswerInv, AnswerTypes, Owners
<1>6. run' \in [Senders -> Owners \cup {Nobody}] /\ run'[s] = Nobody
      /\ \A u \in Senders \ {s} : run'[u] = run[u]
  BY <1>2, <1>5 DEF AnswerInv, AnswerTypes
<1>7. LaterTarget'
  BY <1>2, <1>3, <1>4, <1>6 DEF AnswerInv, LaterTarget, ChannelConstants
<1>8. CASE run[s] = Client
  <2>1. pc' = pc /\ run[s] \notin Inbounds
    BY <1>2, <1>8 DEF ChannelConstants
  <2>2. OrderOf(order', pc')
    BY <1>2, <2>1 DEF AnswerInv
  <2>3. Holders'
    <3>1. Single(after') /\ Apart(after', sending') /\ Apart(after', sent')
      BY <1>2, <1>3, <1>4, <2>1 DEF AnswerInv, Holders, Single, Apart
    <3>2. \A m \in Inbounds : pc[m] = "running" => SenderOf[m] # s
      BY <2>1 DEF AnswerInv, Holders
    <3>3. QED
      BY <1>2, <1>3, <1>4, <1>6, <2>1, <3>1, <3>2
      DEF AnswerInv, Holders, ChannelConstants, Senders
  <2>4. QED
    BY <1>5, <1>7, <2>2, <2>3 DEF AnswerInv
<1>9. CASE run[s] # Client
  <2> DEFINE m == run[s]
  <2>1. /\ m \in Inbounds /\ pc' = [pc EXCEPT ![m] = "done"]
        /\ s = SenderOf[m] /\ pc[m] = "running"
    BY <1>2, <1>3, <1>9 DEF Owners, AnswerInv, Holders
  <2>2. /\ m \notin dropped /\ \A x \in after \cup sending \cup sent : x.owner # m
        /\ d.owner = m
    BY <1>3, <2>1 DEF AnswerInv, Holders
  <2> HIDE DEF m
  <2>3. pc'[m] = "done" /\ \A u \in Inbounds \ {m} : pc'[u] = pc[u]
    BY <2>1 DEF AnswerInv, AnswerTypes
  <2>4. OrderOf(order', pc')
    BY <1>2, <2>1, <2>3 DEF AnswerInv, OrderOf
  <2>5. Holders'
    <3>1. Single(after') /\ Apart(after', sending') /\ Apart(after', sent')
      BY <1>2, <1>4, <2>2 DEF AnswerInv, Holders, Single, Apart
    <3>2. \A u \in Inbounds : pc'[u] = "running" => u # m /\ pc[u] = "running" /\ SenderOf[u] # s
      BY <2>1, <2>3 DEF AnswerInv, Holders, m
    <3>3. /\ \A u \in Inbounds : pc'[u] = "running" => run'[SenderOf[u]] = u
          /\ \A u \in Senders : run'[u] \in Inbounds =>
               u = SenderOf[run'[u]] /\ pc'[run'[u]] = "running"
      <4>1. \A u \in Inbounds : pc'[u] = "running" => run'[SenderOf[u]] = u
        BY <1>6, <3>2 DEF AnswerInv, Holders, Senders
      <4>2. ASSUME NEW u \in Senders, run'[u] \in Inbounds
            PROVE  u = SenderOf[run'[u]] /\ pc'[run'[u]] = "running"
        <5>1. u # s /\ run'[u] = run[u]
          BY <1>6, <4>2 DEF ChannelConstants
        <5>2. u = SenderOf[run[u]] /\ pc[run[u]] = "running"
          BY <4>2, <5>1 DEF AnswerInv, Holders
        <5>3. run[u] # m
          BY <2>1, <5>1, <5>2
        <5>4. QED
          BY <2>3, <4>2, <5>1, <5>2, <5>3
      <4>3. QED
        BY <4>1, <4>2
    <3>4. /\ \A x \in after' \cup sending' \cup sent' :
               x.owner \in Inbounds => pc'[x.owner] = "done" /\ x.owner \notin dropped'
          /\ \A u \in dropped' \cap Inbounds : pc'[u] = "done"
      BY <1>2, <1>4, <2>2, <2>3 DEF AnswerInv, Holders
    <3>5. \A u \in Inbounds : pc'[u] = "done" =>
            u \in dropped' \/ \E x \in after' \cup sending' \cup sent' : x.owner = u
      <4>1. ASSUME NEW u \in Inbounds, pc'[u] = "done", u # m
            PROVE  u \in dropped \/ \E x \in after \cup sending \cup sent : x.owner = u
        BY <2>3, <4>1 DEF AnswerInv, Holders
      <4>2. QED
        BY <1>2, <1>4, <2>2, <4>1
    <3>6. QED
      BY <1>2, <3>1, <3>3, <3>4, <3>5 DEF AnswerInv, Holders
  <2>6. QED
    BY <1>5, <1>7, <2>4, <2>5 DEF AnswerInv
<1>10. QED
  BY <1>8, <1>9

\* A record is taken from one place, and what it becomes put in another.
LEMMA AfterTurnStep ==
  ASSUME ChannelConstants, AnswerInv, NEW d \in after, afterTurn(d)
  PROVE  AnswerInv'
<1> DEFINE to == stash[d.session]
<1>1. /\ after' = after \ {d} /\ UNCHANGED <<sent, pc, stash, run, order>>
      /\ \/ to = Nobody /\ UNCHANGED <<sending, dropped>>
         \/ to # Nobody /\ dropped' = dropped \cup {d.owner} /\ UNCHANGED sending
         \/ to # Nobody /\ sending' = sending \cup {Reply(d.owner, to, d.text)} /\ UNCHANGED dropped
  BY DEF afterTurn
<1>2. /\ d.owner \in Owners /\ d.session \in Senders /\ d.text \in Text
      /\ to \in Inbounds \cup {Nobody}
      /\ d.owner \in Inbounds => pc[d.owner] = "done" /\ d.owner \notin dropped
      /\ d.owner \in Inbounds => NotBefore(order, d.owner, to)
      /\ \A x \in (after \ {d}) \cup sending \cup sent :
           d.owner \in Inbounds => x.owner # d.owner
  BY DEF AnswerInv, AnswerTypes, Holders, LaterTarget, Single, Apart
<1>3. d.owner \in Inbounds => to # Nobody
  BY <1>2 DEF NotBefore, AnswerInv, OrderOf, ChannelConstants
<1> HIDE DEF to
<1>4. OrderOf(order', pc')
  BY <1>1 DEF AnswerInv
<1>5. CASE UNCHANGED <<sending, dropped>> /\ to = Nobody
  <2>1. d.owner \notin Inbounds
    BY <1>3, <1>5
  <2>2. AnswerTypes' /\ LaterTarget'
    BY <1>1, <1>5 DEF AnswerInv, AnswerTypes, LaterTarget
  <2>3. Holders'
    BY <1>1, <1>5, <2>1 DEF AnswerInv, Holders, Single, Apart
  <2>4. QED
    BY <1>4, <2>2, <2>3 DEF AnswerInv
<1>6. CASE dropped' = dropped \cup {d.owner} /\ UNCHANGED sending
  <2>1. AnswerTypes' /\ LaterTarget'
    BY <1>1, <1>6 DEF AnswerInv, AnswerTypes, LaterTarget
  <2>2. Holders'
    BY <1>1, <1>2, <1>6 DEF AnswerInv, Holders, Single, Apart
  <2>3. QED
    BY <1>4, <2>1, <2>2 DEF AnswerInv
<1>7. CASE to # Nobody /\ sending' = sending \cup {Reply(d.owner, to, d.text)} /\ UNCHANGED dropped
  <2> DEFINE r == Reply(d.owner, to, d.text)
  <2>1. r \in ReplyRecord /\ r.owner = d.owner /\ r.to = to
    BY <1>2, <1>7, ReplyTyped
  <2> HIDE DEF r
  <2>2. sending' = sending \cup {r}
    BY <1>7 DEF r
  <2>3. AnswerTypes'
    BY <1>1, <2>1, <2>2 DEF AnswerInv, AnswerTypes
  <2>4. LaterTarget'
    BY <1>1, <1>2, <2>1, <2>2 DEF AnswerInv, LaterTarget
  <2>5. Holders'
    <3>1. /\ Single(after') /\ Single(sending') /\ Single(sent')
          /\ Apart(after', sending') /\ Apart(after', sent') /\ Apart(sending', sent')
      BY <1>1, <1>2, <2>1, <2>2 DEF AnswerInv, Holders, Single, Apart
    <3>2. \A m \in Inbounds : pc[m] = "done" =>
            m \in dropped \/ \E x \in after' \cup sending' \cup sent' : x.owner = m
      BY <1>1, <2>1, <2>2 DEF AnswerInv, Holders
    <3>3. QED
      BY <1>1, <1>2, <1>7, <2>1, <2>2, <3>1, <3>2 DEF AnswerInv, Holders
  <2>6. QED
    BY <1>4, <2>3, <2>4, <2>5 DEF AnswerInv
<1>8. QED
  BY <1>1, <1>5, <1>6, <1>7

\* So does sending one chunk, by success or by failure.
LEMMA SendMessageStep ==
  ASSUME ChannelConstants, AnswerInv, NEW r \in sending, sendMessage(r)
  PROVE  AnswerInv'
<1>1. /\ UNCHANGED <<after, dropped, pc, stash, run, order>>
      /\ r \in ReplyRecord /\ Fits(r.todo)
      /\ \A x \in after \cup (sending \ {r}) \cup sent : r.owner \in Inbounds => x.owner # r.owner
      /\ r.owner \in Inbounds => NotBefore(order, r.owner, r.to)
      /\ r.owner \in Inbounds => pc[r.owner] = "done" /\ r.owner \notin dropped
  BY DEF sendMessage, AnswerInv, AnswerTypes, ReplyRecord, Holders, Single, Apart, LaterTarget
<1>2. OrderOf(order', pc')
  BY <1>1 DEF AnswerInv
<1>3. CASE Len(r.todo) > 1 /\ sent' = sent
           /\ sending' = (sending \ {r}) \cup {[r EXCEPT !.todo = Tail(@)]}
  <2> DEFINE q == [r EXCEPT !.todo = Tail(@)]
  <2>1. Fits(Tail(r.todo)) /\ Tail(r.todo) \in Seq(Nat)
    BY <1>1, <1>3, TailFits DEF ChannelConstants, Fits
  <2>2. q \in ReplyRecord /\ q.owner = r.owner /\ q.to = r.to
    BY <1>1, <2>1 DEF ReplyRecord
  <2> HIDE DEF q
  <2>3. sending' = (sending \ {r}) \cup {q}
    BY <1>3 DEF q
  <2>4. AnswerTypes' /\ LaterTarget'
    BY <1>1, <1>3, <2>2, <2>3 DEF AnswerInv, AnswerTypes, LaterTarget
  <2>5. Holders'
    <3>1. /\ Single(after') /\ Single(sending') /\ Single(sent')
          /\ Apart(after', sending') /\ Apart(after', sent') /\ Apart(sending', sent')
      BY <1>1, <1>3, <2>2, <2>3 DEF AnswerInv, Holders, Single, Apart
    <3>2. \A m \in Inbounds : pc[m] = "done" =>
            m \in dropped \/ \E x \in after' \cup sending' \cup sent' : x.owner = m
      BY <1>1, <1>3, <2>2, <2>3 DEF AnswerInv, Holders
    <3>3. QED
      BY <1>1, <1>3, <2>2, <2>3, <3>1, <3>2 DEF AnswerInv, Holders
  <2>6. QED
    BY <1>2, <2>4, <2>5 DEF AnswerInv
<1>4. CASE sending' = sending \ {r}
           /\ sent' = sent \cup {[owner |-> r.owner, to |-> r.to, text |-> r.text]}
  <2> DEFINE q == [owner |-> r.owner, to |-> r.to, text |-> r.text]
  <2>1. q \in [owner : Owners, to : Inbounds, text : Text] /\ q.owner = r.owner /\ q.to = r.to
    BY <1>1 DEF ReplyRecord
  <2> HIDE DEF q
  <2>2. sent' = sent \cup {q}
    BY <1>4 DEF q
  <2>3. AnswerTypes' /\ LaterTarget'
    BY <1>1, <1>4, <2>1, <2>2 DEF AnswerInv, AnswerTypes, LaterTarget
  <2>4. Holders'
    <3>1. /\ Single(after') /\ Single(sending') /\ Single(sent')
          /\ Apart(after', sending') /\ Apart(after', sent') /\ Apart(sending', sent')
      BY <1>1, <1>4, <2>1, <2>2 DEF AnswerInv, Holders, Single, Apart
    <3>2. \A m \in Inbounds : pc[m] = "done" =>
            m \in dropped \/ \E x \in after' \cup sending' \cup sent' : x.owner = m
      BY <1>1, <1>4, <2>1, <2>2 DEF AnswerInv, Holders
    <3>3. QED
      BY <1>1, <1>4, <2>1, <2>2, <3>1, <3>2 DEF AnswerInv, Holders
  <2>5. QED
    BY <1>2, <2>3, <2>4 DEF AnswerInv
<1>5. QED
  BY <1>3, <1>4 DEF sendMessage

\* An eviction takes what runs and what is on its way; those messages are lost.
LEMMA EvictStep ==
  ASSUME ChannelConstants, AnswerInv, evict
  PROVE  AnswerInv'
<1> DEFINE Lost(m) == \/ pc[m] \in {"parsing", "running"}
                      \/ \E x \in after \cup sending : x.owner = m
<1>1. /\ pc' = [m \in Inbounds |-> IF Lost(m) THEN "lost" ELSE pc[m]]
      /\ run' = [s \in Senders |-> Nobody] /\ after' = {} /\ sending' = {}
      /\ UNCHANGED <<sent, dropped, stash, order>>
  BY DEF evict
<1>2. \A m \in Inbounds : /\ pc'[m] = "lost" \/ pc'[m] = pc[m]
                          /\ pc'[m] # "running"
                          /\ pc'[m] = "done" => pc[m] = "done" /\ ~Lost(m)
                          /\ Lost(m) => pc'[m] = "lost"
                          /\ ~Lost(m) => pc'[m] = pc[m]
  BY <1>1
<1>3. \A m \in Inbounds : Lost(m) => m \notin dropped /\ \A x \in sent : x.owner # m
  BY DEF AnswerInv, Holders, Apart
<1>4. \A m \in Inbounds : pc[m] = "done" /\ ~Lost(m) => m \in dropped \/ \E x \in sent : x.owner = m
  BY DEF AnswerInv, Holders
<1>5. AnswerTypes'
  BY <1>1, <1>2 DEF AnswerInv, AnswerTypes
<1> HIDE DEF Lost
<1>6. OrderOf(order', pc')
  <2>1. \A i \in DOMAIN order : order[i] \in Inbounds /\ pc[order[i]] \in {"running", "done", "lost"}
    BY DEF AnswerInv, OrderOf
  <2>2. \A i \in DOMAIN order : pc'[order[i]] \in {"running", "done", "lost"}
    BY <1>2, <2>1
  <2>3. QED
    BY <1>1, <1>2, <2>2 DEF AnswerInv, OrderOf
<1>7. Holders'
  BY <1>1, <1>2, <1>3, <1>4 DEF AnswerInv, Holders, Single, Apart, ChannelConstants
<1>8. LaterTarget'
  BY <1>1 DEF AnswerInv, LaterTarget, ChannelConstants
<1>9. QED
  BY <1>5, <1>6, <1>7, <1>8 DEF AnswerInv

\* So does a turn of the agent's own client in a channel's session.
LEMMA ClientTurnStep ==
  ASSUME ChannelConstants, AnswerInv, NEW s \in Senders, clientTurn(s)
  PROVE  AnswerInv'
<1>1. /\ run[s] = Nobody /\ run' = [run EXCEPT ![s] = Client]
      /\ UNCHANGED <<pc, stash, after, sending, sent, dropped, order>>
  BY DEF clientTurn, replyVars
<1>2. AnswerTypes'
  BY <1>1 DEF AnswerInv, AnswerTypes, Owners
<1>3. run'[s] = Client /\ \A u \in Senders \ {s} : run'[u] = run[u]
  BY <1>1 DEF AnswerInv, AnswerTypes
<1>4. \A m \in Inbounds : pc[m] = "running" => SenderOf[m] # s
  BY <1>1 DEF AnswerInv, Holders, ChannelConstants
<1>5. Holders'
  BY <1>1, <1>3, <1>4 DEF AnswerInv, Holders, ChannelConstants, Senders
<1>6. LaterTarget'
  BY <1>1, <1>3 DEF AnswerInv, LaterTarget, ChannelConstants
<1>7. QED
  BY <1>1, <1>2, <1>5, <1>6 DEF AnswerInv

\* Each step of a channel preserves AnswerInv.
LEMMA NextAnswerInv ==
  ASSUME ChannelConstants, AnswerInv, [Next]_vars
  PROVE  AnswerInv'
<1>1. ASSUME NEW m \in Inbounds, receive(m) \/ parseWebhook(m) \/ deny(m)
      PROVE  AnswerInv'
  <2>1. PICK w \in {"parsing", "refused", "ignored", "denied"} :
          /\ pc[m] \in {"unsent", "parsing"} /\ pc' = [pc EXCEPT ![m] = w]
          /\ UNCHANGED <<run, stash, after, sending, sent, dropped, order>>
    BY <1>1 DEF receive, parseWebhook, deny, Goto, replyVars
  <2>2. AnswerTypes'
    BY <2>1 DEF AnswerInv, AnswerTypes
  <2>3. \A n \in Inbounds : pc'[n] = IF n = m THEN w ELSE pc[n]
    BY <2>1 DEF AnswerInv, AnswerTypes
  <2>4. QED
    BY <2>1, <2>2, <2>3, NoAnswerTouched
<1>2. ASSUME UNCHANGED <<run, stash, after, sending, sent, dropped, order, pc>>
      PROVE  AnswerInv'
  BY <1>2, NoAnswerTouched DEF AnswerInv, AnswerTypes
<1>3. ASSUME NEW a \in Accounts, \/ addAccount(a) \/ addAccountEnds(a)
                                 \/ removeAccount(a) \/ removeAccountEnds(a)
      PROVE  AnswerInv'
  BY <1>2, <1>3 DEF addAccount, addAccountEnds, removeAccount, removeAccountEnds, replyVars
<1>4. CASE tick \/ UNCHANGED vars
  BY <1>2, <1>4 DEF tick, vars, replyVars
<1>5. QED
  BY <1>1, <1>3, <1>4, AcceptStep, ClientTurnStep, EndTurnStep, AfterTurnStep,
     SendMessageStep, EvictStep DEF Next

\* For any messages, senders and accounts, any texts, failing prompts and sends,
\* accounts removed meanwhile and evictions: a message that passed the limiter
\* has exactly one answer, which goes to no earlier message and fits the
\* provider's limits.
THEOREM MessagesAnswered ==
  ASSUME ChannelConstants
  PROVE  Spec => []ChannelAnswers
<1>1. Init => AnswerInv
  BY InitAnswerInv
<1>2. AnswerInv /\ [Next]_vars => AnswerInv'
  BY NextAnswerInv
<1>3. AnswerInv => ChannelAnswers
  BY AnswerInvImplies
<1>4. QED
  BY <1>1, <1>2, <1>3, PTL DEF Spec
=============================================================================
