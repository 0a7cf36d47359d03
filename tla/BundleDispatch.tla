--------------------------- MODULE BundleDispatch ---------------------------
(***************************************************************************)
(* Dispatch of turns to a bundle, by the Durable Object of one agent       *)
(* (AgentDO.initBundleDispatch), against the bundle registry.              *)
(*                                                                         *)
(* The registry is another service: a call to it runs there in one step    *)
(* and its answer is used in a later one, with anything in between.  A     *)
(* read or write of ctx.storage holds other events back and is atomic with *)
(* the code around it.  A version stands for its bytes and its metadata;   *)
(* a host is given by the versions whose requirements, routes and action   *)
(* ids (caps) and whose config declarations (config) it can take.          *)
(***************************************************************************)
EXTENDS Integers, FiniteSets

CONSTANTS Versions,      \* bundle versions
          Hosts,         \* deployments of the host: [caps, config : SUBSET Versions]
          Poison,        \* versions whose turns always fail
          Rebuilt,       \* drifted version -> version that auto-rebuild makes
          Turns,         \* turns at a time
          Surfaces,      \* requests to a bundle's routes and actions at a time
          MaxFailures,   \* maxLoadFailures
          MaxChanges     \* bound: deployments and restarts

NoVersion == "none"
Unset == "unset"
Writer == "writer"       \* the workshop tool, or the request to /bundle/disable

\* Names do not clash, and a rebuilt version is a version.
DispatchConstants ==
  /\ {NoVersion, Unset} \cap Versions = {}
  /\ Writer \notin Turns \cup Surfaces /\ Turns \cap Surfaces = {}
  /\ Rebuilt \in [DOMAIN Rebuilt -> Versions]
  /\ \A h \in Hosts : h.caps \subseteq Versions

VARIABLES active,        \* the registry's pointer
          cache,         \* ctx.storage.activeBundleVersionId
          host,          \* the host's code
          validated,     \* validatedVersionId
          failures,      \* consecutiveFailures
          meta,          \* version of the installed config metadata
          rebuild,       \* "no", "running", or "done" (autoRebuildAttempted)
          task,          \* what each turn, and the writer, is about to do
          changes,       \* deployments and restarts so far
          failed,        \* ghost: failures in a row of each version
          cleared        \* ghost: the version last auto-reverted, and its failures

memory == <<validated, failures, meta, rebuild>>
ghosts == <<failed, cleared>>
vars == <<active, cache, host, memory, task, changes, ghosts>>

Tasks == Turns \cup Surfaces \cup {Writer}
Idle == [pc |-> "idle", v |-> NoVersion, read |-> NoVersion]
Goto(t, p) == task' = [task EXCEPT ![t].pc = p]
Done(t) == task' = [task EXCEPT ![t] = Idle]

-----------------------------------------------------------------------------
(***************************************************************************)
(* runDispatchGuard: a version that was validated is run at once; for any  *)
(* other its metadata is read first.  What passed the guard runs, except   *)
(* that a request to a route or action looks the version up again.         *)
(***************************************************************************)
Guarded(t) == IF t \in Surfaces THEN "again" ELSE "fetch"

Guard(t, v) ==
  task' = [task EXCEPT ![t] =
             [Idle EXCEPT !.v = v, !.pc = IF v = validated THEN Guarded(t) ELSE "validate"]]

\* maybeAutoRebuild: the first turn after a start compares the runtime hash, and
\* turns that come meanwhile wait for it.
\* Mutant: every turn that finds no finished rebuild starts one.
AfterCheckEach(t, v) ==
  IF rebuild = "done" THEN Guard(t, v) /\ UNCHANGED rebuild
  ELSE /\ rebuild' = "running"
       /\ task' = [task EXCEPT ![t] = [Idle EXCEPT !.v = v, !.pc = "rebuild"]]

AfterCheck(t, v) ==
  CASE rebuild = "done" -> Guard(t, v) /\ UNCHANGED rebuild
    [] rebuild = "running" ->
         /\ task' = [task EXCEPT ![t] = [Idle EXCEPT !.v = v, !.pc = "wait"]]
         /\ UNCHANGED rebuild
    [] rebuild = "no" ->
         /\ rebuild' = "running"
         /\ task' = [task EXCEPT ![t] = [Idle EXCEPT !.v = v, !.pc = "rebuild"]]

\* bundlePromptHandler, checkActiveBundle: no cached version is the static
\* brain, which is no step here.
startTurn(t) ==
  /\ task[t].pc = "idle" /\ cache # NoVersion
  /\ IF cache = Unset
       THEN Goto(t, "cold") /\ UNCHANGED rebuild
       ELSE AfterCheck(t, cache)
  /\ UNCHANGED <<active, cache, host, validated, failures, meta, changes, ghosts>>

(***************************************************************************)
(* bundleHttpDispatcher, bundleActionDispatcher: the version's metadata    *)
(* say whether the route or action is its own; then the guard.             *)
(***************************************************************************)
GoesDeclared(t, v) == task' = [task EXCEPT ![t] = [Idle EXCEPT !.v = v, !.pc = "declared"]]

startSurface(t) ==
  /\ task[t].pc = "idle" /\ cache # NoVersion
  /\ IF cache = Unset THEN Goto(t, "cold") ELSE GoesDeclared(t, cache)
  /\ UNCHANGED <<active, cache, host, memory, changes, ghosts>>

notDeclared(t) ==
  /\ task[t].pc = "declared"
  /\ Done(t)
  /\ UNCHANGED <<active, cache, host, memory, changes, ghosts>>

declared(t) ==
  /\ task[t].pc = "declared"
  /\ Guard(t, task[t].v)
  /\ UNCHANGED <<active, cache, host, memory, changes, ghosts>>

\* dispatchHttp, dispatchAction: checkActiveBundle once more.
dispatchAgain(t) ==
  /\ task[t].pc = "again"
  /\ IF cache \in Versions
       THEN task' = [task EXCEPT ![t] = [Idle EXCEPT !.v = cache, !.pc = "serve"]]
       ELSE Done(t)
  /\ UNCHANGED <<active, cache, host, memory, changes, ghosts>>

\* Served, failed or timed out: nothing is counted.
served(t) ==
  /\ task[t].pc = "serve"
  /\ Done(t)
  /\ UNCHANGED <<active, cache, host, memory, changes, ghosts>>

coldRead(t) ==
  /\ task[t].pc = "cold"
  /\ task' = [task EXCEPT ![t].pc = "coldReply", ![t].read = active]
  /\ UNCHANGED <<active, cache, host, memory, changes, ghosts>>

coldReply(t) ==
  /\ task[t].pc = "coldReply"
  /\ cache' = task[t].read
  /\ CASE cache' = NoVersion -> Done(t) /\ UNCHANGED rebuild
       [] cache' # NoVersion /\ t \in Turns -> AfterCheck(t, cache')
       [] cache' # NoVersion /\ t \in Surfaces -> GoesDeclared(t, cache') /\ UNCHANGED rebuild
  /\ UNCHANGED <<active, host, validated, failures, meta, changes, ghosts>>

\* The pointer is read again after a rebuild; a cleared one leaves the version.
Refreshed(t) == IF cache \in Versions THEN cache ELSE task[t].v

\* No drift, no source, or a build that failed.
rebuildSkips(t) ==
  /\ task[t].pc = "rebuild"
  /\ rebuild' = "done"
  /\ Guard(t, Refreshed(t))
  /\ UNCHANGED <<active, cache, host, validated, failures, meta, changes, ghosts>>

\* A drifted version is built again, activated, and the pointer refreshed.  The
\* new version's metadata declares no requirements.
rebuildPromotes(t) ==
  /\ task[t].pc = "rebuild" /\ task[t].v \in DOMAIN Rebuilt
  /\ active' = Rebuilt[task[t].v]
  /\ Goto(t, "refresh")
  /\ UNCHANGED <<cache, host, memory, changes, ghosts>>

rebuildAwaited(t) ==
  /\ task[t].pc = "wait" /\ rebuild = "done"
  /\ Guard(t, Refreshed(t))
  /\ UNCHANGED <<active, cache, host, memory, changes, ghosts>>

\* validateCatalogCached, then validateBundleConfigDeclarations, which looks at
\* the installed metadata, whatever version they are of.
\* Mutant: the version counts as validated before it is looked at.
validateFirst(t) ==
  /\ task[t].pc = "validate"
  /\ validated' = task[t].v
  /\ Goto(t, IF task[t].v \notin host.caps THEN "disable"
             ELSE IF meta # NoVersion /\ meta \notin host.config THEN "disableConfig"
             ELSE Guarded(t))
  /\ UNCHANGED <<active, cache, host, failures, meta, rebuild, changes, ghosts>>

validate(t) ==
  /\ task[t].pc = "validate"
  /\ IF task[t].v \notin host.caps
       THEN Goto(t, "disable") /\ UNCHANGED validated
       ELSE /\ validated' = task[t].v
            /\ Goto(t, IF meta # NoVersion /\ meta \notin host.config
                         THEN "disableConfig" ELSE Guarded(t))
  /\ UNCHANGED <<active, cache, host, failures, meta, rebuild, changes, ghosts>>

fetchOk(t) ==
  /\ task[t].pc = "fetch" /\ task[t].v \notin Poison
  /\ failures' = 0
  /\ failed' = [failed EXCEPT ![task[t].v] = 0]
  /\ Done(t)
  /\ UNCHANGED <<active, cache, host, validated, meta, rebuild, changes, cleared>>

CountFailure(v) ==
  failed' = [failed EXCEPT ![v] = IF @ < MaxFailures THEN @ + 1 ELSE @]

\* A failed turn; every version can fail now and then.
\* Mutant: a failed turn is not counted.
fetchFailsUncounted(t) ==
  /\ task[t].pc = "fetch"
  /\ UNCHANGED failures
  /\ CountFailure(task[t].v)
  /\ Done(t)
  /\ UNCHANGED <<active, cache, host, validated, meta, rebuild, changes, cleared>>

fetchFails(t) ==
  /\ task[t].pc = "fetch"
  /\ failures' = failures + 1
  /\ CountFailure(task[t].v)
  /\ IF failures' >= MaxFailures THEN Goto(t, "revert") ELSE Done(t)
  /\ UNCHANGED <<active, cache, host, validated, meta, rebuild, changes, cleared>>

(***************************************************************************)
(* Clearing the pointer: after a mismatch, after too many failures, and by *)
(* /bundle/disable.  The registry may refuse the first two; the rest is    *)
(* done all the same.                                                      *)
(***************************************************************************)
Clearing == {"disable", "disableConfig", "revert"}

clearPointer(t) ==
  /\ task[t].pc \in Clearing
  /\ active' \in {NoVersion, active}
  /\ cleared' = IF task[t].pc = "revert" /\ active \in Versions /\ active' = NoVersion
                  THEN <<active, failed[active]>> ELSE cleared
  /\ Goto(t, IF task[t].pc = "disableConfig" THEN "clearedConfig" ELSE "cleared")
  /\ UNCHANGED <<cache, host, memory, changes, failed>>

pointerCleared(t) ==
  /\ task[t].pc \in {"cleared", "clearedConfig"}
  /\ validated' = NoVersion /\ failures' = 0 /\ cache' = NoVersion
  /\ meta' = IF task[t].pc = "clearedConfig" THEN NoVersion ELSE meta
  /\ Done(t)
  /\ UNCHANGED <<active, host, rebuild, changes, ghosts>>

(***************************************************************************)
(* bundlePointerRefresher, by workshop tools, /bundle/refresh and after a  *)
(* rebuild: the pointer is read, stored, and then the metadata are read.   *)
(***************************************************************************)
refreshRead(t) ==
  /\ task[t].pc = "refresh"
  /\ validated' = NoVersion
  /\ task' = [task EXCEPT ![t].pc = "refreshReply", ![t].read = active]
  /\ UNCHANGED <<active, cache, host, failures, meta, rebuild, changes, ghosts>>

\* The refresher is done: a turn that awaited its rebuild goes on.
AfterRefresh(t) ==
  IF t = Writer THEN Done(t) /\ UNCHANGED rebuild
  ELSE /\ rebuild' = "done"
       /\ Guard(t, IF cache' \in Versions THEN cache' ELSE task[t].v)

refreshReply(t) ==
  /\ task[t].pc = "refreshReply"
  /\ cache' = task[t].read
  /\ failures' = 0
  /\ IF cache' = NoVersion
       THEN meta' = NoVersion /\ AfterRefresh(t)
       ELSE Goto(t, "metadata") /\ UNCHANGED <<meta, rebuild>>
  /\ UNCHANGED <<active, host, validated, changes, ghosts>>

refreshMetadata(t) ==
  /\ task[t].pc = "metadata"
  /\ meta' = task[t].read
  /\ UNCHANGED cache
  /\ AfterRefresh(t)
  /\ UNCHANGED <<active, host, validated, failures, changes, ghosts>>

-----------------------------------------------------------------------------
\* workshop_deploy and workshop_disable, here or in another agent (then the
\* cache is not told); skipCatalogCheck leaves the check to the dispatch.
deploy(v, told) ==
  /\ task[Writer].pc = "idle" /\ changes < MaxChanges
  /\ active' = v /\ changes' = changes + 1
  /\ failed' = IF v \in Versions THEN [failed EXCEPT ![v] = 0] ELSE failed
  /\ IF told THEN Goto(Writer, "refresh") ELSE UNCHANGED task
  /\ UNCHANGED <<cache, host, memory, cleared>>

\* POST /bundle/disable and POST /bundle/refresh.
httpDisable ==
  /\ task[Writer].pc = "idle" /\ changes < MaxChanges
  /\ active' = NoVersion /\ changes' = changes + 1
  /\ Goto(Writer, "cleared")
  /\ UNCHANGED <<cache, host, memory, ghosts>>

httpRefresh ==
  /\ task[Writer].pc = "idle" /\ changes < MaxChanges /\ active # cache
  /\ changes' = changes + 1
  /\ Goto(Writer, "refresh")
  /\ UNCHANGED <<active, cache, host, memory, ghosts>>

\* The object is evicted, or the host deployed anew: memory is lost.
restart(h) ==
  /\ changes < MaxChanges /\ changes' = changes + 1
  /\ host' = h
  /\ validated' = NoVersion /\ failures' = 0 /\ meta' = NoVersion /\ rebuild' = "no"
  /\ task' = [t \in Tasks |-> Idle]
  /\ UNCHANGED <<active, cache, ghosts>>

Init ==
  /\ active = NoVersion /\ cache = Unset /\ host \in Hosts
  /\ validated = NoVersion /\ failures = 0 /\ meta = NoVersion /\ rebuild = "no"
  /\ task = [t \in Tasks |-> Idle]
  /\ changes = 0
  /\ failed = [v \in Versions |-> 0] /\ cleared = <<NoVersion, 0>>

Step(t) ==
  \/ coldRead(t) \/ coldReply(t)
  \/ notDeclared(t) \/ declared(t) \/ dispatchAgain(t) \/ served(t)
  \/ rebuildSkips(t) \/ rebuildPromotes(t) \/ rebuildAwaited(t)
  \/ validate(t) \/ fetchOk(t) \/ fetchFails(t)
  \/ clearPointer(t) \/ pointerCleared(t)
  \/ refreshRead(t) \/ refreshReply(t) \/ refreshMetadata(t)

Next ==
  \/ \E t \in Turns : startTurn(t)
  \/ \E t \in Surfaces : startSurface(t)
  \/ \E t \in Tasks : Step(t)
  \/ \E v \in Versions \cup {NoVersion}, told \in BOOLEAN : deploy(v, told)
  \/ httpDisable \/ httpRefresh
  \/ \E h \in Hosts : restart(h)

Spec == Init /\ [][Next]_vars

\* Prompts keep coming, calls are answered, and the host keeps running.
FairSpec ==
  /\ Spec
  /\ \A t \in Tasks : WF_vars(Step(t))
  /\ \A t \in Turns : WF_vars(startTurn(t))
-----------------------------------------------------------------------------
\* A turn is only ever given to a version whose requirements, routes and action
\* ids the running host can take, whatever deployments, restarts and cached
\* pointers came before.
GuardedDispatch ==
  \A t \in Turns : task[t].pc = "fetch" => task[t].v \in host.caps

\* Turns that arrive together after a start share one rebuild.
OneRebuild ==
  Cardinality({t \in Turns : task[t].pc \in {"rebuild", "refresh", "refreshReply", "metadata"}}) <= 1

\* A version that cannot run does not stay: its turns fail until the pointer is
\* cleared, and the agent is back at the static brain or at another version.
PoisonLeaves == <>[](cache \notin Poison)

\* Only a version that itself failed maxLoadFailures times in a row is reverted
\* (dispatcher.ts: "Auto-revert after N consecutive failures").
RevertIsEarned == cleared[1] # NoVersion => cleared[2] >= MaxFailures

\* Config declarations that collide with the host's are noticed before the first
\* dispatch after a pointer change or a new host (agent-do.ts, comment of
\* validateBundleConfigDeclarations).
ConfigGuarded ==
  \A t \in Turns : task[t].pc = "fetch" => task[t].v \in host.config

\* A request is served by a version that passed the guard (agent-do.ts: "runs the
\* dispatch-time guard, then dispatches into the bundle isolate").
GuardedSurface ==
  \A t \in Surfaces : task[t].pc = "serve" => task[t].v \in host.caps
=============================================================================
