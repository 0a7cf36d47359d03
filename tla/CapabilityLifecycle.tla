------------------------- MODULE CapabilityLifecycle -------------------------
(***************************************************************************)
(* The capability caches of one AgentRuntime (agent-runtime.ts) and what   *)
(* resolveCapabilities (capabilities/resolve.ts) puts into them.           *)
(*                                                                         *)
(* The runtime serves many sessions but keeps ONE capability list, ONE     *)
(* resolution, ONE set of hook arrays and ONE list of disposers.  A        *)
(* capability list is a number (its generation: every call of              *)
(* getCapabilities builds new objects); a resolution is the session whose  *)
(* context it was given and the generation it was made from.               *)
(***************************************************************************)
EXTENDS Naturals, FiniteSets

CONSTANTS Sessions,   \* sessions that prompt the agent
          Bundled,    \* those of them whose turns a bundle runs
          MaxGens,    \* bound: capability lists built
          MaxSockets  \* bound: connections open at once

VARIABLES gens,       \* capability lists built since the runtime started
          caps,       \* capabilitiesCache, 0 for null
          resolved,   \* resolvedCapabilitiesCache
          hooks,      \* the hook arrays: the resolution they come from
          disposers,  \* capabilityDisposers: a generation, 0 for []
          run,        \* per session, the run and the list its tools are from
          setUp,      \* generations resolved for runs or for bundle hooks
          disposed,   \* generations whose dispose has been called
          afterTurn,  \* per session, the list the last afterTurn walk got
          sockets     \* open connections

vars == <<gens, caps, resolved, hooks, disposers, run, setUp, disposed, afterTurn, sockets>>

NoList == [session |-> 0, gen |-> 0]
Idle == [phase |-> "idle", gen |-> 0]

Init ==
    /\ gens = 0 /\ caps = 0 /\ disposers = 0 /\ sockets = 0
    /\ resolved = NoList /\ hooks = NoList
    /\ run = [s \in Sessions |-> Idle]
    /\ setUp = {} /\ disposed = {}
    /\ afterTurn = [s \in Sessions |-> [ran |-> 0, walked |-> 0]]

(* getCachedCapabilities: the list it returns, and the list it builds.     *)
cachedGen == IF caps = 0 THEN gens + 1 ELSE caps
getCachedCapabilities ==
    /\ cachedGen <= MaxGens
    /\ caps' = cachedGen
    /\ gens' = IF caps = 0 THEN gens + 1 ELSE gens

(* What ensureAgent and ensureCapabilityHooksResolved do with the result   *)
(* of resolveCapabilities.                                                 *)
Install(s) ==
    /\ getCachedCapabilities
    /\ resolved' = [session |-> s, gen |-> cachedGen]
    /\ hooks' = resolved'
    /\ disposers' = cachedGen
    /\ setUp' = setUp \union {cachedGen}

(* ensureAgent up to the await of syncCapabilitySchedules.                 *)
ensureAgent(s) ==
    /\ s \notin Bundled /\ run[s].phase = "idle"
    /\ Install(s)
    /\ run' = [run EXCEPT ![s] = [phase |-> "starting", gen |-> cachedGen]]
    /\ UNCHANGED <<disposed, afterTurn, sockets>>

(* The schedules are synced; the agent is built from this resolution's     *)
(* tools and prompted.  When syncing throws the prompt fails: there is no  *)
(* agent, so no agent_end either.                                          *)
agentStarts(s) ==
    /\ run[s].phase = "starting"
    /\ run' = [run EXCEPT ![s].phase = "running"]
    /\ UNCHANGED <<gens, caps, resolved, hooks, disposers, setUp, disposed, afterTurn, sockets>>

startFails(s) ==
    /\ run[s].phase = "starting"
    /\ run' = [run EXCEPT ![s] = Idle]
    /\ UNCHANGED <<gens, caps, resolved, hooks, disposers, setUp, disposed, afterTurn, sockets>>

(* disposeCapabilities: every disposer is called, none is awaited.         *)
disposeCapabilities ==
    /\ disposed' = disposed \union ({disposers} \ {0})
    /\ disposers' = 0

(* Mutant: the disposers are dropped with the caches.                      *)
agentEndUndisposed(s) ==
    /\ run[s].phase = "running"
    /\ cachedGen <= MaxGens
    /\ afterTurn' = [afterTurn EXCEPT ![s] = [ran |-> run[s].gen, walked |-> cachedGen]]
    /\ gens' = IF caps = 0 THEN gens + 1 ELSE gens
    /\ caps' = 0 /\ resolved' = NoList /\ disposers' = 0
    /\ run' = [run EXCEPT ![s] = Idle]
    /\ UNCHANGED <<hooks, setUp, sockets, disposed>>

(* The subscriber's agent_end branch.  handleAgentEvent comes first, and   *)
(* in it dispatchAfterTurn takes its copy of the capability list.          *)
agentEnd(s) ==
    /\ run[s].phase = "running"
    /\ cachedGen <= MaxGens
    /\ afterTurn' = [afterTurn EXCEPT ![s] = [ran |-> run[s].gen, walked |-> cachedGen]]
    /\ gens' = IF caps = 0 THEN gens + 1 ELSE gens
    /\ caps' = 0 /\ resolved' = NoList
    /\ disposeCapabilities
    /\ run' = [run EXCEPT ![s] = Idle]
    /\ UNCHANGED <<hooks, setUp, sockets>>

(* A hook call of a bundle's turn: ensureCapabilityHooksResolved.          *)
bundleHook(s) ==
    /\ s \in Bundled
    /\ IF resolved # NoList
       THEN UNCHANGED <<gens, caps, resolved, hooks, disposers, setUp>>
       ELSE Install(s)
    /\ UNCHANGED <<run, disposed, afterTurn, sockets>>

(* fireOnConnectHooks, resolveCommands, handleCapabilityAction and         *)
(* ensureScheduleCallbacks: the cached resolution, or one of their own     *)
(* that they do not keep.                                                  *)
resolveForCall ==
    /\ resolved = NoList
    /\ getCachedCapabilities
    /\ UNCHANGED <<resolved, hooks, disposers, run, setUp, disposed, afterTurn, sockets>>

handleTransportOpen ==
    /\ sockets < MaxSockets
    /\ sockets' = sockets + 1
    /\ UNCHANGED <<gens, caps, resolved, hooks, disposers, run, setUp, disposed, afterTurn>>

(* Closing the last connection disposes, running or not, and leaves the    *)
(* caches as they are.                                                     *)
handleTransportClose ==
    /\ sockets > 0
    /\ sockets' = sockets - 1
    /\ IF sockets = 1 THEN disposeCapabilities ELSE UNCHANGED <<disposed, disposers>>
    /\ UNCHANGED <<gens, caps, resolved, hooks, run, setUp, afterTurn>>

Next ==
    \/ \E s \in Sessions : \/ ensureAgent(s) \/ agentStarts(s) \/ startFails(s)
                           \/ agentEnd(s) \/ bundleHook(s)
    \/ resolveForCall \/ handleTransportOpen \/ handleTransportClose

Spec == Init /\ [][Next]_vars

-----------------------------------------------------------------------------
(* Whichever sessions start, end and fail in whichever order, a capability *)
(* list that was set up for a run is never replaced before its dispose has *)
(* been called: it is disposed, or its disposers are the pending ones      *)
(* (ensureAgent overwrites capabilityDisposers without calling them).      *)
SetUpIsDisposed == setUp \subseteq disposed \union {disposers}

(* A cached resolution and pending disposers belong to the cached list:    *)
(* the fields are set and dropped together on every path, so no caller     *)
(* mixes the hooks of one list with the tools of another.                  *)
CachesAgree ==
    /\ resolved # NoList => resolved.gen = caps
    /\ disposers # 0 => disposers = caps

(* What the runtime keeps of a list is set, dropped and disposed together. *)
ListsAreDisposed == SetUpIsDisposed /\ CachesAgree

(* dispatchAfterTurn walks the capabilities that ran the turn.             *)
AfterTurnSame == \A s \in Sessions : afterTurn[s].ran = afterTurn[s].walked

(* The hooks that a running session calls are those of its own resolution. *)
HooksAreOwn ==
    \A s \in Sessions : run[s].phase = "running" => hooks = [session |-> s, gen |-> run[s].gen]

(* No capability list is disposed while a run uses its tools.              *)
RunNotDisposed == \A s \in Sessions : run[s].phase = "running" => run[s].gen \notin disposed
=============================================================================
