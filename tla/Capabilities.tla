---------------------------- MODULE Capabilities ----------------------------
(***************************************************************************)
(* What a turn uses: the capability lists of the runtime                   *)
(* (CapabilityLifecycle), the child agents it starts (Subagent), the       *)
(* configuration (Configuration), the sandbox (Sandbox), the answer of the *)
(* model (ModelStream), the task tracker (TaskTracker) and the compaction  *)
(* of the history (Compaction), what is sent to the model (ModelRequest),  *)
(* side by side and under any constants, with what each of them promises.  *)
(***************************************************************************)
EXTENDS Integers, Sequences, FiniteSets

CONSTANTS Sessions, Bundled, MaxGens, MaxSockets             \* CapabilityLifecycle
CONSTANTS Children, MaxConnects, MaxEvictions                \* Subagent
CONSTANTS Callers, Namespaces, Mapped, Values, Bad, MaxOps   \* Configuration
CONSTANTS Elevators, CallsAtOnce, MaxCalls, MaxDeaths, TimerFires \* Sandbox
CONSTANTS Ids, CanInterleave, MaxParts                       \* ModelStream
CONSTANTS Workers, CanWrite, MaxTasks, MaxDeps               \* TaskTracker
CONSTANTS Sizes, SummarySize, PrunedSize, Window, Limit, KeepRecent,
          PruneBudget, MaxEntries                            \* Compaction
CONSTANTS Models, MaxMessages                                \* ModelRequest

VARIABLES gens, caps, resolved, hooks, disposers, run, setUp, disposed,
          afterTurn, sockets
VARIABLES row, childRun, parentBusy, jobs, sweep, reports, connects, evictions
VARIABLES store, orphans, snap, loaded, io, call, told, capStore, capApplied,
          ops
VARIABLES elevated, owners, timer, callback, firing, alive, stopping, teardown,
          turns, toolCall, toolCalls, deaths
VARIABLES provider, cut, blocks, stop, inner, outer, forwarder, reader,
          pushed, handled, parts
VARIABLES tasks, deps, created
VARIABLES entries, messages, steered, pending, given, sent
VARIABLES model, context, calls

listVars == <<gens, caps, resolved, hooks, disposers, run, setUp, disposed,
              afterTurn, sockets>>
childVars == <<row, childRun, parentBusy, jobs, sweep, reports, connects,
               evictions>>
configVars == <<store, orphans, snap, loaded, io, call, told, capStore,
                capApplied, ops>>
sandboxVars == <<elevated, owners, timer, callback, firing, alive, stopping,
                 teardown, turns, toolCall, toolCalls, deaths>>
streamVars == <<provider, cut, blocks, stop, inner, outer, forwarder, reader,
                pushed, handled, parts>>
taskVars == <<tasks, deps, created>>
historyVars == <<entries, messages, steered, pending, given, sent>>
requestVars == <<model, context, calls>>

L == INSTANCE CapabilityLifecycle
S == INSTANCE Subagent WITH
       MaxRestarts <- MaxEvictions, run <- childRun, streaming <- parentBusy,
       logged <- reports, restarts <- evictions
G == INSTANCE Configuration
B == INSTANCE Sandbox WITH
       Sessions <- Elevators, call <- toolCall, calls <- toolCalls
M == INSTANCE ModelStream WITH
       pc <- provider, aborted <- cut, agent <- reader, told <- handled
W == INSTANCE TaskTracker WITH
       Sessions <- Workers
K == INSTANCE Compaction
D == INSTANCE ModelRequest

-----------------------------------------------------------------------------
\* A capability list that was set up is disposed, or will be by the pending
\* disposers, and what is cached of a list is set and dropped together, for any
\* overlap of runs (CapabilityLifecycle).
ListsAreDisposed == L!ListsAreDisposed

\* The end of a child agent is reported to its parent's log once, and its row is
\* gone when nobody is at work on it, for any overlap of completion, cancel and
\* connect (Subagent).
SubagentReports == S!SubagentReports

\* When all callers are done, the snapshot is what a restart would load
\* (Configuration).
SnapshotIsStored == G!SnapshotIsStored

\* A call that asks while a stop of de_elevate is on its way does not start the
\* container before that stop has arrived, as long as stops come apart (Sandbox).
ReelevateWaits == B!ReelevateWaits

\* The agent loop is told every event of an answer in order, well formed, and is
\* never left waiting; parts of a tool call stay together (ModelStream).
StreamDelivered ==
  M!NothingLost /\ M!NeverStuck /\ M!Bracketed /\ M!OwnParts

\* While tasks are open and none is in progress or blocked by hand, task_ready
\* offers one to some session, and no edge outlives its task: no series of calls
\* makes tasks wait for each other (TaskTracker).
TasksCanProceed == W!WorkCanProceed /\ W!EdgesHaveSource

\* Compaction cuts the history tightly and covers it: the chunks that are
\* summarised are the messages before the cut, in order and none empty; the cut
\* keeps keepRecentTokens and no message more than that takes; pruning stays in
\* its budget and touches only tool results (Compaction).
HistoryCovered == K!ChunksCover /\ K!CutIsTight /\ K!PruneInBudget

\* What is sent to the model answers each call once and directly, whatever runs
\* were cut short before, in a form the service takes, with all that the user
\* wrote (ModelRequest).
RequestValid == D!RequestValid
=============================================================================
