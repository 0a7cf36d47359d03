# Formal models of the agent runtime

TLA+ models of CrabbyKit's agent runtime and of the capabilities around it, the
TLC runs that check them, and TLAPS proofs of their central properties.  Paths
below are relative to `src/packages/`; `RT` is
`runtime/agent-runtime/src/agent-runtime.ts`.

## 1. The system

CrabbyKit runs each AI agent in a Cloudflare Durable Object.  One object holds
one `AgentRuntime`, a SQLite database, the client WebSockets and one alarm.
JavaScript is single-threaded, so code between two `await`s is atomic;
everything that is hard happens at the awaits, at eviction or hibernation of
the object, and in long sequences of operations on the durable tables.

### Inventory

| Part | State | Operations | What is hard | What makes it correct |
|---|---|---|---|---|
| Session store (`session/session-store.ts`) | tables `sessions` (leaf, cached mode) and `session_entries` (parent, seq) | create, delete, appendEntry, branch, gc, buildContext, paging | leaf moves and gc in any order; seq numbers reused after gc; a cached walk; a compaction naming an entry that has gone | the log stays a tree; the mode cache equals the walk; nothing new is missing from the context; pages are complete |
| Turns and queue (`RT`, `queue/queue-store.ts`, `agent-core/src/agent.ts`) | `sessionAgents`, `message_queue`, the calls in flight | prompt, steer, queue actions, ensureAgent, agent_end, processQueue, abort, delete, /clear | a busy check and its write with awaits in between; eviction; failure after dequeue | the running agent is the one in the map; FIFO; accepted means durable; every message is dealt with |
| Agent loop (`agent-core/src/agent-loop.ts`, `agent.ts`) | history, context of a run, pending messages, steering and follow-up queues | prompt, continue, run tools, poll, retry, abort | copies of the history that drift apart; exceptions between call and result; limits | each call is answered; the copies agree; steering is a mailbox; a run ends |
| Exchange with the model (`ai/`) | an answer's stream; the message list of a request | streamSimple, the completions provider, transformMessages | two chained streams; parts of several tool calls; histories with unanswered calls and a change of model | nothing of an answer is lost or mixed; each call in a request has its result |
| Compaction (`compaction/`, `compaction-summary`) | none | threshold, prune, cut, staged summary | indexes of two different lists; shares of tokens | what is kept and what is summarised cover the history |
| Capability caches (`RT`, `capabilities/resolve.ts`) | one list, one resolution, hook arrays, disposers, shared by all sessions | build, resolve, dispose at each agent_end and last disconnect | sessions that overlap | what was set up is disposed; the caches agree |
| Configuration (`RT`, `config/`) | snapshot, stored namespaces | load, config_set, config_get, clients' writes | overlapping loads and writes | the snapshot is what is stored |
| Routing and transport (`RT`, `transport/cloudflare.ts`) | socket attachments, the in-memory connection map, `sessions.updated_at` | open, close, switch, new, delete, clear, HTTP and channel prompts, hibernation | several clients on one session; the map is lost in hibernation; two text formats of one column | deleting moves everyone; a session remains; one session per sender; list order |
| Channels and rate limiter (`channels/`, `rate-limit/`, `channel-telegram`) | accounts, stashed inbounds, window buckets | webhook, account changes, afterTurn, send, consume | a turn that does not know its message; admin changes during turns; windows that restart late | one answer per message; a window's span grants less than twice its limit |
| Scheduler (`RT`, `scheduling/`) | table `schedules`, callback map, the host's wake time, the handler's snapshot | create, toggle, update, delete, setTimer, cancelTimer, sync, the alarm handler | a snapshot used across awaits; throwing hooks; eviction in the handler | nothing is slept through; an occurrence runs once; due work is handled; status tells the truth |
| Cron (`scheduling/cron.ts`) | none (a search) | parse, nextFireTime | time zones, daylight saving, skips | no matching minute is skipped |
| Client (`client/`) | view of a session, reconnecting socket | server messages, optimistic updates, effects | messages around switches and reconnects; onclose after the next effect; getToken may reject | the view is the log; a mounted provider reconnects |
| Bundles (`RT`'s object `agent-do.ts`, `bundle-host`, `bundle-registry`, `bundle-sdk`, `bundle-token`, `agent-workshop`) | active pointer, its caches, failure count, budgets, token | dispatch, guard, rebuild, auto-revert; the turn in the isolate | stale guards over awaits; deployments during failures; expiry, exhausted budgets and failed calls in a turn | only guarded versions run; a broken version leaves; a turn ends with its tools answered |
| A2A (`federation/a2a`) | task store, pending rows, event bus | send, stream, push notification, callback, check | lost, late and early callbacks; a busy origin | a delivered result is not pending; a stream ends |
| Subagents (`capabilities/subagent`) | pending rows, child runs | call, start, cancel, onConnect sweep, report | read-await-write of a row; a sweep that takes the living for orphans | one report, no row left |
| Sandbox (`capabilities/sandbox`, `cloudflare-sandbox`) | elevation marks, owners, idle timer, teardown promise | elevate, de_elevate, exec, processes | a stop on its way when a start comes; the calls of one message run together; timers and callbacks under one id | a call that asks during a stop starts after it |
| Task tracker (`capabilities/task-tracker`) | tasks, edges | create, update, link, ready, clear | parents and blockers in one graph | open tasks never all wait for each other |
| Skills (`capabilities/skills`) | rows, conflicts, files, a cached list | synchronise, edit, install, uninstall | a file and a row written apart | a version dealt with stays so; enabled means loadable |
| App registry (`infra/app-registry`) | rows, version directories, `CURRENT` | deploy, rollback, delete, serve | two stores changed by commands that fail | the pointer has a row and files |
| Browsers (`capabilities/browserbase`) | rows, connections, timers, remote browsers | open, reconnect, close, recover | rows written last; recovery beside calls | a running browser is known and will be closed |
| Files (`capabilities/file-tools`, `ui/agent-ui/src/hooks/use-r2-files.ts`) | objects and directory markers in a bucket; each browser's cached contents and listings, promises | list, read, write, create, rename, delete, the same for directories; the agent's file tools; the user's choices | caches kept up by broadcasts only; a rename is several remote calls | an idle browser shows what is there; no text is lost |

How they interact: a client message goes from the transport to
`handleClientMessage`, which uses the session store and starts a turn; the turn
runs the agent loop, whose events are written through the session store and
broadcast through the transport; `agent_end` drops the capability list and
starts the next queued turn.  The host's alarm calls the scheduler, whose prompt
schedules create sessions and start turns.  Channels, child agents, peers and
A2A callbacks enter through `handleAgentPrompt` or by steering.  Bundles are
asked before the static agent at the start of every turn and at every alarm.
Sandboxes and browsers are closed by the scheduler's timers.

The hazards of this code, each at its line and with the property that would
catch it, are listed in `PROJECT.json` under `hazards`.

## 2. The modules

An action is the code from one await to the next.  Operators carry the names of
the methods they model, and `PROJECT.json`'s `map` gives the lines of each.
Variables called ghosts in comments record history for the properties and guard
nothing.

| Module | Models | Abstraction |
|---|---|---|
| `SessionStore` | the two tables, mode changes, a paging client | functions from live ids to rows; the walk to the root is a least closed set, so that it needs no recursion |
| `TurnLifecycle` | the turns of one session: the calls in flight, queue, map entry, streaming and aborted agents | the log is a count; what a run does is `AgentLoop`'s |
| `SessionRouting` | connections and choice of session | entries are touches of `updated_at`, compared as SQLite compares its text |
| `Scheduler` | schedules, timers, the alarm handler | a cron expression is a period |
| `Cron` | `computeNext`, step by step | month, day and weekday are one set of days; hours and days have constant lengths |
| `AgentLoop` | the loop, its queues, the history a provider is sent, the session log it is rebuilt from | contents are ids; a request is its list of messages |
| `SteeringMailbox` | what steering promises: posted messages are heard in order, none twice, none lost while the agent is rebuilt | abstract; `AgentLoop` implements it (`MailboxSpec`) |
| `ModelStream` | an answer on its way: service, provider, the two streams, the loop | parts of text, thinking and two calls |
| `ModelRequest` | `transformMessages` over any history that runs leave | a model is its four wishes |
| `Compaction` | the beforeInference hook and the context it leads to | tokens are small numbers |
| `CapabilityLifecycle`, `Configuration` | the shared caches; the snapshot | a capability list is a generation |
| `TaskTracker`, `Sandbox`, `Subagent` | as named | titles, output and child turns left out |
| `BundleDispatch`, `BundleTurn` | choosing a version; its turn in the isolate | a version is guarded or not, poisoned or not |
| `A2A` | tasks, callbacks, streams | two agents, a task's result is its state |
| `ClientView`, `ClientSocket` | the reducer's view of a session; the provider's sockets | messages are ids of log entries |
| `RateLimiter`, `Channel` | the window buckets; webhook to answer (`EXTENDS RateLimiter`) | texts are lengths |
| `Skills` | one skill | texts and hashes are version numbers |
| `AppRegistry` | one app | a build is a model value |
| `Browser` | the browsers of an agent's sessions | pages and cookies left out |
| `Files` | the bucket, the bridge's actions and the file tools, the panel that shows the files | a path is a sequence of names, a text is its hash |
| `Lists` | the members of a list that are in a set, in their order (`Only`) | what the code's filters do; a recursive function, so that it can be proved about |
| `Capabilities` | `CapabilityLifecycle`, `Subagent`, `Configuration`, `Sandbox`, `ModelStream`, `TaskTracker`, `Compaction`, `ModelRequest` side by side | constants left open; states what each promises |
| `Platform` | `A2A`, `BundleDispatch`, `BundleTurn`, `ClientView`, `SessionRouting` side by side | same |
| `Outside` | `AppRegistry`, `Browser`, `Cron`, `Skills` side by side | same |
| `SessionStoreProofs`, `TurnLifecycleProofs`, `AgentLoopProofs` | theorems of the module each is named after | |
| `CapabilityProofs`, `ContextProofs` | theorems of the components of `Capabilities`; `ContextProofs` of `Compaction` and `ModelRequest` | |
| `PlatformProofs` | theorems of the components of `Platform`, of `Channel` and of `RateLimiter` | |
| `OutsideProofs` | theorems of the components of `Outside` and of `Scheduler` | |
| `ListsProofs` | facts about `Only`, and induction on numbers and lists | |
| `MCSessionStore`, `MCModelRequest` | symmetry, and the models of a request for TLC | |
| `MCCapabilities`, `MCPlatform`, `MCOutside`, `MCProgress` | instances of the other modules, several to a run | see below |

*Packs.*  The last four put several independent components into one run.  A
variable `component` is chosen in the initial state and says which component this
behaviour is of; the others stay at one initial state.  The reachable states are
the disjoint union of those of the components, and nothing interacts there that
does not interact within a module.  A component that theorems are about is there
as itself, by `EXTENDS` of its module or of `Capabilities`, `Platform` or
`Outside`, with one set of constants, so that a run lists the definition that
its theorem states.  Where two instances are checked, the constants are those of the
larger and a conjunct beside `Next` keeps a branch to some callers or to lower
bounds: it only takes behaviours away.  `Files` is there as instances with
constants of their own, and the pack states its property; so are, in
`MCProgress`, the components whose liveness needs other constants, and in
`MCCapabilities` a session with a fourth message.

Compositions are inside modules: `TurnLifecycle` has the bundle's choice as one
step of a prompt, `Channel` extends the limiter and has the turns of a session,
`Compaction` has the session store's reading of a compaction entry,
`AgentLoop` the session log, `Sandbox` and `Browser` the scheduler's timers, and
`ModelRequest` the entries that cut runs leave.

Choices worth knowing:

- *Input gate.*  In `TurnLifecycle`, `Gated` says whether events are delivered
  while a call awaits inside `ensureAgent`.  Those awaits are cached imports
  and storage operations, during which the Durable Object holds events back;
  the runtime takes no lock of its own.  Properties that need the gate are
  checked with it; `EveryMessageSettles` is checked without.  `Sandbox`, `Skills`
  and `Subagent` interleave only where something other than storage is awaited:
  in `Sandbox` the container, so that `setSessionElevated` and the timer's
  reset, or the end of the timer's callback and the scheduler's clearing of its
  row, are one step.
- *Agents* are named after the message whose call built them, because
  `ensureAgent` builds one per call.
- *Alarms.*  A wake time is unset when the alarm is delivered, and an alarm
  whose handler did not finish is delivered again; both are what the host does.
- *Cron.*  A mismatch in month, day or weekday skips to the next day, so they
  are one set of days; the loop uses no property of 60 and 24.
- *Mutants.*  Operators whose comment says *Mutant* are deliberately wrong
  variants.  They are used nowhere; substituted for the definition below them,
  each must make TLC report the property it is listed with in `PROJECT.json`.
- *Not so.*  Some statements that one would expect are false of the code.  They
  stand in the modules with the reason, and section 3 lists them; TLC refutes
  them, and no run checks them.

Facts met while modelling that no property is about: the loader caches a bundle
under its version, so a version's code never changes; `BudgetTracker.cleanup` is
never called; A2A's cancel never succeeds and a context id never finds its
session again; the HTTP handlers of the first capability list stay in use; after
a bundle has failed, the static agent runs with the entries the bundle left; a
prompted message is in the agent's context twice, once from the log; the loop
has a shorter `transformMessages` of its own; the app list shows the newest
version's commit after a rollback; the `set` of the skills configuration changes
nothing, as `onConfigChange` has no caller for it; `file_move` and the service's
move do not compare their paths, so a file moved onto itself is deleted; `task-tracker/src/types.ts:60`
says a task is added atomically with its edges, but its row stays when an edge
is refused.

## 3. The runs

Passing runs:

| Run | Components and instances | Properties |
|---|---|---|
| `session_tree` | 1 session, 4 entries, 1 mode, pages of 2 | `TypeOK`, `LogIsTree`, `ModeCacheConsistent`, `NewMessagesInContext`, `PagerComplete`, `ContextMovesOnlyWithLeaf` |
| `agent_loop` | 1 prompt, 2 steers, 1 follow-up, 2 iterations, 1 retry, 2 parallel calls, 4 log entries | `CallsAnswered`, `HistoriesAgree`, `MailboxSpec`, `RunEnds` |
| `capabilities` | faults: 3 messages, bundle, failures, deletion, /clear, 1 eviction; turn: 4 messages by every route; compaction: 4 entries of sizes 2 and 3; tasks: 3 tasks of one session and 2 of two, with 2 dependencies at a time; sandbox: 2 sessions, one with two calls of a message at once, stops that do not overlap, 4 calls, 1 death or restart; lifecycle: 3 sessions, 4 lists; config: 2 callers, 2 namespaces, 3 operations; subagents: 2 children and 1 connection, 1 child with 2 connections and an eviction; stream: 2 calls, 3 parts; request: 2 models, 5 messages | `StreamingIsCurrent`, `MessagesKept`, `HistoryCovered`, `TasksCanProceed`, `ReelevateWaits`, `ListsAreDisposed`, `SnapshotIsStored`, `SubagentReports`, `StreamDelivered`, `RequestValid` |
| `platform` | turns and requests: 3 versions, 2 deployments of the host; bundle: 4 broadcasts, 4 queries, 2 iterations, 2 calls to an answer, every call to the host failing; a2a: 2 tasks; view: 2 sessions, pages of 1, 3 messages, 2 moves; channel: 3 messages, 1 account change, 1 eviction, and 2 messages beside a client's turn; limiter: 2 a minute, 3 an hour over 14 ticks; routing: 3 sessions, 2 sockets, 1 sender, across a second and a day | `GuardedDispatch`, `BundleTurnAnswered`, `DeliveredRowGone`, `BrowserCatchesUp`, `ChannelAnswers`, `RateBounded`, `SessionsKept` |
| `outside` | alarm: a declared timer, a prompt and a capability schedule, clock to 4; apps: 2 calls at a time, 2 versions, every command failing, and 1 call at a time with 3 versions, in order; cron: 3 days of 3 hours of 2 minutes, 3 zones; skills: a synchronisation that overlaps a tool, with 3 versions, and synchronisation, tool and request one at a time with 2; browser: 2 sessions, 3 browsers, 1 eviction, in order, and 1 session with overlapping calls that fail, 2 browsers; files: 2 files of the root and 2 directories of one file, 3 operations each, and both with failing calls and lost connections, 2 operations | `AlarmCovers`, `OccurrenceAtMostOnce`, `NoOccurrenceSkipped`, `AppsServable`, `SkillsKept`, `BrowsersAccounted`, `FilesKept` |
| `progress` | turn: 3 messages, gate off; alarm: an undeclared failing timer and a prompt schedule; dispatch: 3 versions, one poisoned, 2 changes; bundle: 2 broadcasts, 2 queries, 2 iterations, 1 call; task as in `platform`; socket: 2 urls, with and without getToken, 3 reruns, 2 lost connections or rejected tokens | `RunningIsExecuting`, `EveryMessageSettles`, `DueIsHandled`, `PoisonLeaves`, `RemoteWorkEnds`, `Reconnects` |

What the properties say is in the comments above them: in the component's module,
in `Capabilities`, `Platform` or `Outside`, or in the pack (`FilesKept` and
those of `progress`).

Runs that end in a counterexample, each a disagreement between the code and
what a comment, a document or a tool's text says (quoted in `PROJECT.json` under
`findings`):

| Run | Property | What happens |
|---|---|---|
| `sched_retention` | `LatestRunKept` | retention deletes the newest sessions, not the oldest |
| `agent_steer` | `ResultsFollowCalls` | a message steered while a tool runs is logged before the tool's result, and the next prompt sends a result that does not follow its call |
| `failed_replay` | `FailedNotReplayed` | an assistant message is stored without its stop reason, so a failed one is sent again by the next run |
| `sandbox_idle` | `ElevatedHasTimer` | a run elevates the sandbox, leaves it and elevates it again: leaving dropped the timer's callback, so no timer is set |
| `compaction_keep` | `RecentSurvive` | the cut's place in one list indexes another, and messages that were to be kept leave the context |
| `apps_rollback` | `DeployCreates` | after a rollback the next deployment takes a used number, overwrites that version's files and then throws |

**Bounds.**  Four entries are enough for a compaction, an entry it keeps, a
branch away from it and an append after gc; the proofs cover any number.  Three
messages give one that runs, one that waits and one that arrives at the worst
moment; a fourth makes the queue order visible while a message is steered.  Two
steered messages show an order, two iterations let the limit be hit with
messages pending.  Two connections are the deleter and one beside it.  The
scheduler's clock of 4 with a period of 2 lets a cron schedule fall due twice
with a timer in between; the routing clock crosses a second and a day; the cron
calendar has a day before and a day after the change of offset.  Three bundle
versions are an old one, a broken one and a rebuilt one.  Two
calls of a message and a third stop a sandbox, start it meanwhile and ask for
the promise; the fourth is of another session, or stops it again.  A bundle's
four queries are its history, an answer and two results, any of which may fail.
Two versions of an app with two calls at a time let a deletion and a new deployment
pass a rollback that waits.  Three published versions of a skill are one
installed, one in conflict and one behind it.  A larger instance of
child agents, with 2 children, 2 connections and 1 eviction (9.1 million
states), was checked once and found nothing more; so were the files of one
directory and of two with 4 operations (7.5 and 4.0 million states).  Three
operations open a directory, select a file of it and rename the directory.  Named bounds in the modules begin
with `Max`; ids are bounded by their sets.  Deadlock is not checked, because in
each model a finite supply of messages, ids or time is meant to run out.

**Fairness.**  Weak fairness, only of what the program or its host does by
itself, never of clients and never of a choice between success and failure:

- turns: the event loop resumes settled promises, and a run ends at the latest
  at the loop's iteration limit (`RunEnds` shows it);
- agent loop: each step of a run that has begun;
- alarm: the host delivers a due alarm and resumes the handler's awaits;
- dispatch: a call's next step, and that turns keep coming, since only a turn
  that fails counts against a version;
- bundle: the isolate's next step; a call to the host ends, by an answer or a
  failure, and a provider's answer ends, as its timeout and the token's expiry
  see to;
- A2A: the executor of a task finishes, by an answer or a failure, and a final
  event reaches the stream's generator;
- socket: getToken settles (that it rejects is possible at every call), browser
  timers fire and events of sockets arrive.

**Limits of single properties.**  Each holds under the conditions named; outside
of them TLC finds the counterexample described.

- `EveryMessageSettles`: no bundle and no failing construction.  If a bundle
  takes a dequeued message, or `ensureAgent` throws for it, no `agent_end`
  follows and the rest of the queue waits for the next turn.
- `MessagesKept`: the order under the gate, without a bundle, and until an agent
  cannot be made, the session is deleted, /clear is called or the object is
  evicted (the ghost `calm`).  The queue survives an eviction, but only
  `agent_end` drains it, so the next prompt overtakes what was queued.
- `PagerComplete`: not for sessions collected while the client paged, since gc
  frees seq numbers.
- `SessionsKept`: that a deletion moves the connections, for sockets in the
  transport's map.  One that has
  been silent since hibernation stays on the deleted session, and /clear moves
  its sender only.
- `RunningIsExecuting`: while the process lives; an eviction leaves "running".
- `ReelevateWaits`: of calls that ask for the promise while a stop is in flight,
  until a stop comes during another one (`StopsApart`): the second overwrites the
  promise of the first, be it of another session or of a second `de_elevate` in
  one message.  A call that had asked before the stop has no promise to wait for:
  the tools of a message run together (`agent-loop.ts:536`), and `exec` beside
  `de_elevate` may be in `provider.start` when the container is stopped.  The
  promise belongs to the module; other agents of the same isolate, which share
  it, are not modelled.
- `BundleTurnAnswered`: the log has the turn's messages in order without those
  whose own append failed.  Such a failure is swallowed, the turn goes on, and
  the next turn does not know what was lost.
- `Reconnects`: until the last getToken for the url rejected.  `connect()` then
  ends without a socket and without a timer, and the provider stays "connecting"
  until the effect runs again.  That the open socket is the one messages are sent
  on is said only of a provider with getToken, see `CurrentForUrl` below.
- `BrowserCatchesUp`: for prompts, queued messages and switches, and when the
  browser is on the session that it is connected to (see `ShownIsWatched` below).
  A steered message or a command breaks up or outlives the streaming message.
- `StreamDelivered`: parts of one call at a time.  With interleaved calls that
  carry an index only, parts go to the call begun last.
- `RequestValid`: no compaction cut between call and result, and no steered
  message there (`agent_steer`).
- `NoOccurrenceSkipped`: steady clocks, and clocks set back at a full hour within
  a day or at its end.  When clocks go forward, the skip to the next day lands an
  hour past midnight; when they are set back across midnight, the skip can pass
  the hour that is repeated.
- `RemoteWorkEnds`: for blocking stream messages with text.
- `AppsServable`: files until two calls overlap or a deletion's `rm` fails (the
  ghost `orderly`); the pointer's row for any overlap.
- `SkillsKept`: that an enabled skill can be loaded, until calls overlap or a
  synchronisation cannot write the file of a skill it has enabled (the ghost
  `orderly`); that a version dealt with stays so, until calls to the registry
  overlap or a conflict outlives its row (the ghost `clean`).  Nothing clears the
  conflict of a skill that is uninstalled, or that a version disables for a
  capability the agent lacks (`capabilities/skills/src/storage.ts`,
  `capability.ts:404`); the first edit of the skill, installed again, is then
  taken for the merge, and `registryVersion` goes back to the conflict's
  (`dirty-tracking.ts:102`-113).
- `BrowsersAccounted`: that each browser is known, until calls overlap or are cut
  short by a failure (the ghost `orderly`); that each will be closed, for any.
- `FilesKept`: one action or tool at a time; that a browser shows what is there,
  for calls that work and a connection that holds.  A read may be answered after
  the change it missed was announced, a rename may meet a write between its copy
  and its delete, and a browser that reconnects to the same session asks for
  nothing.  Directories are compared only by their files (`ListingComplete`).

**Statements the code does not keep.**  In the modules with their reasons:
`PendingTimerKept` (a timer set again during its own callback is deleted when
the callback returns); `MostRecentFirst` (two text formats of `updated_at`);
`RevertIsEarned`, `ConfigGuarded`, `GuardedSurface` (a failure count, an
installed declaration and a guard that belong to another version; a revert clears
whatever the pointer names by then);
`TurnEndShown`, `PromptOnce` (agent_end may be among the broadcasts that fail, as
when the budget is used up; a prompt is shown to the model twice); `ResultRecoverable` (the origin is busy when the
callback comes: the prompt throws, the error is dropped and the row deleted,
`a2a/src/client/handlers.ts:72`); `CommandsKnown` with paging; `ShownIsWatched` (a later
page is asked for by its session's id, and its answer brings a browser that has
switched meanwhile back to the old session, whose events it is not sent);
`OneSocket`,
`UnmountCloses`, `HeartbeatKept`, `StatusTruthful` (an onclose that comes after
the effect ran again); `CurrentForUrl` (without getToken, a timer of an earlier
url, which no reference names, makes its socket the current one);
`RejectionShown` (nobody handles the rejection of `connect()`); `AfterTurnSame`, `HooksAreOwn`, `RunNotDisposed` (another
session's run or agent_end); `ToldIsCurrent`, `AppliedIsStored` (two writers);
`Sliding` (windows restart late); `NeverSilence`, `OwnAccount` (a later message
overwrites the stash); `RunningIsListed`, `RowsLeave` (the sweep takes live
children; a canceled child still reports); `CanAsk` (thinking as text in front
of a string); `HistoryKept`, `ServedIsCurrent` (an overwritten or deleted
version, and the loader's cache under its number); `EditsKept` (a
synchronisation between the check of the mark and the write); `SkillsListed`
(the list built after an agent_end knows no skills until a client connects,
though `openspec/specs/skills/spec.md:135` wants them read from storage);
`RecoverySpares` (a recovery waiting for a release meets the session's next
browser); `ListingComplete`, `EditorIsOfFile` (only the parent of what changed is
listed again; the answer to a save goes to the editor that is open by then).

`ElevatedHasTimer` fails in a second way, with `TimerFires`: a run that begins while
the idle timer's callback waits for the container registers a callback, which
`agent-runtime.ts:3278` then deletes.

## 4. The proofs

A theorem holds for every value of the constants that its hypothesis admits; what
a run shows on one instance it says of all.  The definition it states is the one
the run's configuration lists, of the component's module or of `Platform`,
`Capabilities` or `Outside`; `N!Spec` and the like there is the specification of
one component, whatever the others do.

| Theorem | States | Under |
|---|---|---|
| `SessionStoreProofs!TypeCorrect` | `[]TypeOK` | |
| `SessionStoreProofs!LogStaysTree` | `[]LogIsTree` | |
| `SessionStoreProofs!ModeCacheCorrect` | `[]ModeCacheConsistent` | |
| `SessionStoreProofs!NewMessagesAreTold` | `[]NewMessagesInContext` | |
| `SessionStoreProofs!PagesAreComplete` | `[]PagerComplete` | |
| `SessionStoreProofs!ContextFollowsLeaf` | `ContextMovesOnlyWithLeaf`, an action property | |
| `TurnLifecycleProofs!RunIsReachable` | `[]StreamingIsCurrent` | `Gated` |
| `TurnLifecycleProofs!AcceptedIsKept` | `[]MessagesKept` | |
| `AgentLoopProofs!EveryCallIsAnswered` | `[]CallsAnswered` | |
| `AgentLoopProofs!HistoriesStayAlike` | `[]HistoriesAgree` | |
| `AgentLoopProofs!LoopIsMailbox` | `MailboxSpec`: the loop implements `SteeringMailbox` | |
| `CapabilityProofs!ListsGo` | `[]ListsAreDisposed` | |
| `CapabilityProofs!SnapshotAgrees` | `[]SnapshotIsStored` | `ConfigConstants` |
| `CapabilityProofs!ChildrenAreReported` | `[]SubagentReports` | `MaxConnects \in Nat` |
| `CapabilityProofs!StopIsAwaited` | `[]ReelevateWaits` | `[]StopsApart` |
| `CapabilityProofs!AnswersAreDelivered` | `[]StreamDelivered` | `StreamConstants` |
| `CapabilityProofs!WorkProceeds` | `[]TasksCanProceed` | `MaxTasks \in Nat` |
| `ContextProofs!HistoryIsCovered` | `[]HistoryCovered` | `CompactionConstants` |
| `ContextProofs!RequestsAreValid` | `[]RequestValid` | |
| `PlatformProofs!DispatchIsGuarded` | `[]GuardedDispatch` | `DispatchConstants` |
| `PlatformProofs!ResultsAreFinal` | `[]DeliveredRowGone` | `MaxTasks \in Nat` |
| `PlatformProofs!SessionsAreKept` | `SessionsKept`, with an action property in it | `RoutingConstants` |
| `PlatformProofs!BundleTurnsAnswer` | `[]BundleTurnAnswered` | `BundleConstants` |
| `PlatformProofs!BrowserShowsAnswers` | `[]BrowserCatchesUp` | `ViewConstants` |
| `PlatformProofs!LimiterBounded`, `ChannelBounded` | `[]RateBounded`, of the limiter alone and of the channel | `LimitsArePositive` |
| `PlatformProofs!MessagesAnswered` | `[]ChannelAnswers` | `ChannelConstants` |
| `OutsideProofs!NothingSleptThrough` | `[]AlarmCovers` | |
| `OutsideProofs!OccurrencesRunOnce` | `[]OccurrenceAtMostOnce` | |
| `OutsideProofs!RunningIsTrue` | `[]RunningIsExecuting` | `~CanEvict` |
| `OutsideProofs!NextIsFirst` | `[]NoOccurrenceSkipped` | `CronConstants` |
| `OutsideProofs!AppsAreServable` | `[]AppsServable` | |
| `OutsideProofs!BrowsersStayKnown` | `[]BrowsersAccounted` | |
| `OutsideProofs!SkillsStayKept` | `SkillsKept`, with an action property in it | `SkillConstants` |

**Hypotheses.**  Most are types: nulls differ from ids, periods, delays, page
sizes and limits are numbers, sets of sockets and versions hold no null.  They
are `ASSUME`s of the modules or operators whose names end in `Constants`, and
TLC evaluates both (the second in `MCPlatform`, `MCCapabilities` and `MCOutside`,
whose values they are about).  Seven say something about the system:

- `Gated` is the Durable Object's input gate (section 2).  Without it TLC finds
  two agents of one session at once.
- `~CanEvict`: a row keeps `running` over an eviction until its next execution.
- `LimitsArePositive`: with a limit of 0 nothing is granted, and "less than
  twice 0" would be false.  The code's limits are positive defaults.
- `StopsApart`: no `de_elevate` stops the container while another stop is on its
  way.  It is about the behaviour, not about constants, and what happens
  otherwise is said under `ReelevateWaits` above.
- `StreamConstants`: the parts of one call come before those of the next
  (`~CanInterleave`), and no call has the name of a text block.
- `CompactionConstants`: sizes are numbers, `keepRecentTokens` is positive, and the
  window has at least 7 tokens, so that 15 percent of it are one: a chunk of less
  than a token would be asked for otherwise.
- `CronConstants`: a zone's clock is steady, or set back at a full hour within a
  day or at its end.

`ViewConstants` leaves the client's operations to prompts, queued messages and
switches (see `BrowserCatchesUp` above); a page may have any size.

Four properties have a half that holds only until something goes wrong.  That
is part of the state, a ghost that a step which goes wrong sets to `FALSE`, so
that the theorem has no hypothesis about it and speaks of every behaviour up to
then: `calm` of `TurnLifecycle`, `orderly` of `AppRegistry`, of `Browser` and of
`Skills`, and `clean` of `Skills`.
TLC reaches states where each is `TRUE` after all kinds of calls, and finds the
half violated when the ghost is left out.

**Inductive invariants.**  No property above is inductive by itself, with the
exception of `RunningIsExecuting` beside the types of the rows.

*SessionStore.*  The mode cache alone is not inductive: that a branch or a gc
leaves it right depends on the walk being well defined.  The invariant is
`TypeOK /\ LogIsTree /\ HasLastRow /\ WalksHaveNearest /\ ModeCacheConsistent`.
`LogIsTree` makes walks end (a parent has a smaller seq).  `HasLastRow` says
that a session with entries has one of largest seq, so that the next seq is
defined and larger than all.  `WalksHaveNearest` says that among the mode
changes on a walk there is a nearest one.  The last two would follow from
finiteness by induction; carrying them in the invariant avoids it.  The lemmas
show that the walk from an entry is unchanged by rows outside it and extends by
one on an append.
`NewMessagesInContext` adds `KeptOlder`: the entry a compaction names was there
before it, so it has a smaller seq or has gone, and its id is not given again.
Two rows of a walk are always one above the other (`ChainTotal`), so the last
compaction is the one of greatest seq, and what comes after it is in the context
whether or not the named entry is found.
`ContextMovesOnlyWithLeaf` compares two states: a context is read off rows of
its walk, and a step that leaves the leaf in place removes none of them.
`PagerComplete` adds that the table is finite (a page is the rows of least seq,
which must exist) and `CursorHasRow`: until a gc the row at the cursor is still
there.  The next seq is one above the largest, so no row can then appear below
the cursor; after a gc it can, and the property says so.

*TurnLifecycle.*  `StreamingIsCurrent` needs `EnsureAlone`: at most one call is
inside `ensureAgent`, and while one is, nothing streams.  It holds because the
busy check and the entry into `ensureAgent` are one step, and the gate keeps
every other event out until the agent streams.
`MessagesKept` has two halves.  `DurableInv` needs no gate: every message that
arrived is in the log, or in the queue with its call at an end, or its sender
was told.  `OrderInv` is about a session that is `calm`: the messages
taken come before the one inside `ensureAgent`, it comes before those in the
queue, and the queue is in order of arrival; a queue that is not empty has an
agent at work or one about to be (`Undamaged`), since otherwise a prompt would
overtake it.

*Scheduler.*  `AlarmCovers` is strengthened by the types of the rows, which make
the minimum of `getEarliestFireTime` exist; that a set of natural numbers has a
least element is taken from the library's theorem on well-founded relations.
`OccurrenceAtMostOnce` needs to know what the handler's snapshot still may do:
`OnceInv` says that the waiting rows of the snapshot are distinct, that each is
later than everything its schedule ran, and that the table's next time is later
still once the row has been executed.  An eviction drops the snapshot, and the
row in the table, already moved on, keeps the occurrence from being read again.

*AgentLoop.*  `IInv` is `TypeOK /\ Phases /\ Copies /\ Kept`.  `Copies` compares
the loop's copy of the history with the agent's as `transformMessages` shows
them: alike and complete when the model is asked; alike but for the failed answer
during a retry's pause; and while tools run alike with the results so far, with
no call open but those that are yet to be prepared or finished.  `Kept` says
that every message of the copies is in the session log, failed answers and
follow-ups apart.  Histories that are shown alike stay so when one message is
put to both, and a failed answer with no call open changes nothing shown.  For
the mailbox each action is shown to post, hear or drop letters, or to leave
`Posted`, `Inbox` and `Heard` as they are.

*AppRegistry.*  `PointerHasRow` is not inductive, since a rollback sets the
pointer of the row long after it looked the version up.  The invariant adds that
ids are given out in order and never again (`IdsAreFresh`), and that a rollback
under way whose app still is the one it knew holds a version that app has
(`RollbackFits`): versions of an app are only ever added, and an app deployed
anew under the slug has another id.  `Shape` gives the types, and `Awaits`
which call waits for which command.  That the update is by id, not by slug, is
what the proof turns on.
`AppsServable` also speaks of the bucket.  `FilesInv`, while the calls are
`orderly`, says what the one call
under way has put there (`AtWork`), that all versions with a row have files
unless a deletion has begun to remove them (`RowsHaveFiles`), and that by then
nothing is served (`DeletedIsEmpty`): the order in which `delete_app` works.

*Browser.*  `BrowsersEnd` needs only the types of calls and rows.  `KnownInv`,
while calls are `orderly`, follows a call: an open without a row holds the browser
it created, any other call the one of its row, and a recovery those of the rows
it has left.  With calls alone (`Alone`) an open that writes its row last writes
over none.

*RateLimiter.*  A row knows only its current window.  What bounds a span that
reaches back over it is in `Window`: of the last `limit` grants before the
window, the first is a whole window older than its start.  Two windows then
give less than twice the limit, and no more is known.

*Channel.*  `AnswerInv` says where the answer of each message is: with its turn,
its afterTurn hook, its reply on the way or sent, in exactly one of them, or
dropped with its account; and that the inbound at that place is not earlier than
the message (`LaterTarget`), as the stash is only overwritten by later ones.

*CapabilityLifecycle.*  The two parts of `ListsAreDisposed` are inductive
together: that what was set up will be disposed relies on the disposers being
those of the cached list, and this on every list having its own generation.

*Configuration.*  `ConfigInv` follows the storage's queue.  A namespace is
`Settled` when the last operation waiting for it will leave in the snapshot what
the store then holds.  A load must not have been overtaken: what it has read of
each namespace is still stored.

*Subagent.*  `ChildInv` says that a completion callback that has not yet written
finds nothing logged, and that every child that ended is at work on by its
callback, by a sweep that may still see its row, or is reported and cleared.

*Sandbox.*  `StopIsPromised`: the teardown promise is that of the stop on its way,
when there is one, and a call holds the promise of every stop that it saw in
flight when it asked.  It starts the container when what it holds is resolved, so
none of those is left, while a stop that began after it had asked is none of them.

*ModelStream.*  `Flow` joins each stream's queue and waiting reader into what is
in flight, and shows that what was pushed is what was told followed by that; a
reader waits only for what will come.  `Brackets` says of the events of each block
that they are a start, a delta for each of its parts and, once closed, an end.
`Own` says that a call which is not the last the service sent a part of gets no
more parts, so that a part without an id belongs to the open block.

*TaskTracker.*  That open tasks never all wait for each other is an order, not a
search: the invariant has a rank (`Ranked`) for every task, above those it waits for.  A new
task ranks above its parent; an edge that the cycle check lets pass lifts
everything but what its target waits for, so the proof is about what that search,
run in rounds, has seen when it ends.  A task of least rank is offered.

*Compaction.*  The properties are about functions of the history, so the invariant
(`HistoryTypes`) only says what a history is: places of the log, or the summary.
The work is in the functions, which run over a list once, from behind (sizes, cut,
pruning) or from the front (chunks): what each has found after so many messages
is shown by induction on their number.

*ModelRequest.*  `RequestInv` holds of a run's context: results come in the order of
the calls of the last answer (`OpenAt`, a trace of the calls open after each
message), the calls of a message are distinct (`CallsKnown`), and two answers with
the same call are of the same model (`Apart`), which a rebuilt context and its
doubled prompt keep.  The first pass renames calls and results alike.  After each
message of the second pass the pending calls without a result are those the trace
says are open, so what is made up for is exactly what is missing.  The conversion
puts messages in between only where no call is open.

*BundleTurn.*  `BundleInv`: the calls without a result are those still to execute,
in order (`Owed`), whatever history was loaded and whichever appends failed.  The
log is read off the places of the conversation (`Places`): a further message adds
its place as the last when its append is taken, and none when it fails.

*ClientView.*  `ViewInv` follows the answers of the log through what is on its way to
the browser: there is a run of views (`Follows`), one for each message in flight, from
the one displayed to the one the server has promised.  When nothing is in flight
the run is one view long.

*Cron.*  `SearchInv` is the property with types: no minute passed matches.  A skip
keeps it since until the next full hour the local hour stays, and until the end of
the day the local day, as it was when the skip began; this is what
`CronConstants` says of a clock that is set back.

*Skills.*  `LoadInv`, while `orderly`: one call is under way, and if an enabled skill
has no file the call is about to write it or to take the skill back.
`VersionInv`, while `clean`: one call is at the registry, what it holds is no older
than what was dealt with, and a conflict belongs to its row.

*A2A.*  `TaskInv`: a pending row has no answer yet, a callback follows the end
of its task, and nothing that could write the row again is on the way once the
result was put into the session.

*BundleDispatch.*  `DispatchInv` says at each place of a turn what it carries: a
version that was looked up, and, between the validation and the dispatch, one
that the running host takes.  Rebuilds exclude each other through the promise
all turns share.  A restart stops every task (`NothingRuns`), which is why a
host with other declarations meets no version checked against the old ones.

*SessionRouting.*  `RouteInv` is the types, `SessionRemains` and
`OneSessionPerSender`; from it every step either keeps the rows' senders or makes
a row for a sender that has none, and a deletion moves the connections it knows.

**Induction.**  What a step computes from a list (filters, folds, the passes over
a history) is a recursive function here.  That it exists and is unique, and
induction over it, are derived in `ListsProofs` from the least element of a set
of numbers: `NatInduct`, `ListInduct`, `RunUp` and `RunDown` are about sets of
numbers and lists, so they need no operator as a parameter.

**Only model-checked**, and why:

- liveness (`RunEnds`, `EveryMessageSettles`, `DueIsHandled`, `PoisonLeaves`,
  `RemoteWorkEnds`, `Reconnects`), which rests on fairness and `ENABLED`;
- `FilesKept`, which is stated of three instances of `Files`: what a browser shows,
  where calls work, and that no text is lost, where they may fail.

## 5. Plan

Modules, in order of importance:

1. A composition of `TurnLifecycle`, `AgentLoop` and `CapabilityLifecycle` for
   two sessions, in which one session's agent_end meets the other's turn.
2. What `agent-do.ts` adds to dispatch: the lifecycle hooks of a bundle and the
   sockets' attachments at start.
3. The rest of the bundle SDK (routing of requests, validation) and the nonce
   tracker of its token; the processes and sessions inside a sandbox's container.
4. MCP connections, fleet and peering, the schedule-owning capabilities.
5. Parsing of cron expressions as a pure module.

Theorems worth proving next: `FilesKept`, with the faults as a ghost like `orderly`
instead of instances; `RunningIsExecuting` with evictions, restated for rows of the
present process; `StreamDelivered` for services that say an index with every part;
`BrowserCatchesUp` with steered messages shown where the log has them.

## 6. Not modelled

Text and layout (system prompts, formatting, rendering), the wire protocols of
model providers, signatures and encryption, object storage behind stateless
tools, generated model tables, build tooling, examples and end-to-end tests.
Of modelled parts, what is left out is in their notes; the reason for each part
that is not modelled is in `PROJECT.json` under `components`.
