------------------------------ MODULE Platform ------------------------------
(***************************************************************************)
(* What is around a turn: tasks of other agents (A2A), the dispatch of     *)
(* turns to a bundle (BundleDispatch) and the turn of one (BundleTurn),    *)
(* the browser's view of a session (ClientView), and the sessions that     *)
(* sockets and senders are routed to (SessionRouting), side by side and    *)
(* under any constants, with what each of them promises.                   *)
(***************************************************************************)
EXTENDS Integers, FiniteSets

CONSTANTS MaxTasks                                               \* A2A
CONSTANTS Versions, Hosts, Poison, Rebuilt, Turns, Surfaces,
          MaxFailures, MaxChanges                                \* BundleDispatch
CONSTANTS Sessions, Sockets, Peers, NoId, TicksPerSecond, TicksPerDay,
          LastTick, CanClear, CanHibernate                       \* SessionRouting
CONSTANTS MaxBroadcasts, MaxSqlOps, MAX_INFERENCE_ITERATIONS_PER_TURN,
          MaxDeltas, MaxCalls, CanExpire                         \* BundleTurn
CONSTANTS Chats, UserOps, PageLimit, MaxMsgs, MaxMoves           \* ClientView

VARIABLES created, state, kind, reply, push, pending, check, busy, injecting,
          answered, delivered, bus, stream
VARIABLES active, cache, host, validated, failures, meta, rebuild, task,
          changes, failed, cleared
VARIABLES rows, used, attached, tracked, routingClock
VARIABLES place, before, history, conv, log, lost, broadcasts, sqlOps, expired,
          endShown, iter, deltas, todo, outcome
VARIABLES chatLog, agentPhase, streaming, queued, conn, toServer, toClient, view,
          current, status, known, isOpen, messages, moves

taskVars == <<created, state, kind, reply, push, pending, check, busy, injecting,
              answered, delivered, bus, stream>>
dispatchVars == <<active, cache, host, validated, failures, meta, rebuild, task,
                  changes, failed, cleared>>
routingVars == <<rows, used, attached, tracked, routingClock>>
bundleVars == <<place, before, history, conv, log, lost, broadcasts, sqlOps,
                expired, endShown, iter, deltas, todo, outcome>>
viewVars == <<chatLog, agentPhase, streaming, queued, conn, toServer, toClient,
              view, current, status, known, isOpen, messages, moves>>

A == INSTANCE A2A
D == INSTANCE BundleDispatch
B == INSTANCE BundleTurn WITH pc <- place
V == INSTANCE ClientView WITH
       Sessions <- Chats, Ops <- UserOps, log <- chatLog, phase <- agentPhase,
       stream <- streaming, queue <- queued, up <- toServer, down <- toClient,
       sess <- current, caps <- known, open <- isOpen, used <- messages
N == INSTANCE SessionRouting WITH
       Senders <- Peers, None <- NoId, MaxClock <- LastTick, clock <- routingClock

-----------------------------------------------------------------------------
\* A task whose result reached the session is not pending any more (A2A).
DeliveredRowGone == A!DeliveredRowGone

\* A turn is given only to a version that the running host can take, and turns
\* that arrive together after a start share one rebuild (BundleDispatch).
GuardedDispatch == D!GuardedDispatch /\ D!OneRebuild

\* Whenever the model is asked, each tool call has its result right after it,
\* and a failed append takes no entry of the turn but its own (BundleTurn).
BundleTurnAnswered == B!ToolsAnswered /\ B!LogFollowsTurn

\* A browser that has caught up shows the answers of the log, each once and none
\* as still streaming, and does not take an idle agent for busy (ClientView).
BrowserCatchesUp == V!AnswersShown /\ V!StatusSettles

\* While a client is connected there is a session to be redirected to, a
\* channel's sender has one session, also around deletions and /clear, list() is
\* ordered across days, and within a day among timestamps of the same format; and
\* a step that deletes a session leaves no connection that the transport knows of
\* on it (SessionRouting).
SessionsKept == N!SessionsKept
=============================================================================
