----------------------------- MODULE BundleTurn -----------------------------
(***************************************************************************)
(* One turn of a bundle brain: runBundleTurn inside the isolate, and the   *)
(* host state that it reaches only through SpineService calls.             *)
(*                                                                         *)
(* Every spine call carries the turn's token, which expires, and is        *)
(* counted by the host against a budget of its category before it is       *)
(* done; a call with an expired token, or over budget, throws, and so does *)
(* any call whose transport or operation fails.  The turn swallows that    *)
(* for broadcasts, for entries and for the history.                        *)
(* A message is its role, the number of its tool calls or the call it      *)
(* answers.  The answers of the model, of tools and of hooks are free.     *)
(***************************************************************************)
EXTENDS Naturals, Sequences, Lists

CONSTANTS
    MaxBroadcasts, MaxSqlOps,           \* SpineBudgetConfig
    MAX_INFERENCE_ITERATIONS_PER_TURN,
    MaxDeltas,                          \* bound: text deltas of one answer
    MaxCalls,                           \* bound: tool calls of one answer
    CanExpire                           \* the turn may outlive its token

VARIABLES
    pc,          \* where the turn is
    before,      \* host: the session's entries when the turn is dispatched
    history,     \* what the turn loaded of them
    conv,        \* what the turn adds to its conversation: prompt, answers, results
    log,         \* host: the entries that the turn appended
    lost,        \* the places of conv whose append failed
    broadcasts, sqlOps,   \* host: spineBudget's counters for the turn's nonce
    expired,     \* the token's exp has passed
    endShown,    \* host: agent_end went to the session's connections
    iter,        \* inferences begun
    deltas,      \* text deltas of the answer that streams
    todo,        \* completedToolCalls still to execute
    outcome      \* "running", or how the stream ended

vars == <<pc, before, history, conv, log, lost, broadcasts, sqlOps, expired,
          endShown, iter, deltas, todo, outcome>>

User == [role |-> "user", n |-> 0]
Assistant(calls) == [role |-> "assistant", n |-> calls]
ToolResult(call) == [role |-> "tool", n |-> call]

\* handlePrompt has entered the prompt when it dispatches the turn; an earlier
\* exchange, in which a tool ran, may precede it.
Init ==
    /\ before \in {<<User>>, <<User, Assistant(1), ToolResult(1), Assistant(0), User>>}
    /\ pc = "start" /\ history = <<>> /\ conv = <<>> /\ log = <<>> /\ lost = {}
    /\ broadcasts = 0 /\ sqlOps = 0 /\ expired = FALSE /\ endShown = FALSE
    /\ iter = 0 /\ deltas = 0 /\ todo = <<>> /\ outcome = "running"

expire == /\ CanExpire /\ ~expired /\ outcome = "running"
          /\ expired' = TRUE
          /\ UNCHANGED <<pc, before, history, conv, log, lost, broadcasts, sqlOps,
                         endShown, iter, deltas, todo, outcome>>

----------------------------------------------------------------------------
(* The spine: verify, then withSpineBudget, then the operation.           *)

CanAppend == ~expired /\ sqlOps < MaxSqlOps

\* A call that fails: refused, broken off on its way, or counted and failed then.
SqlFails == sqlOps' = sqlOps \/ (CanAppend /\ sqlOps' = sqlOps + 1)

\* safeBroadcast for each of events: any of them may fail, counted or not.
Broadcast(events) ==
    /\ broadcasts' \in {broadcasts} \cup
         IF expired THEN {} ELSE broadcasts .. broadcasts + Len(events)
    /\ broadcasts' <= MaxBroadcasts
    /\ endShown' \in {endShown, broadcasts' > broadcasts
                                  /\ \E i \in DOMAIN events : events[i] = "agent_end"}

\* The message is appended to the session and pushed to the conversation; a
\* failure of the append is swallowed.
Persist(m) ==
    /\ conv' = Append(conv, m)
    /\ \/ CanAppend /\ sqlOps' = sqlOps + 1 /\ log' = Append(log, m) /\ UNCHANGED lost
       \/ SqlFails /\ lost' = lost \cup {Len(conv) + 1} /\ UNCHANGED log

----------------------------------------------------------------------------
(* The turn.                                                              *)

\* Results of earlier tools are dropped, and answers without text with them; here
\* an answer with calls has no text.
historyToMessages(entries) == Only(entries, {User, Assistant(0)})

\* Any failure of buildContext leaves the turn without history.
loadHistory ==
    /\ pc = "start"
    /\ \/ CanAppend /\ sqlOps' = sqlOps + 1 /\ history' = historyToMessages(before)
       \/ SqlFails /\ history' = <<>>
    /\ conv' = <<User>> /\ pc' = "infer"
    /\ UNCHANGED <<before, log, lost, broadcasts, expired, endShown, iter, deltas, todo, outcome>>

\* The catch of the stream's start: the client is told, the host counts a failure.
fail ==
    /\ Broadcast(<<"message_end", "agent_end">>)
    /\ pc' = "end" /\ outcome' = "error"
    /\ UNCHANGED <<before, history, conv, log, lost, sqlOps, expired, iter, deltas, todo>>

beforeInference ==
    /\ pc = "infer"
    /\ IF iter = MAX_INFERENCE_ITERATIONS_PER_TURN \/ expired THEN fail
       ELSE /\ Broadcast(<<"message_start">>)
            /\ iter' = iter + 1 /\ deltas' = 0 /\ pc' = "open"
            /\ UNCHANGED <<before, history, conv, log, lost, sqlOps, expired, todo, outcome>>

\* A hook of the bundle's own throws, or the host's bridge cannot be reached; or
\* the bundle's setup throws.
hookThrows == pc \in {"start", "infer"} /\ fail

inferStream ==
    /\ pc = "open"
    /\ \/ /\ ~expired /\ pc' = "stream"
          /\ UNCHANGED <<before, history, conv, log, lost, broadcasts, sqlOps, expired,
                         endShown, iter, deltas, todo, outcome>>
       \/ fail     \* ERR_RATE_LIMITED, ERR_UPSTREAM_OTHER, ERR_TOKEN_EXPIRED

textDelta ==
    /\ pc = "stream" /\ deltas < MaxDeltas
    /\ Broadcast(<<"message_update">>)
    /\ deltas' = deltas + 1
    /\ UNCHANGED <<pc, before, history, conv, log, lost, sqlOps, expired, iter, todo, outcome>>

\* The provider's stream breaks off.
streamThrows == pc = "stream" /\ fail

\* The stream completes with n calls; only toolUse with calls goes on.
completed(n, stopReason) ==
    /\ pc = "stream"
    /\ Persist(Assistant(n))
    /\ IF stopReason # "toolUse" \/ n = 0
       THEN /\ Broadcast(<<"message_end", "agent_end">>)
            /\ pc' = "end" /\ outcome' = "ok" /\ UNCHANGED todo
       ELSE /\ Broadcast(<<"message_end">>)
            /\ pc' = "tool" /\ todo' = [k \in 1..n |-> k] /\ UNCHANGED outcome
    /\ UNCHANGED <<before, history, expired, iter, deltas>>

\* A variant that, when a hook blocks the call, leaves it without a result.
toolBlockedSilently ==
    /\ pc = "tool" /\ todo # <<>> /\ ~expired
    /\ Broadcast(<<"tool_execution_start", "tool_execution_end">>)
    /\ todo' = Tail(todo)
    /\ UNCHANGED <<pc, before, history, conv, log, lost, sqlOps, expired, iter, deltas, outcome>>

toolBlocked ==
    /\ pc = "tool" /\ todo # <<>> /\ ~expired
    /\ Broadcast(<<"tool_execution_start", "tool_execution_end">>)
    /\ Persist(ToolResult(Head(todo)))
    /\ todo' = Tail(todo)
    /\ UNCHANGED <<pc, before, history, expired, iter, deltas, outcome>>

\* Not blocked, or the bridge could not be reached.
toolStart ==
    /\ pc = "tool" /\ todo # <<>>
    /\ Broadcast(<<"tool_execution_start">>)
    /\ pc' = "executing"
    /\ UNCHANGED <<before, history, conv, log, lost, sqlOps, expired, iter, deltas, todo, outcome>>

\* The tool returned, threw, or is unknown.
toolEnd ==
    /\ pc = "executing"
    /\ Broadcast(<<"tool_execution_end">>)
    /\ Persist(ToolResult(Head(todo)))
    /\ todo' = Tail(todo) /\ pc' = "tool"
    /\ UNCHANGED <<before, history, expired, iter, deltas, outcome>>

nextIteration ==
    /\ pc = "tool" /\ todo = <<>>
    /\ pc' = "infer"
    /\ UNCHANGED <<before, history, conv, log, lost, broadcasts, sqlOps, expired,
                   endShown, iter, deltas, todo, outcome>>

Step ==
    \/ loadHistory \/ beforeInference \/ hookThrows \/ inferStream \/ textDelta
    \/ streamThrows
    \/ \E n \in 0..MaxCalls, r \in {"toolUse", "stop", "length"} : completed(n, r)
    \/ toolBlocked \/ toolStart \/ toolEnd \/ nextIteration

Next == Step \/ expire

Spec == Init /\ [][Next]_vars

\* The isolate runs, and provider and tools answer, in the end.
FairSpec == Spec /\ WF_vars(Step)

----------------------------------------------------------------------------

Calls(m) == IF m.role = "assistant" THEN m.n ELSE 0

\* The messages of the next request, after the system prompt.
Request == history \o conv

(* Whenever the model is asked, each tool call of the request is answered  *)
(* by results that follow it at once, in the order of the calls, also when *)
(* a hook blocked one, a tool threw or entries were lost (runtime.ts 2 and *)
(* 5g to 5i).                                                              *)
ToolsAnswered ==
    pc = "open" => \A i \in DOMAIN Request : \A k \in 1..Calls(Request[i]) :
        i + k <= Len(Request) /\ Request[i + k] = ToolResult(k)

\* The places of the turn's messages whose append was taken; the prompt was
\* entered before the turn.
Kept == Only([i \in 1..Len(conv) |-> i], (2..Len(conv)) \ lost)

(* The entries of the turn are what it said and was answered, in order,    *)
(* without those whose own append failed: a failure takes no other entry   *)
(* with it, and none is moved, doubled or invented.                        *)
LogFollowsTurn == log = [j \in DOMAIN Kept |-> conv[Kept[j]]]

(* A turn ends, with an answer or as a failure.                            *)
TurnEnds == <>(outcome # "running")

(* What the theorem about these properties assumes of the constants.       *)
BundleConstants == MaxCalls \in Nat

(* The client of a turn that ended was told so: "broadcasts agent_end      *)
(* before we return" (agent-do.ts).                                        *)
TurnEndShown == outcome # "running" => endShown

(* The model is shown the prompt once.                                     *)
PromptOnce == pc = "open" =>
    \A i \in 1..Len(Request) - 1 : ~(Request[i] = User /\ Request[i + 1] = User)
=============================================================================
