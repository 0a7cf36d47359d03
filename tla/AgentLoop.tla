----------------------------- MODULE AgentLoop ------------------------------
(***************************************************************************)
(* The agent loop of agent-core: Agent (agent.ts) and runLoop              *)
(* (agent-loop.ts), with the view of the history that a provider is sent   *)
(* (transformMessages of the ai package).                                  *)
(*                                                                         *)
(* An action is what runs between two points where the loop waits for the  *)
(* world: the model, a retry timer, a hook or a tool.  Two copies of the   *)
(* history exist during a run: `ctx`, the loop's own context, and `log`,   *)
(* the agent's state.messages, from which the next run's context is        *)
(* copied.  A third, `stored`, is the session log in which the runtime     *)
(* enters a user message when it accepts it, an answer at message_end and  *)
(* a tool result at tool_execution_end, and from which it builds the agent *)
(* of the next prompt.                                                     *)
(***************************************************************************)
EXTENDS Integers, FiniteSets, SequencesExt, Lists

CONSTANTS Prompts,        \* texts that start a run
          Steers,         \* texts steered into a run
          FollowUps,      \* texts queued for when the run would stop
          Sequential,     \* config.toolExecution = "sequential"
          OneAtATime,     \* steeringMode and followUpMode
          MaxIterations,  \* config.maxIterations
          MaxRetries,     \* config.maxStreamRetries
          MaxCalls,       \* bound: tool calls in one answer
          MaxLog          \* bound: no new run or message once this much is logged

\* A message is named by its text, so a steered one is told from the others.
ASSUME SteersDiffer ==
  Steers \cap (Prompts \cup FollowUps \cup {"restored"}) = {}

VARIABLES isStreaming,    \* _state.isStreaming
          aborted,        \* abortController.signal.aborted
          log,            \* _state.messages
          stored,         \* the message entries of the session log
          steering,       \* steeringQueue
          followUp,       \* followUpQueue
          phase,          \* what the loop waits for
          ctx,            \* currentContext.messages
          pending,        \* pendingMessages
          iteration,      \* iterationCount
          attempt,        \* stream attempts after the first
          todo,           \* tool calls not yet prepared
          runnable,       \* prepared tool calls, in order
          finished,       \* runnable calls whose execution has settled
          results         \* toolResults

vars == <<isStreaming, aborted, log, stored, steering, followUp, phase, ctx,
          pending, iteration, attempt, todo, runnable, finished, results>>

loopVars == <<ctx, pending, iteration, attempt, todo, runnable, finished,
              results>>

(***************************************************************************)
(* Messages.  A tool call is named after the place of its message in the   *)
(* log, so ids are unique as the providers' are.  Of the stop reasons only  *)
(* failure (error, aborted) matters once a message is in the history.      *)
(***************************************************************************)
User(u) == [role |-> "user", text |-> u]
Assistant(stop, calls) == [role |-> "assistant", stop |-> stop, calls |-> calls]
ToolResult(c) == [role |-> "toolResult", call |-> c]
Users(us) == [i \in DOMAIN us |-> User(us[i])]

FailedAnswer == Assistant("failed", <<>>)

\* The entry of an assistant message has no stop reason.
Entry(m) == IF m = FailedAnswer THEN Assistant("stop", <<>>) ELSE m

\* Mutant: tool results are entered at the end of the turn only.
EmitUnstored(m) ==
  /\ log' = Append(log, m)
  /\ stored' = IF m.role = "toolResult" THEN stored ELSE Append(stored, Entry(m))

\* A message that ends is in the agent's state and in the session log.
Emit(m) == log' = Append(log, m) /\ stored' = Append(stored, Entry(m))

(***************************************************************************)
(* transformMessages: failed answers are left out, and a tool call that    *)
(* has no result by the next user or assistant message gets a synthetic    *)
(* one.  acc.open are the calls of the last answer, acc.seen the results   *)
(* since.                                                                  *)
(***************************************************************************)
Orphans(acc) ==
  LET missing == Only(acc.open, Range(acc.open) \ acc.seen)
  IN  [i \in DOMAIN missing |-> ToolResult(missing[i])]

\* Mutant: only a user message triggers the synthetic results.
TransformOneUserOnly(acc, m) ==
  CASE m.role = "user" ->
         [out |-> acc.out \o Orphans(acc) \o <<m>>, open |-> <<>>, seen |-> {}]
    [] m.role = "toolResult" ->
         [acc EXCEPT !.out = Append(@, m), !.seen = @ \cup {m.call}]
    [] m.role = "assistant" ->
         IF m.stop = "failed" THEN [acc EXCEPT !.open = <<>>, !.seen = {}]
         ELSE [out |-> Append(acc.out, m), open |-> m.calls, seen |-> {}]

TransformOne(acc, m) ==
  CASE m.role = "toolResult" ->
         [acc EXCEPT !.out = Append(@, m), !.seen = @ \cup {m.call}]
    [] m.role = "user" ->
         [out |-> acc.out \o Orphans(acc) \o <<m>>, open |-> <<>>, seen |-> {}]
    [] m.role = "assistant" ->
         LET flushed == acc.out \o Orphans(acc)
         IN  IF m.stop = "failed"
               THEN [out |-> flushed, open |-> <<>>, seen |-> {}]
               ELSE [out |-> Append(flushed, m), open |-> m.calls, seen |-> {}]

\* The accumulator after all of ms.
Transformed(ms) ==
  LET after[n \in 0 .. Len(ms)] ==
        IF n = 0 THEN [out |-> <<>>, open |-> <<>>, seen |-> {}]
        ELSE TransformOne(after[n - 1], ms[n])
  IN  after[Len(ms)]

transformMessages(ms) == Transformed(ms).out

-----------------------------------------------------------------------------
(***************************************************************************)
(* Polling the queues.  Poll gives what is taken and what is left.         *)
(***************************************************************************)
\* Mutant: the newest message is taken.
PollNewest(q) ==
  IF q = <<>> THEN [taken |-> <<>>, left |-> <<>>]
  ELSE [taken |-> <<Last(q)>>, left |-> Front(q)]

Poll(q) ==
  IF q = <<>> THEN [taken |-> <<>>, left |-> <<>>]
  ELSE IF OneAtATime THEN [taken |-> <<Head(q)>>, left |-> Tail(q)]
  ELSE [taken |-> q, left |-> <<>>]

\* steer and followUp, called while the agent streams (the runtime checks
\* that); each text is sent once.
Sent == {m.text : m \in {x \in Range(log) \cup Range(stored) : x.role = "user"}}
          \cup Range(steering) \cup Range(followUp) \cup Range(pending)

steer(u) ==
  /\ isStreaming /\ Len(stored) + Len(followUp) < MaxLog
  /\ u \notin Sent
  /\ steering' = Append(steering, u)
  /\ stored' = Append(stored, User(u))
  /\ UNCHANGED <<isStreaming, aborted, log, followUp, phase>>
  /\ UNCHANGED loopVars

followUpWith(u) ==
  /\ isStreaming /\ Len(stored) + Len(followUp) < MaxLog
  /\ u \notin Sent
  /\ followUp' = Append(followUp, u)
  /\ UNCHANGED <<isStreaming, aborted, log, stored, steering, phase>>
  /\ UNCHANGED loopVars

abort ==
  /\ isStreaming /\ ~aborted
  /\ aborted' = TRUE
  /\ UNCHANGED <<isStreaming, log, stored, steering, followUp, phase>>
  /\ UNCHANGED loopVars

-----------------------------------------------------------------------------
(***************************************************************************)
(* _runLoop up to the first wait.  The context is a copy of the log; the   *)
(* messages us are added to both; the steering queue is polled unless the  *)
(* run was itself started from it.                                         *)
(***************************************************************************)
StartRun(base, us, queue, poll) ==
  LET p == IF poll THEN Poll(queue) ELSE [taken |-> <<>>, left |-> queue]
  IN  /\ isStreaming' = TRUE
      /\ aborted' = FALSE
      /\ log' = base \o Users(us)
      /\ ctx' = log'
      /\ steering' = p.left
      /\ pending' = p.taken
      /\ phase' = "iterate"
      /\ iteration' = 0
      /\ attempt' = 0
      /\ UNCHANGED <<todo, runnable, finished, results>>

\* handlePrompt of the runtime: the message is entered in the session log, a
\* new agent is built from the log and prompted with the same message.
handlePrompt(u) ==
  /\ ~isStreaming /\ Len(stored) < MaxLog
  /\ u \notin Sent
  /\ stored' = Append(stored, User(u))
  /\ StartRun(stored', <<u>>, <<>>, TRUE)
  /\ followUp' = <<>>

\* continue: from a user message or a tool result as it is; from an assistant
\* message only with something queued, the steering queue first.
continue ==
  /\ phase = "idle" /\ Len(log) < MaxLog
  /\ log # <<>>
  /\ \/ /\ Last(log).role # "assistant"
        /\ StartRun(log, <<>>, steering, TRUE)
        /\ UNCHANGED followUp
     \/ /\ Last(log).role = "assistant" /\ steering # <<>>
        /\ StartRun(log, Poll(steering).taken, Poll(steering).left, FALSE)
        /\ UNCHANGED followUp
     \/ /\ Last(log).role = "assistant" /\ steering = <<>> /\ followUp # <<>>
        /\ StartRun(log, Poll(followUp).taken, steering, TRUE)
        /\ followUp' = Poll(followUp).left
  /\ UNCHANGED stored

(***************************************************************************)
(* agent_end and the finally block of _runLoop.  Only microtasks run       *)
(* between the two, and the runtime drops the agent at agent_end.          *)
(***************************************************************************)
Discard ==
  /\ isStreaming' = FALSE
  /\ aborted' = FALSE
  /\ ctx' = <<>> /\ pending' = <<>>
  /\ iteration' = 0 /\ attempt' = 0
  /\ todo' = <<>> /\ runnable' = <<>> /\ finished' = {} /\ results' = <<>>

EndRun == Discard /\ phase' = "idle"

\* The catch block of _runLoop, for an exception of streamFn, of a context
\* hook or of afterToolCall: an empty answer that carries the error,
\* which no event announces.
Throw ==
  /\ log' = Append(log, FailedAnswer)
  /\ UNCHANGED stored
  /\ EndRun

(***************************************************************************)
(* runLoop.  The top of the inner loop: the iteration limit, then the      *)
(* pending messages.  Messages that were already polled when the limit is  *)
(* hit are in no queue any more.                                           *)
(***************************************************************************)
iterationLimit ==
  /\ phase = "iterate" /\ iteration = MaxIterations
  /\ Emit(FailedAnswer)
  /\ EndRun
  /\ UNCHANGED <<steering, followUp>>

\* Mutant: steered messages go to the model without a message_end event.
iterateSilently ==
  /\ phase = "iterate" /\ iteration < MaxIterations
  /\ iteration' = iteration + 1
  /\ ctx' = ctx \o Users(pending)
  /\ pending' = <<>>
  /\ phase' = "model"
  /\ attempt' = 0
  /\ UNCHANGED <<isStreaming, aborted, log, stored, steering, followUp, todo,
                 runnable, finished, results>>

iterate ==
  /\ phase = "iterate" /\ iteration < MaxIterations
  /\ iteration' = iteration + 1
  /\ log' = log \o Users(pending)
  /\ ctx' = ctx \o Users(pending)
  /\ pending' = <<>>
  /\ phase' = "model"
  /\ attempt' = 0
  /\ UNCHANGED <<isStreaming, aborted, stored, steering, followUp, todo,
                 runnable, finished, results>>

\* The end of a turn: the steering queue is polled, and when the loop would
\* stop, the follow-up queue.
AfterTurn(more, newCtx) ==
  LET s == Poll(steering)
      f == Poll(followUp)
  IN  /\ steering' = s.left
      /\ IF more \/ s.taken # <<>>
           THEN /\ pending' = s.taken /\ phase' = "iterate"
                /\ ctx' = newCtx /\ results' = <<>> /\ finished' = {}
                /\ UNCHANGED <<isStreaming, aborted, followUp, iteration,
                               attempt, todo, runnable>>
           ELSE IF f.taken # <<>>
           THEN /\ pending' = f.taken /\ phase' = "iterate"
                /\ followUp' = f.left
                /\ ctx' = newCtx /\ results' = <<>> /\ finished' = {}
                /\ UNCHANGED <<isStreaming, aborted, iteration, attempt, todo,
                               runnable>>
           ELSE EndRun /\ UNCHANGED followUp

(***************************************************************************)
(* streamAssistantResponse.  The final message takes the place of the      *)
(* partial one in the context and is appended to the log.  A provider      *)
(* reports an aborted signal as stop reason "aborted".                     *)
(***************************************************************************)
Answers ==
  IF aborted THEN {}
  ELSE {Assistant("stop", [i \in 1 .. n |-> <<Len(log) + 1, i>>]) :
          n \in 0 .. MaxCalls}

streamAssistantResponse(m) ==
  /\ phase = "model"
  /\ Emit(m)
  /\ IF m.calls = <<>>
       THEN AfterTurn(FALSE, Append(ctx, m))
       ELSE /\ ctx' = Append(ctx, m)
            /\ phase' = "tools"
            /\ todo' = m.calls
            /\ UNCHANGED <<isStreaming, aborted, steering, followUp, pending,
                           iteration, attempt, runnable, finished, results>>

\* The stream ends in an error: a transient one is tried again.
streamFails(transient) ==
  /\ phase = "model"
  /\ Emit(FailedAnswer)
  /\ IF transient /\ ~aborted /\ attempt < MaxRetries
       THEN /\ ctx' = Append(ctx, FailedAnswer)
            /\ phase' = "backoff"
            /\ UNCHANGED <<isStreaming, aborted, pending, iteration, attempt,
                           todo, runnable, finished, results>>
       ELSE EndRun
  /\ UNCHANGED <<steering, followUp>>

streamThrows ==
  /\ phase = "model"
  /\ Throw
  /\ UNCHANGED <<steering, followUp>>

\* The retry timer.  The failed message is popped from the context; the log
\* keeps it.
retryStream ==
  /\ phase = "backoff"
  /\ IF aborted
       THEN EndRun
       ELSE /\ attempt' = attempt + 1
            /\ phase' = "model"
            /\ ctx' = Front(ctx)
            /\ UNCHANGED <<isStreaming, aborted, pending, iteration, todo,
                           runnable, finished, results>>
  /\ UNCHANGED <<log, stored, steering, followUp>>

-----------------------------------------------------------------------------
(***************************************************************************)
(* executeToolCalls.  prepareToolCall ends a call at once (unknown tool,   *)
(* bad arguments, blocked by or thrown from beforeToolCall) or makes it    *)
(* runnable.  In parallel mode all runnable calls start once the last one  *)
(* is prepared and are finalized in order; in sequential mode each call is *)
(* finished before the next is prepared.  The signal is not looked at.     *)
(***************************************************************************)
Outcome(c) ==
  /\ Emit(ToolResult(c))
  /\ results' = Append(results, ToolResult(c))

prepareToolCall(immediate) ==
  /\ phase = "tools" /\ todo # <<>>
  /\ Sequential => runnable = <<>>
  /\ todo' = Tail(todo)
  /\ IF immediate
       THEN Outcome(Head(todo)) /\ UNCHANGED runnable
       ELSE /\ runnable' = Append(runnable, Head(todo))
            /\ UNCHANGED <<log, stored, results>>
  /\ UNCHANGED <<isStreaming, aborted, steering, followUp, phase, ctx, pending,
                 iteration, attempt, finished>>

Executing == IF Sequential \/ todo = <<>> THEN Range(runnable) \ finished ELSE {}

\* Mutant: an exception of the tool is not caught and the call never settles.
executePreparedToolCallUncaught(c) ==
  /\ phase = "tools" /\ c \in Executing
  /\ c[2] = 1
  /\ finished' = finished \cup {c}
  /\ UNCHANGED <<isStreaming, aborted, log, stored, steering, followUp, phase,
                 ctx, pending, iteration, attempt, todo, runnable, results>>

\* A tool returns or throws; both settle the call with a result.
executePreparedToolCall(c) ==
  /\ phase = "tools" /\ c \in Executing
  /\ finished' = finished \cup {c}
  /\ UNCHANGED <<isStreaming, aborted, log, stored, steering, followUp, phase,
                 ctx, pending, iteration, attempt, todo, runnable, results>>

finalizeExecutedToolCall ==
  /\ phase = "tools" /\ runnable # <<>> /\ Head(runnable) \in finished
  /\ Outcome(Head(runnable))
  /\ runnable' = Tail(runnable)
  /\ UNCHANGED <<isStreaming, aborted, steering, followUp, phase, ctx, pending,
                 iteration, attempt, todo, finished>>

\* afterToolCall throws: the exception leaves the loop.
afterToolCallThrows ==
  /\ phase = "tools" /\ runnable # <<>> /\ Head(runnable) \in finished
  /\ Throw
  /\ UNCHANGED <<steering, followUp>>

toolsDone ==
  /\ phase = "tools" /\ todo = <<>> /\ runnable = <<>>
  /\ AfterTurn(TRUE, ctx \o results)
  /\ UNCHANGED <<log, stored>>

\* The Durable Object is evicted: the next agent is built from the session log.
evict ==
  /\ isStreaming
  /\ Discard
  /\ phase' = "evicted"
  /\ log' = stored
  /\ steering' = <<>> /\ followUp' = <<>>
  /\ UNCHANGED stored
-----------------------------------------------------------------------------
Init ==
  /\ isStreaming = FALSE /\ aborted = FALSE
  /\ log = <<User("restored")>>
  /\ stored = log
  /\ steering = <<>> /\ followUp = <<>>
  /\ phase = "idle" /\ ctx = <<>> /\ pending = <<>>
  /\ iteration = 0 /\ attempt = 0
  /\ todo = <<>> /\ runnable = <<>> /\ finished = {} /\ results = <<>>

\* What the loop does by itself once the world has answered it.
LoopStep ==
  \/ iterationLimit \/ iterate \/ retryStream \/ streamThrows
  \/ \E m \in Answers : streamAssistantResponse(m)
  \/ \E b \in BOOLEAN : prepareToolCall(b) \/ streamFails(b)
  \/ \E c \in Executing : executePreparedToolCall(c)
  \/ finalizeExecutedToolCall \/ afterToolCallThrows \/ toolsDone

Next ==
  \/ \E u \in Prompts : handlePrompt(u)
  \/ \E u \in Steers : steer(u)
  \/ \E u \in FollowUps : followUpWith(u)
  \/ continue \/ abort \/ evict
  \/ LoopStep

Spec == Init /\ [][Next]_vars

\* Models answer, timers fire, hooks and tools settle.
FairSpec == Spec /\ WF_vars(LoopStep)
-----------------------------------------------------------------------------
\* The steering mailbox: its letters are the steered messages, posted when they
\* are entered in the session log, waiting in the queue or polled, and heard
\* when they are in the agent's history.
Letters == {User(u) : u \in Steers}

Mailbox == INSTANCE SteeringMailbox WITH
             open   <- isStreaming,
             posted <- Only(stored, Letters),
             inbox  <- Only(Users(pending), Letters) \o Users(steering),
             heard  <- Only(log, Letters)

\* The loop implements the steering mailbox: steer, the polls of the loop and
\* of continue, the iteration limit, exceptions and the rebuilding of the agent
\* from the session log.
MailboxSpec == Mailbox!Spec

\* Every tool call in what the provider is sent has its result after it,
\* before the next user or assistant message, whatever was aborted, retried,
\* thrown or evicted in the runs before (providers refuse a history in which
\* one is missing).
CallsAnswered ==
  phase = "model" =>
    LET h == transformMessages(ctx)
    IN  \A i \in DOMAIN h : h[i].role = "assistant" =>
          \A k \in DOMAIN h[i].calls : \E j \in i + 1 .. Len(h) :
            /\ h[j] = ToolResult(h[i].calls[k])
            /\ \A n \in i + 1 .. j : h[n].role = "toolResult"

\* The model is sent the history that the log holds: nothing is in one of the
\* two copies and not in the other, so that a later run, which starts from the
\* log, remembers what this one was told.
ContextIsLog ==
  phase = "model" => transformMessages(ctx) = transformMessages(log)

\* Every tool result in what the provider is sent comes after the answer that
\* made the call, with no user or assistant message in between
\* (transformMessages gives a call that has no result a synthetic one because
\* that "satisfies API requirements").
ResultsFollowCalls ==
  phase = "model" =>
    LET h == transformMessages(ctx)
    IN  \A j \in DOMAIN h : h[j].role = "toolResult" =>
          \E i \in 1 .. j - 1 :
            /\ h[i].role = "assistant" /\ h[j].call \in Range(h[i].calls)
            /\ \A n \in i + 1 .. j : h[n].role = "toolResult"

\* What the model has been told or has answered in the run is in the session
\* log, so that an eviction at any point cannot make the session forget it.
ToldIsStored ==
  phase = "model" =>
    \A m \in Range(ctx) \ {FailedAnswer} :
      m \in Range(stored) \/ (m.role = "user" /\ m.text \in FollowUps)

\* The agent's history, the loop's and the session log say the same: what the
\* model is shown is what the agent has, and what it was told is stored.
HistoriesAgree == ContextIsLog /\ ToldIsStored

\* A run ends: the iteration limit stops a model that calls tools for ever,
\* and no error of a tool, a hook or the stream leaves the agent streaming.
RunEnds == isStreaming ~> ~isStreaming
=============================================================================
