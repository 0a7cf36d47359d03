-------------------------------- MODULE A2A --------------------------------
(***************************************************************************)
(* Delegation between two agents over A2A: the caller's start_task and     *)
(* check_task tools and its callback handler, and the server's handler,    *)
(* executor, task store and event stream.                                  *)
(*                                                                         *)
(* A request and its answer are steps of their own; anything may happen in *)
(* between, and either may be lost.  A push notification is sent once and  *)
(* never again.  tasks/cancel is no step: the session id in a task's row   *)
(* is the context id, never that of a session, so the executor finds no    *)
(* running agent and refuses.                                              *)
(***************************************************************************)
EXTENDS Integers, FiniteSets

CONSTANTS MaxTasks      \* bound: tasks

Ids == 1 .. MaxTasks
Terminal == {"completed", "failed"}
Nothing == "none"

VARIABLES created,      \* tasks so far
          state,        \* server: state in a2a_tasks
          kind,         \* how the task was sent
          reply,        \* start_task's answer, on its way with this state
          push,         \* notification on its way, with this state
          pending,      \* caller: the PendingTask row's state
          check,        \* check_task: the answer on its way
          busy,         \* caller: the origin session is streaming
          injecting,    \* callbacks that await sendPrompt
          answered,     \* ghost: tasks whose callback was answered with ok
          delivered,    \* ghost: tasks whose result was put into the session
          bus,          \* server: events that the stream's queue has taken
          stream        \* server: "none", "open", or "closed"

server == <<created, state, kind, bus, stream>>
caller == <<pending, check, busy, injecting, answered, delivered>>
net    == <<reply, push>>
vars   == <<server, caller, net>>

Accept(id, k, s) ==
  /\ created' = id
  /\ kind' = [kind EXCEPT ![id] = k]
  /\ state' = [state EXCEPT ![id] = s]

-----------------------------------------------------------------------------
(***************************************************************************)
(* message/send with blocking = false, by start_task: the row is written,  *)
(* a session created and the prompt started before the answer leaves.      *)
(* A message without text fails at once.                                   *)
(***************************************************************************)
start_task(text) ==
  /\ created < MaxTasks /\ busy      \* the tool runs in a run of the session
  /\ LET id == created + 1 IN
       /\ Accept(id, "push", IF text THEN "working" ELSE "failed")
       /\ reply' = [reply EXCEPT ![id] = state'[id]]
  /\ UNCHANGED <<push, caller, bus, stream>>

\* The tool stores the pending task when the answer is there.
taskStarted(id) ==
  /\ reply[id] # Nothing
  /\ pending' = [pending EXCEPT ![id] = reply[id]]
  /\ reply' = [reply EXCEPT ![id] = Nothing]
  /\ UNCHANGED <<server, push, check, busy, injecting, answered, delivered>>

\* The answer is lost: the tool reports an error and stores nothing.
startLost(id) ==
  /\ reply[id] # Nothing
  /\ reply' = [reply EXCEPT ![id] = Nothing]
  /\ UNCHANGED <<server, push, caller>>

\* message/stream: blocking unless the caller says otherwise.  The generator
\* subscribes when it is first read, which is after execute has run up to its
\* first await: what it emitted until then is not seen.
sendStream(text, blocking) ==
  /\ created < MaxTasks
  /\ LET id == created + 1 IN
       /\ Accept(id, IF blocking THEN "stream" ELSE "streamNonBlocking",
                 IF text THEN "working" ELSE "failed")
       /\ stream' = [stream EXCEPT ![id] = "open"]
  /\ UNCHANGED <<net, caller, bus>>

\* executeBlocking and executeNonBlocking when sendPrompt settles: the status,
\* the event and the notification.  A failure in the background is not emitted.
\* Mutant: executeBlocking emits no event in its catch.
finishSilentFailure(id, s) ==
  /\ state[id] = "working"
  /\ state' = [state EXCEPT ![id] = s]
  /\ push' = IF kind[id] = "push" THEN [push EXCEPT ![id] = s] ELSE push
  /\ bus' = IF stream[id] = "open" /\ s = "completed"
              THEN [bus EXCEPT ![id] = @ \cup {s}] ELSE bus
  /\ UNCHANGED <<created, kind, stream, reply, caller>>

finish(id, s) ==
  /\ state[id] = "working"
  /\ state' = [state EXCEPT ![id] = s]
  /\ push' = IF kind[id] = "push" THEN [push EXCEPT ![id] = s] ELSE push
  /\ bus' = IF stream[id] = "open" /\ (kind[id] = "stream" \/ s = "completed")
              THEN [bus EXCEPT ![id] = @ \cup {s}] ELSE bus
  /\ UNCHANGED <<created, kind, stream, reply, caller>>

\* eventQueue has yielded a final event: the stream is closed.
closeStream(id) ==
  /\ stream[id] = "open" /\ bus[id] # {}
  /\ stream' = [stream EXCEPT ![id] = "closed"]
  /\ UNCHANGED <<created, state, kind, bus, net, caller>>

pushLost(id) ==
  /\ push[id] # Nothing
  /\ push' = [push EXCEPT ![id] = Nothing]
  /\ UNCHANGED <<server, reply, caller>>

-----------------------------------------------------------------------------
(***************************************************************************)
(* The callback: unknown tasks are refused; the result is prompted into    *)
(* the origin session, which throws when that session is busy; and the row *)
(* is deleted either way, after the prompt has run its course.             *)
(***************************************************************************)
callback(id) ==
  /\ push[id] # Nothing
  /\ push' = [push EXCEPT ![id] = Nothing]
  /\ IF pending[id] = Nothing
       THEN UNCHANGED <<pending, busy, injecting, answered, delivered>>
       ELSE IF busy
         THEN /\ pending' = [pending EXCEPT ![id] = Nothing]
              /\ answered' = answered \cup {id}
              /\ UNCHANGED <<busy, injecting, delivered>>
         ELSE /\ pending' = [pending EXCEPT ![id] = push[id]]
              /\ injecting' = injecting \cup {id}
              /\ busy' = TRUE
              /\ delivered' = delivered \cup {id}
              /\ UNCHANGED answered
  /\ UNCHANGED <<server, reply, check>>

\* The prompted run ends, and the handler deletes the row.
injected(id) ==
  /\ id \in injecting
  /\ injecting' = injecting \ {id}
  /\ busy' = FALSE
  /\ pending' = [pending EXCEPT ![id] = Nothing]
  /\ answered' = answered \cup {id}
  /\ UNCHANGED <<server, net, check, delivered>>

\* check_task asks the server about a pending task, and stores the answer if
\* the row is still there.
check_task(id) ==
  /\ pending[id] # Nothing /\ check[id] = Nothing
  /\ check' = [check EXCEPT ![id] = state[id]]
  /\ UNCHANGED <<server, net, pending, busy, injecting, answered, delivered>>

\* Mutant: the row as it was read before the request is written back.
taskCheckedStale(id) ==
  /\ check[id] # Nothing
  /\ pending' = [pending EXCEPT ![id] = check[id]]
  /\ check' = [check EXCEPT ![id] = Nothing]
  /\ UNCHANGED <<server, net, busy, injecting, answered, delivered>>

taskChecked(id) ==
  /\ check[id] # Nothing
  /\ pending' = [pending EXCEPT ![id] = IF @ = Nothing THEN Nothing ELSE check[id]]
  /\ check' = [check EXCEPT ![id] = Nothing]
  /\ UNCHANGED <<server, net, busy, injecting, answered, delivered>>

\* The origin session's own runs.
originRun ==
  /\ injecting = {}
  /\ busy' = ~busy
  /\ UNCHANGED <<server, net, pending, check, injecting, answered, delivered>>

Init ==
  /\ created = 0
  /\ state = [id \in Ids |-> Nothing] /\ kind = [id \in Ids |-> Nothing]
  /\ reply = [id \in Ids |-> Nothing] /\ push = [id \in Ids |-> Nothing]
  /\ pending = [id \in Ids |-> Nothing] /\ check = [id \in Ids |-> Nothing]
  /\ busy = FALSE /\ injecting = {} /\ answered = {} /\ delivered = {}
  /\ bus = [id \in Ids |-> {}] /\ stream = [id \in Ids |-> "none"]

Next ==
  \/ \E text \in BOOLEAN : start_task(text)
  \/ \E text, blocking \in BOOLEAN : sendStream(text, blocking)
  \/ \E id \in Ids :
       \/ taskStarted(id) \/ startLost(id) \/ pushLost(id)
       \/ \E s \in Terminal : finish(id, s)
       \/ closeStream(id) \/ callback(id) \/ injected(id)
       \/ check_task(id) \/ taskChecked(id)
  \/ originRun

Spec == Init /\ [][Next]_vars

\* A prompt settles, and a readable stream is read.
FairSpec ==
  /\ Spec
  /\ \A id \in Ids : WF_vars(\E s \in Terminal : finish(id, s)) /\ WF_vars(closeStream(id))
-----------------------------------------------------------------------------
\* A task whose result reached the session is no longer pending once the
\* callback is done, even when check_task was waiting for the server meanwhile.
DeliveredRowGone == \A id \in delivered \ injecting : pending[id] = Nothing

\* The stream of a blocking message with text is closed when the task ends.
StreamEnds ==
  \A id \in Ids : (kind[id] = "stream" /\ state[id] = "working") ~> stream[id] = "closed"

\* A notification that was accepted put the result into the session, or left the
\* row with which check_task can ask for it (handlers.ts: "Session may be busy -
\* result is persisted in task store regardless").
ResultRecoverable == \A id \in answered : id \in delivered \/ pending[id] # Nothing
=============================================================================
