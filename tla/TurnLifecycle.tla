--------------------------- MODULE TurnLifecycle ----------------------------
(***************************************************************************)
(* The turns of one session: how AgentRuntime takes a user message from a  *)
(* client, a capability, a peer or the durable queue, builds an agent for  *)
(* it, runs the agent, and on agent_end picks up the next queued message.  *)
(*                                                                         *)
(* Each message is handled by an async call that stops at its awaits.  The *)
(* steps between two awaits are one action.  ensureAgent builds one agent  *)
(* per call, so an agent is named after the message whose call built it.   *)
(*                                                                         *)
(* Gated says how the host schedules events while ensureAgent is awaiting. *)
(* Its awaits are cached imports and storage operations; the Durable       *)
(* Object input gate holds back new events during those (Gated = TRUE).    *)
(* The runtime itself takes no lock, so with a host that has no such gate, *)
(* or during the very first import, any event may come in between.         *)
(***************************************************************************)
EXTENDS Integers, Sequences, FiniteSets, SequencesExt

CONSTANTS Messages,     \* user messages, told apart by their text
          None,         \* no agent
          Gated,        \* no event is delivered inside ensureAgent
          HasBundle,    \* a bundlePromptHandler is installed
          CanFail,      \* ensureAgent may throw (model not found)
          CanDelete,    \* the session may be deleted or cleared
          CanManage,    \* the client deletes or steers queued messages
          MaxRestarts   \* bound: evictions of the Durable Object

ASSUME NoneAssumption == None \notin Messages

ASSUME FlagAssumption ==
  /\ {Gated, HasBundle, CanFail, CanDelete, CanManage} \subseteq BOOLEAN
  /\ MaxRestarts \in Nat

VARIABLES live,      \* the session's row exists
          logged,    \* user entries in the log, per message
          queue,     \* message_queue rows of the session, oldest first
          pc,        \* where the call handling a message stands
          agentOf,   \* the agent a running or steering message is with
          current,   \* sessionAgents.get(sessionId)
          streaming, \* agents whose state.isStreaming holds
          aborted,   \* agents whose AbortController has fired
          arrived,   \* ghost: messages in the order they were accepted
          served,    \* ghost: messages in the order agents took them
          restarts,
          calm       \* ghost: gated, no bundle, and nothing has gone wrong yet

vars == <<live, logged, queue, pc, agentOf, current, streaming, aborted,
          arrived, served, restarts, calm>>

(***************************************************************************)
(* idle: not sent yet.  bundle: awaiting bundlePromptHandler.  queued: in  *)
(* the durable queue.  ensuring: awaiting ensureAgent.  created:           *)
(* ensureAgent has set the agent, the continuation has not run.  running:  *)
(* awaiting agent.prompt.  steering: in an agent's steering queue.         *)
(* The rest are final: done (agent_end), handled (by the bundle), noted    *)
(* (in the log, with no agent to hear it), failed (the call threw),        *)
(* refused (busy), dropped (deleted with its session or from the queue),   *)
(* lost (the Durable Object was evicted).                                  *)
(***************************************************************************)
Awaiting == {"bundle", "ensuring", "created", "running", "steering"}
Final == {"done", "handled", "noted", "failed", "refused", "dropped", "lost"}

InEnsure == {m \in Messages : pc[m] \in {"ensuring", "created"}}

\* An event from outside (a client message, an answer of the model or of the
\* bundle) can be delivered.
Deliverable == Gated => InEnsure = {}

Busy == current # None /\ current \in streaming

Accept(m) == arrived' = Append(arrived, m)

-----------------------------------------------------------------------------
(***************************************************************************)
(* handlePrompt up to its first await.  The user entry is appended before  *)
(* the agent is looked at; appendEntry throws when the session is gone.    *)
(* `busy` is the state of the session's agent as the call sees it.         *)
(***************************************************************************)
\* Mutant: the busy check is missing.
AfterBundleUnchecked(m, busy) ==
  /\ pc' = [pc EXCEPT ![m] = "ensuring"]
  /\ UNCHANGED queue

AfterBundle(m, busy) ==
  IF busy
    THEN /\ queue' = Append(queue, m)
         /\ pc' = [pc EXCEPT ![m] = "queued"]
    ELSE /\ pc' = [pc EXCEPT ![m] = "ensuring"]
         /\ UNCHANGED queue

\* Mutant: the entry is left to be written when the turn ends.
BeginPromptUnlogged(m, busy) ==
  /\ IF HasBundle THEN pc' = [pc EXCEPT ![m] = "bundle"] /\ UNCHANGED queue
                  ELSE AfterBundle(m, busy)
  /\ UNCHANGED logged

BeginPrompt(m, busy) ==
  IF ~live
    THEN pc' = [pc EXCEPT ![m] = "failed"] /\ UNCHANGED <<logged, queue>>
    ELSE /\ logged' = [logged EXCEPT ![m] = @ + 1]
         /\ IF HasBundle
              THEN pc' = [pc EXCEPT ![m] = "bundle"] /\ UNCHANGED queue
              ELSE AfterBundle(m, busy)

handlePrompt(m) ==
  /\ Deliverable
  /\ pc[m] = "idle"
  /\ Accept(m)
  /\ BeginPrompt(m, Busy)
  /\ UNCHANGED <<live, agentOf, current, streaming, aborted, served,
                 restarts, calm>>

\* bundlePromptHandler answers: TRUE ends the call; FALSE or an exception
\* falls through to the static brain.
bundlePromptHandler(m) ==
  /\ Deliverable
  /\ pc[m] = "bundle"
  /\ \/ pc' = [pc EXCEPT ![m] = "handled"] /\ UNCHANGED queue
     \/ AfterBundle(m, Busy)
  /\ UNCHANGED <<live, logged, agentOf, current, streaming, aborted, arrived,
                 served, restarts, calm>>

\* capability_action "queue"/"message": queued without a log entry when busy.
queueMessage(m) ==
  /\ Deliverable
  /\ pc[m] = "idle"
  /\ Accept(m)
  /\ IF Busy
       THEN /\ queue' = Append(queue, m)
            /\ pc' = [pc EXCEPT ![m] = "queued"]
            /\ UNCHANGED logged
       ELSE BeginPrompt(m, FALSE)
  /\ UNCHANGED <<live, agentOf, current, streaming, aborted, served,
                 restarts, calm>>

\* QueueStore.delete: the row of one message goes.
Unqueue(m) ==
  \E i \in DOMAIN queue : queue[i] = m /\ queue' = RemoveAt(queue, i)

\* capability_action "queue"/"delete".
queueDelete(m) ==
  /\ CanManage /\ Deliverable
  /\ pc[m] = "queued"
  /\ Unqueue(m)
  /\ pc' = [pc EXCEPT ![m] = "dropped"]
  /\ UNCHANGED <<live, logged, agentOf, current, streaming, aborted, arrived,
                 served, restarts, calm>>

(***************************************************************************)
(* handleSteer: logged, and given to the agent only while it streams.      *)
(* The client sends it directly or turns a queued message into it          *)
(* (capability_action "queue"/"steer", which deletes the row first).       *)
(***************************************************************************)
Steer(m) ==
  IF ~live
    THEN pc' = [pc EXCEPT ![m] = "failed"] /\ UNCHANGED <<logged, agentOf>>
    ELSE /\ logged' = [logged EXCEPT ![m] = @ + 1]
         /\ pc' = [pc EXCEPT ![m] = IF Busy THEN "steering" ELSE "noted"]
         /\ agentOf' = [agentOf EXCEPT ![m] = IF Busy THEN current ELSE None]

\* Mutant: the queue row stays.
handleSteerKeepsRow(m) ==
  /\ CanManage /\ Deliverable
  /\ pc[m] \in {"idle", "queued"}
  /\ Steer(m)
  /\ UNCHANGED <<live, queue, current, streaming, aborted, arrived, served,
                 restarts, calm>>

handleSteer(m) ==
  /\ CanManage /\ Deliverable
  /\ pc[m] \in {"idle", "queued"}
  /\ IF pc[m] = "queued" THEN Unqueue(m) ELSE UNCHANGED queue
  /\ Steer(m)
  /\ UNCHANGED <<live, current, streaming, aborted, arrived, served,
                 restarts, calm>>

\* handleAgentPrompt: a peer, a channel or a subagent; refused while busy.
handleAgentPrompt(m) ==
  /\ Deliverable
  /\ pc[m] = "idle"
  /\ IF Busy \/ ~live
       THEN /\ pc' = [pc EXCEPT ![m] = IF Busy THEN "refused" ELSE "failed"]
            /\ UNCHANGED <<logged, arrived>>
       ELSE /\ logged' = [logged EXCEPT ![m] = @ + 1]
            /\ pc' = [pc EXCEPT ![m] = "ensuring"]
            /\ Accept(m)
  /\ UNCHANGED <<live, queue, agentOf, current, streaming, aborted, served,
                 restarts, calm>>

-----------------------------------------------------------------------------
\* ensureAgent after its last await: the agent is built from the log and
\* replaces whatever agent the map held.
ensureAgent(m) ==
  /\ pc[m] = "ensuring"
  /\ current' = m
  /\ pc' = [pc EXCEPT ![m] = "created"]
  /\ UNCHANGED <<live, logged, queue, agentOf, streaming, aborted, arrived,
                 served, restarts, calm>>

ensureAgentThrows(m) ==
  /\ CanFail
  /\ pc[m] = "ensuring"
  /\ pc' = [pc EXCEPT ![m] = "failed"]
  /\ calm' = FALSE
  /\ UNCHANGED <<live, logged, queue, agentOf, current, streaming, aborted,
                 arrived, served, restarts>>

\* The continuation of the call: it looks the agent up again and prompts it.
\* No agent, or one that is already streaming, is an exception.
startPrompt(m) ==
  /\ pc[m] = "created"
  /\ IF current = None \/ current \in streaming
       THEN /\ pc' = [pc EXCEPT ![m] = "failed"]
            /\ UNCHANGED <<agentOf, streaming, aborted, served>>
       ELSE /\ pc' = [pc EXCEPT ![m] = "running"]
            /\ agentOf' = [agentOf EXCEPT ![m] = current]
            /\ streaming' = streaming \cup {current}
            /\ aborted' = aborted \ {current}
            /\ served' = Append(served, m)
  /\ UNCHANGED <<live, logged, queue, current, arrived, restarts, calm>>

\* The loop polls its steering queue between two model calls.
deliverSteering(m) ==
  /\ Deliverable
  /\ pc[m] = "steering"
  /\ pc' = [pc EXCEPT ![m] = "done"]
  /\ UNCHANGED <<live, logged, queue, agentOf, current, streaming, aborted,
                 arrived, served, restarts, calm>>

(***************************************************************************)
(* agent_end.  A run ends by itself once its steering queue is empty, and  *)
(* in any state by an error, an abort, the iteration limit or an exception *)
(* of appendEntry on a deleted session; what was still steering is then    *)
(* only in the log.  The listener removes the session's agent from the map *)
(* and processQueue hands the oldest queued message to handlePrompt, which *)
(* runs up to its first await before anything else.                        *)
(***************************************************************************)
SteeringOf(a) == {m \in Messages : pc[m] = "steering" /\ agentOf[m] = a}

EndedPc(a) ==
  [m \in Messages |->
     CASE pc[m] = "running" /\ agentOf[m] = a -> "done"
       [] m \in SteeringOf(a) -> "noted"
       [] OTHER -> pc[m]]

\* Mutant: the newest queued message is taken.
processQueueNewest(ended) ==
  IF queue = <<>>
    THEN pc' = ended /\ UNCHANGED <<queue, logged>>
    ELSE LET m == Last(queue)
         IN  /\ queue' = Front(queue)
             /\ logged' = [logged EXCEPT ![m] = IF live THEN @ + 1 ELSE @]
             /\ pc' = [ended EXCEPT ![m] = IF ~live THEN "failed"
                                           ELSE IF HasBundle THEN "bundle"
                                           ELSE "ensuring"]

\* Mutant: the queue is left for the next prompt.
processQueueNever(ended) == pc' = ended /\ UNCHANGED <<queue, logged>>

processQueue(ended) ==
  IF queue = <<>>
    THEN pc' = ended /\ UNCHANGED <<queue, logged>>
    ELSE LET m == Head(queue)
         IN  /\ queue' = Tail(queue)
             /\ logged' = [logged EXCEPT ![m] = IF live THEN @ + 1 ELSE @]
             /\ pc' = [ended EXCEPT ![m] = IF ~live THEN "failed"
                                           ELSE IF HasBundle THEN "bundle"
                                           ELSE "ensuring"]

agentEnd(a) ==
  /\ Deliverable
  /\ a \in streaming
  /\ streaming' = streaming \ {a}
  /\ aborted' = aborted \ {a}
  /\ current' = None
  /\ processQueue(EndedPc(a))
  /\ UNCHANGED <<live, agentOf, arrived, served, restarts, calm>>

\* abort: reaches the agent in the map, and only once it is streaming (before
\* that it has no AbortController).
abort ==
  /\ Deliverable
  /\ Busy /\ current \notin aborted
  /\ aborted' = aborted \cup {current}
  /\ UNCHANGED <<live, logged, queue, pc, agentOf, current, streaming, arrived,
                 served, restarts, calm>>

AbortCurrent == aborted' = IF Busy THEN aborted \cup {current} ELSE aborted

\* delete_session (another session exists, so the last-session guard passes).
deleteSession ==
  /\ CanDelete /\ Deliverable
  /\ live
  /\ AbortCurrent
  /\ queue' = <<>>
  /\ pc' = [m \in Messages |-> IF pc[m] = "queued" THEN "dropped" ELSE pc[m]]
  /\ live' = FALSE
  /\ calm' = FALSE
  /\ UNCHANGED <<logged, agentOf, current, streaming, arrived, served,
                 restarts>>

\* The /clear command: as delete_session, but the queue rows stay.
handleClearCommand ==
  /\ CanDelete /\ Deliverable
  /\ live
  /\ AbortCurrent
  /\ live' = FALSE
  /\ calm' = FALSE
  /\ UNCHANGED <<logged, queue, pc, agentOf, current, streaming, arrived,
                 served, restarts>>

\* Eviction: agents and calls vanish, the log and the queue are in SQL.
restart ==
  /\ restarts < MaxRestarts
  /\ restarts' = restarts + 1
  /\ pc' = [m \in Messages |-> IF pc[m] \in Awaiting THEN "lost" ELSE pc[m]]
  /\ current' = None
  /\ streaming' = {}
  /\ aborted' = {}
  /\ calm' = FALSE
  /\ UNCHANGED <<live, logged, queue, agentOf, arrived, served>>

-----------------------------------------------------------------------------
Init ==
  /\ live = TRUE
  /\ logged = [m \in Messages |-> 0]
  /\ queue = <<>>
  /\ pc = [m \in Messages |-> "idle"]
  /\ agentOf = [m \in Messages |-> None]
  /\ current = None
  /\ streaming = {}
  /\ aborted = {}
  /\ arrived = <<>>
  /\ served = <<>>
  /\ restarts = 0
  /\ calm = (Gated /\ ~HasBundle)

\* What the runtime does by itself once a call is under way.
Progress(m) ==
  \/ bundlePromptHandler(m)
  \/ ensureAgent(m)
  \/ ensureAgentThrows(m)
  \/ startPrompt(m)
  \/ agentEnd(m)

Next ==
  \/ \E m \in Messages :
       \/ handlePrompt(m) \/ queueMessage(m) \/ handleAgentPrompt(m)
       \/ queueDelete(m) \/ handleSteer(m) \/ deliverSteering(m)
       \/ Progress(m)
  \/ abort \/ deleteSession \/ handleClearCommand \/ restart

Spec == Init /\ [][Next]_vars

\* Calls are resumed and runs end: the event loop resumes settled promises,
\* and the loop of agent-core stops at its iteration limit at the latest.
Fairness == \A m \in Messages : WF_vars(Progress(m))

FairSpec == Spec /\ Fairness

-----------------------------------------------------------------------------
TypeOK ==
  /\ live \in BOOLEAN
  /\ logged \in [Messages -> Nat]
  /\ queue \in Seq(Messages) /\ IsInjective(queue)
  /\ pc \in [Messages -> {"idle", "queued"} \cup Awaiting \cup Final]
  /\ {m \in Messages : pc[m] = "queued"} = Range(queue)
  /\ agentOf \in [Messages -> Messages \cup {None}]
  /\ current \in Messages \cup {None}
  /\ streaming \subseteq Messages
  /\ aborted \subseteq streaming
  /\ arrived \in Seq(Messages)
  /\ served \in Seq(Messages)
  /\ restarts \in 0 .. MaxRestarts
  /\ calm \in BOOLEAN

\* The agent that is running is the one the session's map holds: abort,
\* steer, delete_session and the busy checks of handlePrompt, of the queue
\* action and of handleAgentPrompt all go through that map, and would miss a
\* run it does not hold.  (Under the input gate; the check in handlePrompt and
\* the write in ensureAgent are separated by awaits.)
StreamingIsCurrent == streaming \subseteq {current}

\* Messages reach the agent in the order they were accepted, whether they
\* found the agent idle, waited in message_queue, or came from a peer: the
\* queue is "processed FIFO on agent_end" (queue-store.ts).
ServedInArrivalOrder ==
  \A i, j \in DOMAIN served : i < j =>
    \E k, l \in DOMAIN arrived :
      k < l /\ arrived[k] = served[i] /\ arrived[l] = served[j]

\* A message the runtime has accepted is in durable storage from then on, in
\* the log or in the queue, so that an eviction between any two awaits of
\* handlePrompt or processQueue cannot make it disappear.  The exceptions are
\* calls that threw because the session was deleted, and queue rows removed
\* with their session or by the client.
AcceptedIsDurable ==
  \A m \in Range(arrived) :
    \/ logged[m] > 0
    \/ m \in Range(queue)
    \/ pc[m] \in {"failed", "dropped"}

\* Whatever fails, a message that was accepted is in the session log or queued;
\* and until ensureAgent throws, the session is deleted or the object evicted,
\* messages reach the agent in the order in which they were accepted (where no
\* bundle takes messages for itself).
MessagesKept == AcceptedIsDurable /\ (calm => ServedInArrivalOrder)

\* Every message that was accepted is dealt with, however the awaits of
\* concurrent calls interleave: the agent_end that drains the queue cannot be
\* missed, although a call may replace another call's agent in the map.
EveryMessageSettles ==
  \A m \in Messages :
    (pc[m] \in Awaiting \cup {"queued"}) ~> (pc[m] \in Final)
=============================================================================
