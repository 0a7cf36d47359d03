----------------------------- MODULE ClientView -----------------------------
(***************************************************************************)
(* What a browser shows of a session: the chat reducer and its message     *)
(* handler (runtime/agent-runtime/src/client), fed by the events and       *)
(* session_sync messages that the runtime sends over one connection.       *)
(*                                                                         *)
(* down and up are the two directions of the WebSocket, in order and lost  *)
(* together when it closes.  A message is its number and its role; the     *)
(* content of a streaming message is only its placeholder mark, live.      *)
(* The agent of a session goes through agent_start, message_start,         *)
(* message_end, tool_execution_end and agent_end; AgentLoop has the rest.  *)
(* One browser is modelled: the user messages of others are not broadcast. *)
(***************************************************************************)
EXTENDS Naturals, Sequences, SequencesExt, Lists

CONSTANTS
    Sessions,    \* 1..n
    Ops,         \* what the user does: "prompt", "queue", "steer", "command", "switch"
    PageLimit,   \* SessionStore.DEFAULT_PAGE_LIMIT
    MaxMsgs,     \* bound: messages ever created
    MaxMoves     \* bound: disconnections and session switches

VARIABLES
    log,      \* session -> its entries, in order
    phase,    \* session -> what its agent does
    stream,   \* session -> the agent's state.streamMessage, 0 for null
    queue,    \* session -> its queued messages
    conn,     \* the session of the server's end of the connection, 0 when closed
    up, down, \* messages in flight
    view,     \* the reducer's messages
    sess,     \* the reducer's currentSessionId, 0 before the first sync
    status,   \* the reducer's agentStatus
    caps,     \* keys of the reducer's capabilityState
    open,     \* the WebSocket is open
    used,     \* messages created
    moves     \* disconnections and switches made

server == <<log, phase, stream, queue>>
client == <<view, sess, status, caps>>
vars == <<log, phase, stream, queue, conn, up, down, view, sess, status, caps, open, used, moves>>

Msg(i, r) == [id |-> i, role |-> r]
Shown(m, l) == [id |-> m.id, role |-> m.role, live |-> l]
Settle(msgs) == [i \in DOMAIN msgs |-> Shown(msgs[i], FALSE)]

----------------------------------------------------------------------------
(* The server's messages.                                                 *)

Sync(s, after) ==
    [t |-> "session_sync", s |-> s, msgs |-> log[s], stream |-> stream[s],
     cursor |-> after + PageLimit, more |-> Len(log[s]) > after + PageLimit]

CommandList == [t |-> "capability_state", cap |-> "commands"]
Schedules == [t |-> "capability_state", cap |-> "schedules"]
Event(s, type, m) == [t |-> type, s |-> s, m |-> m]

Broadcast(s, msgs) == down' = IF conn = s THEN down \o msgs ELSE down

Init ==
    /\ log = [s \in Sessions |-> <<>>] /\ phase = [s \in Sessions |-> "idle"]
    /\ stream = [s \in Sessions |-> 0] /\ queue = [s \in Sessions |-> <<>>]
    /\ conn = 0 /\ up = <<>> /\ down = <<>>
    /\ view = <<>> /\ sess = 0 /\ status = "idle" /\ caps = {}
    /\ open = FALSE /\ used = 0 /\ moves = 0

----------------------------------------------------------------------------
(* The connection.  A lost connection takes what is in flight with it; the *)
(* next one is put on the first session of the list and, when the browser  *)
(* had a session, asked to switch back to it.                              *)

connect ==
    /\ ~open
    /\ \E s \in Sessions :
        /\ conn' = s
        /\ down' = <<Sync(s, 0), CommandList, Schedules>>
    /\ up' = IF moves > 0 /\ sess # 0 THEN <<[t |-> "switch_session", s |-> sess]>> ELSE <<>>
    /\ open' = TRUE
    /\ UNCHANGED <<server, client, used, moves>>

disconnect ==
    /\ open /\ moves < MaxMoves
    /\ conn' = 0 /\ up' = <<>> /\ down' = <<>> /\ open' = FALSE /\ moves' = moves + 1
    /\ UNCHANGED <<server, client, used>>

----------------------------------------------------------------------------
(* The user's actions (use-chat-session, use-sessions).  send drops the    *)
(* message when the socket is not open; the reducer is told all the same.  *)

Send(m) == up' = IF open THEN Append(up, m) ELSE up

ADD_MESSAGE(m, l) == view' = Append(view, Shown(m, l))
AddLocal(m) == ADD_MESSAGE(m, FALSE) /\ status' = "streaming"

sendMessage ==
    /\ "prompt" \in Ops /\ sess # 0 /\ used < MaxMsgs
    /\ used' = used + 1
    /\ LET m == Msg(used', "user") IN
       \/ /\ status = "idle"
          /\ Send([t |-> "prompt", s |-> sess, m |-> m]) /\ AddLocal(m)
       \/ /\ status # "idle" /\ "queue" \in Ops
          /\ Send([t |-> "queue_message", s |-> sess, m |-> m])
          /\ UNCHANGED <<view, status>>
    /\ UNCHANGED <<server, conn, down, sess, caps, open, moves>>

sendCommand ==
    /\ "command" \in Ops /\ sess # 0 /\ "commands" \in caps /\ used < MaxMsgs
    /\ used' = used + 1
    /\ Send([t |-> "command", s |-> sess])
    /\ AddLocal(Msg(used', "local"))
    /\ UNCHANGED <<server, conn, down, sess, caps, open, moves>>

steerMessage ==
    /\ "steer" \in Ops /\ sess # 0 /\ used < MaxMsgs
    /\ used' = used + 1
    /\ LET m == Msg(used', "user") IN Send([t |-> "steer", s |-> sess, m |-> m]) /\ AddLocal(m)
    /\ UNCHANGED <<server, conn, down, sess, caps, open, moves>>

switchSession ==
    /\ "switch" \in Ops /\ open /\ moves < MaxMoves
    /\ moves' = moves + 1
    /\ \E s \in Sessions \ {sess} : Send([t |-> "switch_session", s |-> s])
    /\ UNCHANGED <<server, conn, down, client, open, used>>

----------------------------------------------------------------------------
(* The server takes a message of the browser.                             *)

AppendEntry(s, m) == log' = [log EXCEPT ![s] = Append(@, m)]

handlePrompt(s, m, before) ==
    /\ AppendEntry(s, m)
    /\ IF phase[s] # "idle"
       THEN /\ queue' = [queue EXCEPT ![s] = Append(@, m)]
            /\ Broadcast(s, before)
            /\ UNCHANGED phase
       ELSE /\ phase' = [phase EXCEPT ![s] = "thinking"]
            /\ Broadcast(s, before \o <<Event(s, "agent_start", 0)>>)
            /\ UNCHANGED queue

handleClientMessage ==
    /\ up # <<>>
    /\ up' = Tail(up)
    /\ LET msg == Head(up)
           s == msg.s IN
       \/ /\ msg.t = "prompt" /\ handlePrompt(s, msg.m, <<>>)
          /\ UNCHANGED <<stream, conn>>
       \/ /\ msg.t = "queue_message" /\ phase[s] = "idle" /\ handlePrompt(s, msg.m, <<>>)
          /\ UNCHANGED <<stream, conn>>
       \/ /\ msg.t = "queue_message" /\ phase[s] # "idle"
          /\ queue' = [queue EXCEPT ![s] = Append(@, msg.m)]
          /\ UNCHANGED <<log, phase, stream, conn, down>>
       \/ /\ msg.t = "steer" /\ AppendEntry(s, msg.m)
          /\ UNCHANGED <<phase, stream, queue, conn, down>>
       \/ /\ msg.t = "command"
          /\ down' = Append(down, [t |-> "command_result", s |-> s])
          /\ UNCHANGED <<server, conn>>
       \/ /\ msg.t = "switch_session"
          /\ conn' = s /\ down' = down \o <<Sync(s, 0), CommandList>>
          /\ UNCHANGED server
       \/ /\ msg.t = "request_sync"
          /\ down' = Append(down, Sync(s, msg.after))
          /\ UNCHANGED <<server, conn>>
    /\ UNCHANGED <<client, open, used, moves>>

----------------------------------------------------------------------------
(* The events of an agent's run: each is broadcast, then logged.          *)

agentEvent(s) ==
    \/ /\ phase[s] = "thinking" /\ used < MaxMsgs
       /\ phase' = [phase EXCEPT ![s] = "streaming"]
       /\ used' = used + 1 /\ stream' = [stream EXCEPT ![s] = used']
       /\ Broadcast(s, <<Event(s, "message_start", Msg(used', "assistant"))>>)
       /\ UNCHANGED <<log, queue>>
    \/ /\ phase[s] = "streaming"
       /\ LET m == Msg(stream[s], "assistant") IN
          AppendEntry(s, m) /\ Broadcast(s, <<Event(s, "message_end", m)>>)
       /\ stream' = [stream EXCEPT ![s] = 0]
       /\ phase' = [phase EXCEPT ![s] = "tools"]
       /\ UNCHANGED <<queue, used>>
    \/ /\ phase[s] = "tools"
       /\ phase' = [phase EXCEPT ![s] = "executing"]
       /\ Broadcast(s, <<Event(s, "tool_execution_start", 0)>>)
       /\ UNCHANGED <<log, stream, queue, used>>
    \/ /\ phase[s] = "executing" /\ used < MaxMsgs
       /\ used' = used + 1
       /\ LET m == Msg(used', "toolResult") IN
          AppendEntry(s, m) /\ Broadcast(s, <<Event(s, "tool_execution_end", m)>>)
       /\ phase' = [phase EXCEPT ![s] = "thinking"]
       /\ UNCHANGED <<stream, queue>>
    \/ /\ phase[s] \in {"thinking", "tools"}
       /\ phase' = [phase EXCEPT ![s] = "idle"]
       /\ Broadcast(s, <<Event(s, "agent_end", 0)>>)
       /\ UNCHANGED <<log, stream, queue, used>>

handleAgentEvent ==
    /\ \E s \in Sessions : agentEvent(s)
    /\ UNCHANGED <<conn, up, client, open, moves>>

processQueue ==
    /\ \E s \in Sessions :
        /\ phase[s] = "idle" /\ queue[s] # <<>>
        /\ LET m == Head(queue[s]) IN
           /\ queue' = [queue EXCEPT ![s] = Tail(@)]
           /\ AppendEntry(s, m)
           /\ phase' = [phase EXCEPT ![s] = "thinking"]
           /\ Broadcast(s, <<Event(s, "inject_message", m), Event(s, "agent_start", 0)>>)
    /\ UNCHANGED <<stream, conn, up, client, open, used, moves>>

----------------------------------------------------------------------------
(* The browser takes a message of the server.                             *)

\* The reducer's SESSION_SYNC.
SESSION_SYNC(msgs, s, st) == view' = msgs /\ sess' = s /\ status' = st /\ caps' = {}

Settled(msg) == Settle(msg.msgs)
Placeholder(msg) == IF msg.stream = 0 THEN <<>> ELSE <<Shown(Msg(msg.stream, "assistant"), TRUE)>>

requestMore(msg) ==
    up' = IF msg.more THEN Append(up, [t |-> "request_sync", s |-> msg.s, after |-> msg.cursor])
                      ELSE up

\* The in-flight message is not put in the view.
sessionSyncNoPlaceholder(msg) ==
    /\ SESSION_SYNC(Settled(msg), msg.s, IF msg.stream = 0 THEN "idle" ELSE "streaming")
    /\ requestMore(msg)

sessionSync(msg) ==
    /\ SESSION_SYNC(Settled(msg) \o Placeholder(msg), msg.s,
                    IF msg.stream = 0 THEN "idle" ELSE "streaming")
    /\ requestMore(msg)

finalize(m) ==
    view' = IF view # <<>> /\ Last(view).live THEN Append(Front(view), Shown(m, FALSE)) ELSE view

sessionEvent(msg) ==
    \/ msg.t = "agent_start" /\ status' = "streaming" /\ UNCHANGED view
    \/ /\ msg.t = "message_start"
       /\ status' = "streaming" /\ ADD_MESSAGE(msg.m, TRUE)
    \/ msg.t = "message_end" /\ finalize(msg.m) /\ UNCHANGED status
    \/ msg.t = "tool_execution_start" /\ status' = "executing_tools" /\ UNCHANGED view
    \/ msg.t = "tool_execution_end" /\ ADD_MESSAGE(msg.m, FALSE) /\ UNCHANGED status
    \/ msg.t = "agent_end" /\ status' = "idle" /\ UNCHANGED view
    \/ msg.t = "inject_message" /\ ADD_MESSAGE(msg.m, FALSE) /\ UNCHANGED status
    \/ msg.t = "command_result" /\ ADD_MESSAGE(Msg(0, "local"), FALSE) /\ UNCHANGED status

handleMessage ==
    /\ down # <<>>
    /\ down' = Tail(down)
    /\ LET msg == Head(down) IN
       \/ /\ msg.t = "session_sync" /\ sessionSync(msg)
       \/ /\ msg.t = "capability_state" /\ caps' = caps \cup {msg.cap}
          /\ UNCHANGED <<up, view, sess, status>>
       \/ /\ msg.t \notin {"session_sync", "capability_state"}
          /\ IF msg.s = sess THEN sessionEvent(msg) ELSE UNCHANGED <<view, status>>
          /\ UNCHANGED <<up, sess, caps>>
    /\ UNCHANGED <<server, conn, open, used, moves>>

Next ==
    \/ connect \/ disconnect
    \/ sendMessage \/ sendCommand \/ steerMessage \/ switchSession
    \/ handleClientMessage \/ handleAgentEvent \/ processQueue \/ handleMessage

Spec == Init /\ [][Next]_vars

----------------------------------------------------------------------------
(* Properties.                                                            *)

(* What the theorem about these properties assumes of the constants.       *)
ViewConstants ==
    /\ Sessions \subseteq Nat \ {0} /\ PageLimit \in Nat
    /\ Ops \subseteq {"prompt", "queue", "switch"}

Quiescent == open /\ up = <<>> /\ down = <<>> /\ sess = conn /\ phase[sess] = "idle" /\ queue[sess] = <<>>

Answer == [id : Nat, role : {"assistant", "toolResult"}]
ShownAnswer == [id : Nat, role : {"assistant", "toolResult"}, live : BOOLEAN]

(* Once the agent is idle and nothing is in flight, the browser shows the  *)
(* answers and tool results of the log of the session that it is on, in    *)
(* order, each once and none as still streaming: whatever was switched,    *)
(* lost and synchronised in the middle of a stream (message-handler.ts,    *)
(* session_sync).                                                          *)
AnswersShown ==
    Quiescent => Only(view, ShownAnswer) = Settle(Only(log[sess], Answer))

(* Once the agent is idle and nothing is in flight, the browser does not   *)
(* take it for busy: a browser that does sends every further message to a  *)
(* queue (use-chat-session.ts sendMessage).                                *)
StatusSettles == Quiescent => status = "idle"

(* A browser that has been synchronised knows the commands, which are      *)
(* re-sent after the sync that cleared them (agent-runtime.ts).            *)
CommandsKnown == Quiescent => "commands" \in caps

(* Not so: a browser shows the session that it is connected to.  The later *)
(* page of a session is asked for by its id; when the browser has switched *)
(* meanwhile, the answer brings the old session back, and the server goes  *)
(* on to send the events of the new one (agent-runtime.ts, request_sync).  *)
ShownIsWatched == open /\ up = <<>> /\ down = <<>> => sess = conn

=============================================================================
