--------------------------- MODULE SessionRouting ---------------------------
(***************************************************************************)
(* Which session each client connection is on, and which session the       *)
(* runtime takes for a connection or a request that names none.            *)
(*                                                                         *)
(* A WebSocket keeps its session id in an attachment that survives         *)
(* hibernation.  The transport's map of connections is in memory: after    *)
(* hibernation a socket is back in it only once it has sent a message.     *)
(* "The first session" is the first row by updated_at, a TEXT column that  *)
(* SQLite fills with datetime('now') on creation ("2026-01-01 10:00:00")   *)
(* and appendEntry with an ISO string ("2026-01-01T10:00:00.000Z").        *)
(***************************************************************************)
EXTENDS Integers, FiniteSets

CONSTANTS Sessions,       \* session ids, numbers (nanoid: never used twice)
          Sockets,        \* client WebSockets
          Senders,        \* (source, sender) pairs of channel messages
          None,           \* no session, or no sender
          TicksPerSecond, \* resolution of datetime('now')
          TicksPerDay,
          MaxClock,       \* bound: the clock stops here
          CanClear,       \* clients use the /clear command
          CanHibernate    \* the Durable Object may hibernate

\* Numbers, so that a fresh id can be named.
RoutingConstants ==
  /\ Sessions \subseteq Nat /\ None \notin Sessions /\ None \notin Senders
  /\ {TicksPerSecond, TicksPerDay} \subseteq Nat \ {0}

VARIABLES rows,      \* sessions table: [at, iso, sender] per existing id
          used,      \* ids handed out so far
          attached,  \* session id of each open socket, None when closed
          tracked,   \* sockets in CfWebSocketTransport.connections
          clock

vars == <<rows, used, attached, tracked, clock>>

\* `at` is when the row was last touched, `iso` the format of updated_at.
SessionRow == [at : Nat, iso : BOOLEAN, sender : Senders \cup {None}]

Existing == DOMAIN rows
Open == {c \in Sockets : attached[c] # None}

-----------------------------------------------------------------------------
(***************************************************************************)
(* ORDER BY updated_at DESC compares text: first the date, then the        *)
(* separator, where "T" is above " ", then the time of day.                *)
(***************************************************************************)
Day(t) == t \div TicksPerDay
Shown(r) == IF r.iso THEN r.at ELSE r.at - (r.at % TicksPerSecond)

\* Mutant: ascending order.
AboveAscending(q, r) ==
  \/ Day(q.at) < Day(r.at)
  \/ /\ Day(q.at) = Day(r.at)
     /\ \/ r.iso /\ ~q.iso
        \/ q.iso = r.iso /\ Shown(q) < Shown(r)

Above(q, r) ==
  \/ Day(q.at) > Day(r.at)
  \/ /\ Day(q.at) = Day(r.at)
     /\ \/ q.iso /\ ~r.iso
        \/ q.iso = r.iso /\ Shown(q) > Shown(r)

\* The rows list() may put first; equal timestamps come in either order.
FirstOf(table) ==
  {s \in DOMAIN table : \A t \in DOMAIN table : ~Above(table[t], table[s])}

NewRow(sender) == [at |-> clock, iso |-> FALSE, sender |-> sender]

With(table, s, row) ==
  [t \in DOMAIN table \cup {s} |-> IF t = s THEN row ELSE table[t]]

Without(table, s) == [t \in DOMAIN table \ {s} |-> table[t]]

\* The id is fresh. Ids are numbered as they are made; nothing compares them.
Fresh(s) ==
  /\ s \notin used /\ \A t \in Sessions \ used : s <= t
  /\ used' = used \cup {s}

\* handlePrompt's writes: an unnamed session is renamed and the user entry
\* appended in one step, so updated_at ends in the ISO format.
Touched(table, s) ==
  [table EXCEPT ![s].at = clock, ![s].iso = TRUE]

\* The first session, or a new one when there is none.
FirstOrNew(s) ==
  IF Existing = {}
    THEN Fresh(s) /\ rows' = With(rows, s, NewRow(None))
    ELSE s \in FirstOf(rows) /\ UNCHANGED <<rows, used>>

\* handleMessage puts a socket that is not in the map back into it.
Receive(c) == c \in Open /\ tracked' = tracked \cup {c}

-----------------------------------------------------------------------------
handleTransportOpen(c, s) ==
  /\ c \notin Open
  /\ FirstOrNew(s)
  /\ attached' = [attached EXCEPT ![c] = s]
  /\ tracked' = tracked \cup {c}
  /\ UNCHANGED clock

handleClose(c) ==
  /\ c \in Open
  /\ attached' = [attached EXCEPT ![c] = None]
  /\ tracked' = tracked \ {c}
  /\ UNCHANGED <<rows, used, clock>>

\* The connection is moved before the session is looked up.
switchSession(c, s) ==
  /\ Receive(c)
  /\ s \in used
  /\ attached' = [attached EXCEPT ![c] = s]
  /\ UNCHANGED <<rows, used, clock>>

newSession(c, s) ==
  /\ Receive(c)
  /\ Fresh(s)
  /\ rows' = With(rows, s, NewRow(None))
  /\ attached' = [attached EXCEPT ![c] = s]
  /\ UNCHANGED clock

\* Mutant: the last session may go.
deleteSessionUnguarded(c, s) ==
  /\ Receive(c)
  /\ s \in used
  /\ rows' = Without(rows, s)
  /\ \E t \in FirstOf(rows') \cup {None} :
       attached' = [d \in Sockets |->
                      IF d \in tracked' /\ attached[d] = s /\ t # None
                        THEN t ELSE attached[d]]
  /\ UNCHANGED <<used, clock>>

\* Mutant: only the connection that asked is redirected.
deleteSessionSenderOnly(c, s) ==
  /\ Receive(c)
  /\ s \in used
  /\ Cardinality(Existing) > 1
  /\ rows' = Without(rows, s)
  /\ \E t \in FirstOf(rows') :
       attached' = IF attached[c] = s THEN [attached EXCEPT ![c] = t]
                                      ELSE attached
  /\ UNCHANGED <<used, clock>>

\* Every connection of the map that is on the session moves to the first of
\* the remaining ones.  The last session is never deleted.
deleteSession(c, s) ==
  /\ Receive(c)
  /\ s \in used
  /\ IF Cardinality(Existing) > 1
       THEN /\ rows' = Without(rows, s)
            /\ \E t \in FirstOf(rows') :
                 attached' = [d \in Sockets |->
                                IF d \in tracked' /\ attached[d] = s
                                  THEN t ELSE attached[d]]
       ELSE UNCHANGED <<rows, attached>>
  /\ UNCHANGED <<used, clock>>

\* /clear on session s: a new session for the asking connection, and s is
\* deleted (there is another one now, unless s was the only id and is gone).
handleClearCommand(c, s, new) ==
  /\ CanClear
  /\ Receive(c)
  /\ s \in used
  /\ Fresh(new)
  /\ LET table == With(rows, new, NewRow(None))
     IN  rows' = IF Cardinality(DOMAIN table) > 1 THEN Without(table, s)
                                                  ELSE table
  /\ attached' = [attached EXCEPT ![c] = new]
  /\ UNCHANGED clock

\* prompt or steer from a client; appendEntry throws for a missing session.
clientPrompt(c, s) ==
  /\ Receive(c)
  /\ s \in used
  /\ rows' = IF s \in Existing THEN Touched(rows, s) ELSE rows
  /\ UNCHANGED <<used, attached, clock>>

\* POST /prompt without a session id.
handleHttpPrompt(s) ==
  /\ IF Existing = {}
       THEN Fresh(s) /\ rows' = Touched(With(rows, s, NewRow(None)), s)
       ELSE s \in FirstOf(rows) /\ rows' = Touched(rows, s) /\ UNCHANGED used
  /\ UNCHANGED <<attached, tracked, clock>>

\* findBySourceAndSender
SessionsOf(sender) == {s \in Existing : rows[s].sender = sender}

\* Mutant: the lookup is skipped.
handleAgentPromptNoLookup(sender, s) ==
  /\ Fresh(s) /\ rows' = Touched(With(rows, s, NewRow(sender)), s)
  /\ UNCHANGED <<attached, tracked, clock>>

\* handleAgentPrompt for a channel message: its sender's session, or a new one.
handleAgentPrompt(sender, s) ==
  /\ IF SessionsOf(sender) = {}
       THEN Fresh(s) /\ rows' = Touched(With(rows, s, NewRow(sender)), s)
       ELSE s \in SessionsOf(sender) /\ rows' = Touched(rows, s) /\ UNCHANGED used
  /\ UNCHANGED <<attached, tracked, clock>>

\* The Durable Object leaves memory; sockets and attachments stay.
hibernate ==
  /\ CanHibernate
  /\ tracked # {}
  /\ tracked' = {}
  /\ UNCHANGED <<rows, used, attached, clock>>

Tick ==
  /\ clock < MaxClock
  /\ clock' = clock + 1
  /\ UNCHANGED <<rows, used, attached, tracked>>

-----------------------------------------------------------------------------
Init ==
  /\ rows = [s \in {} |-> NewRow(None)]
  /\ used = {}
  /\ attached = [c \in Sockets |-> None]
  /\ tracked = {}
  /\ clock = 0

Next ==
  \/ \E c \in Sockets, s \in Sessions :
       \/ handleTransportOpen(c, s) \/ switchSession(c, s)
       \/ newSession(c, s) \/ deleteSession(c, s) \/ clientPrompt(c, s)
       \/ \E new \in Sessions : handleClearCommand(c, s, new)
  \/ \E c \in Sockets : handleClose(c)
  \/ \E s \in Sessions : handleHttpPrompt(s)
  \/ \E p \in Senders, s \in Sessions : handleAgentPrompt(p, s)
  \/ hibernate
  \/ Tick

Spec == Init /\ [][Next]_vars

-----------------------------------------------------------------------------
\* A step of delete_session (/clear also creates a session) leaves no
\* connection that the transport knows of on the deleted session, its sender
\* and all others: "The fix redirects ALL connections on the deleted session."
\* (test delete-session-ghost.test.ts)
DeleteRedirectsTracked ==
  [][\A s \in Existing \ DOMAIN rows' :
       used' = used => \A c \in tracked' : attached'[c] # s]_vars

\* While a client is connected there is a session to be redirected to: the
\* guard of delete_session, /clear and the defaulting of handleTransportOpen
\* together never leave the runtime without one.
SessionRemains == Open # {} => Existing # {}

\* A channel's sender has one session, so its messages stay in one
\* conversation: lookup and creation in handleAgentPrompt are not separated
\* by an await.
OneSessionPerSender ==
  \A s, t \in Existing :
    rows[s].sender = rows[t].sender /\ rows[s].sender # None => s = t

\* The order of list() is right across days, and, within a day, among
\* sessions whose timestamps have the same format (to the second for sessions
\* that were only created).
ListOrderSound ==
  \A s, t \in Existing :
    Above(rows[s], rows[t]) =>
      \/ rows[s].at > rows[t].at
      \/ Day(rows[s].at) = Day(rows[t].at) /\ rows[s].iso # rows[t].iso

\* What keeps sessions, connections and senders together.
SessionsKept ==
  /\ [](SessionRemains /\ OneSessionPerSender /\ ListOrderSound)
  /\ DeleteRedirectsTracked

\* A session touched after all others comes first in list(): "Most recently
\* created should be first (higher updatedAt)" (session-store.test.ts).
MostRecentFirst ==
  \A s \in Existing :
    (\A t \in Existing \ {s} : rows[t].at < rows[s].at - TicksPerSecond)
      => FirstOf(rows) = {s}
=============================================================================
