-------------------------- MODULE SteeringMailbox ---------------------------
(***************************************************************************)
(* What steering an agent promises: messages are read in the order they    *)
(* were posted and none twice; some may be dropped unread when a run ends; *)
(* but the agent that is built next has every message that was ever        *)
(* posted, in order, in its history.  AgentLoop implements it.             *)
(***************************************************************************)
EXTENDS Integers, Sequences

CONSTANT Letters

VARIABLES open,    \* a run is under way
          posted,  \* every letter, in order
          inbox,   \* posted and not yet read
          heard    \* in the agent's history, in order

vars == <<open, posted, inbox, heard>>

Init == open = FALSE /\ posted = <<>> /\ inbox = <<>> /\ heard = <<>>

Post(m) ==
  /\ posted' = Append(posted, m)
  /\ inbox' = Append(inbox, m)
  /\ UNCHANGED <<open, heard>>

Prefix(n) == SubSeq(inbox, 1, n)
Rest(n) == SubSeq(inbox, n + 1, Len(inbox))

\* A run starts, and may begin with the oldest letters.
Open(n) ==
  /\ ~open /\ open' = TRUE
  /\ heard' = heard \o Prefix(n)
  /\ inbox' = Rest(n)
  /\ UNCHANGED posted

Read(n) ==
  /\ open
  /\ heard' = heard \o Prefix(n)
  /\ inbox' = Rest(n)
  /\ UNCHANGED <<open, posted>>

\* The run ends; the oldest letters may be dropped.
Close(n) ==
  /\ open /\ open' = FALSE
  /\ inbox' = Rest(n)
  /\ UNCHANGED <<posted, heard>>

\* The agent is replaced by one that knows everything, which may start at once.
Replace ==
  /\ open' \in BOOLEAN
  /\ inbox' = <<>>
  /\ heard' = posted
  /\ UNCHANGED posted

Next ==
  \/ \E m \in Letters : Post(m)
  \/ \E n \in 0 .. Len(inbox) : Open(n) \/ Read(n) \/ Close(n)
  \/ Replace

Spec == Init /\ [][Next]_vars
=============================================================================
