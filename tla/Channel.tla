------------------------------ MODULE Channel ------------------------------
(***************************************************************************)
(* A chat channel (Telegram): webhooks come in, pass the rate limiter,     *)
(* start a turn on the sender's session, and the answer goes out from the  *)
(* afterTurn hook.  Accounts are added and removed meanwhile.              *)
(*                                                                         *)
(* The turn that ends does not know which message began it.  afterTurn     *)
(* takes the target from a stash under the session's id, which every       *)
(* inbound message overwrites and nobody deletes.  Text is its length.     *)
(***************************************************************************)
EXTENDS RateLimiter

CONSTANTS Inbounds,       \* webhook calls: names of messages
          AccountOf,      \* the account whose URL a message was posted to
          SenderOf,       \* its sender; (channel, sender) is one session
          Lengths,        \* lengths of answers
          MAX_MESSAGE_LENGTH, MAX_CHUNKS, SuffixLength,
          Nobody,         \* no message
          MaxAdmin, MaxTurns, MaxRestarts   \* bounds

VARIABLES row,       \* account:<id>: "none", "pending", "active"
          adding, removing,   \* accounts with such a call under way
          webhook,   \* accounts whose webhook the provider has
          pc,        \* where the handler of each message is
          stash,     \* channel-inbound:<session>: message, or Nobody
          run,       \* what each session's turn is for, or Nobody
          after,     \* turns that ended and whose hook has not read the stash
          sending,   \* replies on their way
          sent,      \* ghost: replies that have ended, [owner, to, text]
          dropped,   \* ghost: messages whose answer had no account
          order,     \* ghost: messages in the order they were stashed
          admins, turns, restarts

Client == "client"                \* a turn that a browser began

\* A message is not one of the two names that stand for none.
ChannelConstants ==
  /\ Nobody \notin Inbounds \cup {Client} /\ Client \notin Inbounds
  /\ Lengths \subseteq Nat
  /\ {MAX_MESSAGE_LENGTH, MAX_CHUNKS} \subseteq Nat \ {0}
  /\ SuffixLength \in 0 .. MAX_MESSAGE_LENGTH

limiterVars == <<buckets, consumed, clock>>
accountVars == <<row, adding, removing, webhook, admins>>
replyVars == <<after, sending, sent, dropped>>
vars == <<limiterVars, accountVars, replyVars, pc, stash, run, order, turns,
          restarts>>

Accounts == {AccountOf[m] : m \in Inbounds}
Senders == {SenderOf[m] : m \in Inbounds}
SenderKey(m) == <<AccountOf[m], SenderOf[m]>>
AccountKey(m) == <<AccountOf[m]>>

Error == [kind |-> "error", size |-> 1]       \* ERROR_REPLY_TEXT
Answer(n) == [kind |-> "answer", size |-> n]

Least(i, j) == IF i < j THEN i ELSE j

\* Mutant: the suffix is not counted.
lastBudgetWhole == MAX_MESSAGE_LENGTH

lastBudget == MAX_MESSAGE_LENGTH - SuffixLength

\* The lengths of the messages a text of length n is sent as.
chunkMessage(n) ==
  LET full == n \div MAX_MESSAGE_LENGTH + (IF n % MAX_MESSAGE_LENGTH = 0 THEN 0 ELSE 1)
  IN  IF n = 0 THEN <<0>>
      ELSE IF n <= MAX_MESSAGE_LENGTH * MAX_CHUNKS
        THEN [i \in 1..full |->
                Least(MAX_MESSAGE_LENGTH, n - (i - 1) * MAX_MESSAGE_LENGTH)]
        ELSE [i \in 1..MAX_CHUNKS |->
                IF i < MAX_CHUNKS THEN MAX_MESSAGE_LENGTH
                ELSE lastBudget + SuffixLength]

\* sendReply of m's answer to the message `to`.
Reply(m, to, text) ==
  [owner |-> m, to |-> to, text |-> text, todo |-> chunkMessage(text.size)]

Init ==
  /\ LimiterInit
  /\ row = [a \in Accounts |-> "active"] /\ webhook = Accounts
  /\ adding = {} /\ removing = {} /\ admins = 0
  /\ pc = [m \in Inbounds |-> "unsent"]
  /\ stash = [s \in Senders |-> Nobody] /\ run = [s \in Senders |-> Nobody]
  /\ after = {} /\ sending = {} /\ sent = {} /\ dropped = {}
  /\ order = << >> /\ turns = 0 /\ restarts = 0

Goto(m, where) == pc' = [pc EXCEPT ![m] = where]
-----------------------------------------------------------------------------
\* handleInbound up to the body: the account is looked up and the request
\* verified. The provider calls only webhooks it has.
receive(m) ==
  /\ pc[m] = "unsent" /\ AccountOf[m] \in webhook
  /\ \/ row[AccountOf[m]] # "none" /\ Goto(m, "parsing")
     \/ Goto(m, "refused")                            \* 403
  /\ UNCHANGED <<limiterVars, accountVars, replyVars, stash, run, order, turns,
                 restarts>>

\* The update has no text, or the body cannot be read: acknowledged.
parseWebhook(m) ==
  /\ pc[m] = "parsing" /\ Goto(m, "ignored")
  /\ UNCHANGED <<limiterVars, accountVars, replyVars, stash, run, order, turns,
                 restarts>>

\* One of the buckets is empty. The sender's is charged first and stays so.
deny(m) ==
  /\ pc[m] = "parsing" /\ Goto(m, "denied")
  /\ \/ /\ ~Allowed(SenderKey(m))
        /\ UNCHANGED <<buckets, consumed>>
     \/ /\ Allowed(SenderKey(m))
        /\ ~Allowed(AccountKey(m))
        /\ Charge({SenderKey(m)})
  /\ UNCHANGED <<clock, accountVars, replyVars, stash, run, order, turns,
                 restarts>>

\* Mutant: a prompt that is refused is only logged.
promptFailsQuietly(m) == UNCHANGED <<replyVars, run>> /\ Goto(m, "done")

\* handleAgentPrompt throws, busy or not: the error text goes to the sender.
promptFails(m) ==
  /\ sending' = sending \cup {Reply(m, m, Error)} /\ Goto(m, "done")
  /\ UNCHANGED <<after, sent, dropped, run>>

promptStarts(m) ==
  /\ run[SenderOf[m]] = Nobody
  /\ run' = [run EXCEPT ![SenderOf[m]] = m] /\ Goto(m, "running")
  /\ UNCHANGED replyVars

\* Mutant: the first message of a session stays in the stash.
acceptKeepsStash(m) ==
  /\ pc[m] = "parsing"
  /\ Allowed(SenderKey(m))
  /\ Allowed(AccountKey(m))
  /\ Charge({SenderKey(m), AccountKey(m)})
  /\ stash' = [stash EXCEPT ![SenderOf[m]] = IF @ = Nobody THEN m ELSE @]
  /\ order' = Append(order, m)
  /\ promptStarts(m) \/ promptFails(m)
  /\ UNCHANGED <<clock, accountVars, turns, restarts>>

\* Both buckets are charged, the session is found or made, the message is
\* stashed and the prompt sent; nothing waits for the turn.
accept(m) ==
  /\ pc[m] = "parsing"
  /\ Allowed(SenderKey(m))
  /\ Allowed(AccountKey(m))
  /\ Charge({SenderKey(m), AccountKey(m)})
  /\ stash' = [stash EXCEPT ![SenderOf[m]] = m]
  /\ order' = Append(order, m)
  /\ promptStarts(m) \/ promptFails(m)
  /\ UNCHANGED <<clock, accountVars, turns, restarts>>

\* A browser prompts the same session.
clientTurn(s) ==
  /\ turns < MaxTurns /\ run[s] = Nobody
  /\ run' = [run EXCEPT ![s] = Client] /\ turns' = turns + 1
  /\ UNCHANGED <<limiterVars, accountVars, replyVars, pc, stash, order, restarts>>

\* agent_end: the hook is called with the last assistant text, which is empty
\* when the run failed or was aborted.
endTurn(s) ==
  /\ run[s] # Nobody
  /\ \E n \in Lengths \cup {0} :
       after' = after \cup {[owner |-> run[s], session |-> s, text |-> Answer(n)]}
  /\ run' = [run EXCEPT ![s] = Nobody]
  /\ pc' = IF run[s] = Client THEN pc ELSE [pc EXCEPT ![run[s]] = "done"]
  /\ UNCHANGED <<limiterVars, accountVars, sending, sent, dropped, stash, order,
                 turns, restarts>>

\* The hook: other capabilities' hooks ran before it. The account is the one
\* of the stash.
afterTurn(d) ==
  /\ d \in after /\ after' = after \ {d}
  /\ LET to == stash[d.session]
     IN  \/ /\ to = Nobody
            /\ UNCHANGED <<sending, dropped>>
         \/ /\ to # Nobody /\ row[AccountOf[to]] = "none"
            /\ dropped' = dropped \cup {d.owner}
            /\ UNCHANGED sending
         \/ /\ to # Nobody /\ row[AccountOf[to]] # "none"
            /\ sending' = sending \cup {Reply(d.owner, to, d.text)}
            /\ UNCHANGED dropped
  /\ UNCHANGED <<limiterVars, accountVars, sent, pc, stash, run, order, turns,
                 restarts>>

\* sendReply's loop: one message, and the next one when it has gone; an error
\* ends it.
sendMessage(r) ==
  /\ r \in sending
  /\ \/ /\ Len(r.todo) > 1
        /\ sending' = (sending \ {r}) \cup {[r EXCEPT !.todo = Tail(@)]}
        /\ UNCHANGED sent
     \/ /\ sending' = sending \ {r}
        /\ sent' = sent \cup {[owner |-> r.owner, to |-> r.to, text |-> r.text]}
  /\ UNCHANGED <<limiterVars, accountVars, after, dropped, pc, stash, run, order,
                 turns, restarts>>
-----------------------------------------------------------------------------
\* addAccount stores the account and calls setWebhook ...
addAccount(a) ==
  /\ admins < MaxAdmin /\ a \notin adding
  /\ row' = [row EXCEPT ![a] = "pending"]
  /\ adding' = adding \cup {a} /\ admins' = admins + 1
  /\ UNCHANGED <<limiterVars, replyVars, removing, webhook, pc, stash, run, order,
                 turns, restarts>>

\* ... and stores it again, or takes it out when the call failed; the provider
\* may have done what it was asked all the same.
addAccountEnds(a) ==
  /\ a \in adding /\ adding' = adding \ {a}
  /\ \/ row' = [row EXCEPT ![a] = "active"] /\ webhook' = webhook \cup {a}
     \/ row' = [row EXCEPT ![a] = "none"] /\ webhook' \in {webhook, webhook \cup {a}}
  /\ UNCHANGED <<limiterVars, replyVars, removing, admins, pc, stash, run, order,
                 turns, restarts>>

removeAccount(a) ==
  /\ admins < MaxAdmin /\ a \notin removing /\ row[a] # "none"
  /\ removing' = removing \cup {a} /\ admins' = admins + 1
  /\ UNCHANGED <<limiterVars, replyVars, row, adding, webhook, pc, stash, run,
                 order, turns, restarts>>

\* deleteWebhook may fail; the account goes in any case.
removeAccountEnds(a) ==
  /\ a \in removing /\ removing' = removing \ {a}
  /\ row' = [row EXCEPT ![a] = "none"] /\ webhook' \in {webhook, webhook \ {a}}
  /\ UNCHANGED <<limiterVars, replyVars, adding, admins, pc, stash, run, order,
                 turns, restarts>>

\* The Durable Object is evicted: rows and stash stay, calls are gone.
evict ==
  /\ restarts < MaxRestarts /\ restarts' = restarts + 1
  /\ pc' = [m \in Inbounds |->
              IF \/ pc[m] \in {"parsing", "running"}
                 \/ \E x \in after \cup sending : x.owner = m
                THEN "lost" ELSE pc[m]]
  /\ run' = [s \in Senders |-> Nobody]
  /\ after' = {} /\ sending' = {} /\ adding' = {} /\ removing' = {}
  /\ UNCHANGED <<limiterVars, row, webhook, admins, sent, dropped, stash, order,
                 turns>>

tick ==
  /\ LimiterTick
  /\ UNCHANGED <<accountVars, replyVars, pc, stash, run, order,
                 turns, restarts>>

Next ==
  \/ \E m \in Inbounds : receive(m) \/ parseWebhook(m) \/ deny(m) \/ accept(m)
  \/ \E s \in Senders : clientTurn(s) \/ endTurn(s)
  \/ \E d \in after : afterTurn(d)
  \/ \E r \in sending : sendMessage(r)
  \/ \E a \in Accounts : \/ addAccount(a) \/ addAccountEnds(a)
                         \/ removeAccount(a) \/ removeAccountEnds(a)
  \/ evict
  \/ tick

Spec == Init /\ [][Next]_vars
-----------------------------------------------------------------------------
Place(m) == CHOOSE i \in DOMAIN order : order[i] = m
Accepted == {order[i] : i \in DOMAIN order}

\* What stands for m's answer: the turn, the hook to run, the reply, or the
\* note that its account had gone.
Answers(m) ==
  Cardinality({x \in after \cup sending \cup sent : x.owner = m})
    + Cardinality({x \in dropped : x = m})
    + Cardinality({s \in Senders : run[s] = m})

\* Each message that passed the limiter has exactly one answer, running, on its
\* way, sent, or dropped with its account, unless an eviction took it; and no
\* answer goes to a message that came before the one it answers.
AnsweredOnce ==
  /\ \A m \in Accepted : pc[m] # "lost" => Answers(m) = 1
  /\ \A r \in sending \cup sent :
       r.owner # Client => Place(r.to) >= Place(r.owner)

\* What goes out fits the provider's limits.
ChunksFit ==
  \A r \in sending :
    /\ Len(r.todo) <= MAX_CHUNKS
    /\ \A i \in DOMAIN r.todo : r.todo[i] <= MAX_MESSAGE_LENGTH

\* The two together.
ChannelAnswers == AnsweredOnce /\ ChunksFit

\* What define-channel.ts says: a real reply or an error text, never silence.
\* A failed run is answered with the empty text.
NeverSilence == \A r \in sent : r.text.size > 0

\* An answer goes out through the account that its message came in by.
OwnAccount ==
  \A r \in sending \cup sent : r.owner # Client => AccountOf[r.to] = AccountOf[r.owner]
=============================================================================
