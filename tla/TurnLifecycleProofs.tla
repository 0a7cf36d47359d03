------------------------ MODULE TurnLifecycleProofs -------------------------
(***************************************************************************)
(* The turns of one session for any set of messages.                       *)
(*                                                                         *)
(* StreamingIsCurrent, under the input gate, is not inductive: startPrompt *)
(* marks the agent of the map as streaming, whatever else streams.  What   *)
(* makes it safe is that a call is inside ensureAgent only when nothing    *)
(* streams, and that no two calls are there at once.                       *)
(* MessagesKept is proved from two invariants, one that says where every   *)
(* accepted message is and one that orders those places by arrival.        *)
(***************************************************************************)
EXTENDS TurnLifecycle, SequenceTheorems, TLAPS

MapTypes ==
  /\ DOMAIN pc = Messages
  /\ current \in Messages \cup {None}
  /\ streaming \subseteq Messages

EnsureAlone ==
  /\ \A m, n \in InEnsure : m = n
  /\ InEnsure # {} => streaming = {}

RunInv == MapTypes /\ EnsureAlone /\ StreamingIsCurrent

-----------------------------------------------------------------------------
\* A call that finds the session's agent idle finds no agent streaming at
\* all: what the busy check of handlePrompt tests on one agent holds of all.
LEMMA IdleMeansQuiet ==
  ASSUME RunInv, ~Busy
  PROVE  streaming = {}
BY NoneAssumption DEF RunInv, MapTypes, StreamingIsCurrent, Busy

\* The step that moves message m into ensureAgent keeps the invariant when no
\* other call is there and nothing streams.
LEMMA EnterEnsure ==
  ASSUME RunInv, NEW m \in Messages, InEnsure = {}, streaming = {},
         NEW p, pc' = [pc EXCEPT ![m] = p],
         UNCHANGED <<current, streaming>>
  PROVE  RunInv'
BY DEF RunInv, MapTypes, EnsureAlone, StreamingIsCurrent, InEnsure

\* A step that moves no call into ensureAgent, and changes neither the map nor
\* the streaming agents, keeps the invariant.
LEMMA OtherCalls ==
  ASSUME RunInv, DOMAIN pc' = Messages,
         \A m \in Messages :
            pc'[m] \in {"ensuring", "created"} => pc[m] \in {"ensuring", "created"},
         UNCHANGED <<current, streaming>>
  PROVE  RunInv'
<1>1. InEnsure' \subseteq InEnsure
  BY DEF InEnsure
<1>2. QED
  BY <1>1 DEF RunInv, MapTypes, EnsureAlone, StreamingIsCurrent

\* The part of handlePrompt after the bundle keeps the invariant: the busy
\* check decides between the queue and ensureAgent.
LEMMA AfterBundleStep ==
  ASSUME RunInv, NEW m \in Messages, InEnsure = {}, AfterBundle(m, Busy),
         UNCHANGED <<current, streaming>>
  PROVE  RunInv'
<1>1. CASE Busy
  BY <1>1, OtherCalls DEF AfterBundle, RunInv, MapTypes
<1>2. CASE ~Busy
  <2>1. streaming = {}
    BY <1>2, IdleMeansQuiet
  <2>2. pc' = [pc EXCEPT ![m] = "ensuring"]
    BY <1>2 DEF AfterBundle
  <2>3. QED
    BY <2>1, <2>2, EnterEnsure
<1>3. QED
  BY <1>1, <1>2

\* The same for handlePrompt from its start; b is what the caller has seen of
\* the agent, and it must be the truth.
LEMMA BeginPromptStep ==
  ASSUME RunInv, NEW m \in Messages, InEnsure = {}, BeginPrompt(m, Busy),
         UNCHANGED <<current, streaming>>
  PROVE  RunInv'
<1>1. CASE live /\ ~HasBundle
  BY <1>1, AfterBundleStep DEF BeginPrompt
<1>2. CASE ~live \/ HasBundle
  BY <1>2, OtherCalls DEF BeginPrompt, RunInv, MapTypes
<1>3. QED
  BY <1>1, <1>2

-----------------------------------------------------------------------------
\* RunInv holds of an idle session,
LEMMA InitRunInv == Init => RunInv
BY DEF Init, RunInv, MapTypes, EnsureAlone, StreamingIsCurrent, InEnsure

\* and with the gate each step preserves it.
LEMMA NextRunInv ==
  ASSUME Gated, RunInv, [Next]_vars
  PROVE  RunInv'
<1> USE DEF RunInv, MapTypes
<1>1. ASSUME NEW m \in Messages, handlePrompt(m) PROVE RunInv'
  BY <1>1, BeginPromptStep DEF handlePrompt, Deliverable
<1>2. ASSUME NEW m \in Messages, queueMessage(m) PROVE RunInv'
  <2>1. CASE Busy
    BY <1>2, <2>1, OtherCalls DEF queueMessage
  <2>2. CASE ~Busy
    <3>1. BeginPrompt(m, Busy) /\ InEnsure = {} /\ UNCHANGED <<current, streaming>>
      BY <1>2, <2>2 DEF queueMessage, Deliverable, BeginPrompt, AfterBundle
    <3>2. QED
      BY <3>1, BeginPromptStep
  <2>3. QED
    BY <2>1, <2>2
<1>3. ASSUME NEW m \in Messages, handleAgentPrompt(m) PROVE RunInv'
  <2>1. CASE Busy \/ ~live
    BY <1>3, <2>1, OtherCalls DEF handleAgentPrompt
  <2>2. CASE ~Busy /\ live
    <3>1. streaming = {}
      BY <2>2, IdleMeansQuiet
    <3>2. QED
      BY <1>3, <2>2, <3>1, EnterEnsure DEF handleAgentPrompt, Deliverable
  <2>3. QED
    BY <2>1, <2>2
<1>4. ASSUME NEW m \in Messages, queueDelete(m) PROVE RunInv'
  BY <1>4, OtherCalls DEF queueDelete
<1>5. ASSUME NEW m \in Messages, handleSteer(m) PROVE RunInv'
  BY <1>5, OtherCalls DEF handleSteer, Steer
<1>6. ASSUME NEW m \in Messages, deliverSteering(m) PROVE RunInv'
  BY <1>6, OtherCalls DEF deliverSteering
<1>7. ASSUME NEW m \in Messages, bundlePromptHandler(m) PROVE RunInv'
  <2>1. CASE pc' = [pc EXCEPT ![m] = "handled"]
    BY <1>7, <2>1, OtherCalls DEF bundlePromptHandler
  <2>2. CASE AfterBundle(m, Busy)
    BY <1>7, <2>2, AfterBundleStep DEF bundlePromptHandler, Deliverable
  <2>3. QED
    BY <1>7, <2>1, <2>2 DEF bundlePromptHandler
<1>8. ASSUME NEW m \in Messages, ensureAgent(m) PROVE RunInv'
  <2>1. streaming = {} /\ InEnsure' = InEnsure
    BY <1>8 DEF ensureAgent, InEnsure, EnsureAlone
  <2>2. QED
    BY <1>8, <2>1 DEF ensureAgent, EnsureAlone, StreamingIsCurrent
<1>9. ASSUME NEW m \in Messages, ensureAgentThrows(m) PROVE RunInv'
  BY <1>9, OtherCalls DEF ensureAgentThrows
<1>10. ASSUME NEW m \in Messages, startPrompt(m) PROVE RunInv'
  <2>1. CASE current = None \/ current \in streaming
    BY <1>10, <2>1, OtherCalls DEF startPrompt
  <2>2. CASE ~(current = None \/ current \in streaming)
    <3>1. InEnsure = {m} /\ streaming = {}
      BY <1>10 DEF startPrompt, InEnsure, EnsureAlone
    <3>2. InEnsure' = {} /\ streaming' = {current} /\ current' = current
      BY <1>10, <2>2, <3>1 DEF startPrompt, InEnsure
    <3>3. QED
      BY <1>10, <2>2, <3>2 DEF startPrompt, EnsureAlone, StreamingIsCurrent
  <2>3. QED
    BY <2>1, <2>2
<1>11. ASSUME NEW a \in Messages, agentEnd(a) PROVE RunInv'
  <2>1. streaming' = {} /\ current' = None /\ InEnsure = {}
    BY <1>11 DEF agentEnd, Deliverable, StreamingIsCurrent
  <2>2. DOMAIN pc' = Messages /\ \A m, n \in InEnsure' : m = n
    <3>1. DOMAIN EndedPc(a) = Messages
          /\ \A m \in Messages : EndedPc(a)[m] \notin {"ensuring", "created"}
      BY <2>1 DEF EndedPc, InEnsure
    <3>2. processQueue(EndedPc(a))
      BY <1>11 DEF agentEnd
    <3>3. CASE queue = <<>>
      BY <3>1, <3>2, <3>3 DEF processQueue, InEnsure
    <3>4. CASE queue # <<>>
      <4>1. PICK p : pc' = [EndedPc(a) EXCEPT ![Head(queue)] = p]
        BY <3>2, <3>4 DEF processQueue
      <4>2. QED
        BY <3>1, <4>1 DEF InEnsure
    <3>5. QED
      BY <3>3, <3>4
  <2>3. QED
    BY <2>1, <2>2 DEF EnsureAlone, StreamingIsCurrent
<1>12. CASE abort
  BY <1>12, OtherCalls DEF abort
<1>13. CASE deleteSession
  BY <1>13, OtherCalls DEF deleteSession
<1>14. CASE handleClearCommand
  BY <1>14, OtherCalls DEF handleClearCommand
<1>15. CASE restart
  <2>1. InEnsure' = {} /\ streaming' = {} /\ current' = None
    BY <1>15 DEF restart, InEnsure, Awaiting
  <2>2. QED
    BY <1>15, <2>1 DEF restart, EnsureAlone, StreamingIsCurrent
<1>16. CASE UNCHANGED vars
  BY <1>16, OtherCalls DEF vars
<1>17. QED
  BY <1>1, <1>2, <1>3, <1>4, <1>5, <1>6, <1>7, <1>8, <1>9, <1>10, <1>11,
     <1>12, <1>13, <1>14, <1>15, <1>16 DEF Next, Progress

-----------------------------------------------------------------------------
\* Under the input gate the agent that runs is the one in sessionAgents, for
\* any number of messages, with bundles, failures, deletions and evictions:
\* the busy check of handlePrompt and the write at the end of ensureAgent
\* behave as one step although awaits lie between them.
THEOREM RunIsReachable == ASSUME Gated PROVE Spec => []StreamingIsCurrent
<1>1. Init => RunInv
  BY InitRunInv
<1>2. RunInv /\ [Next]_vars => RunInv'
  BY NextRunInv
<1>3. RunInv => StreamingIsCurrent
  BY DEF RunInv
<1>4. QED
  BY <1>1, <1>2, <1>3, PTL DEF Spec

-----------------------------------------------------------------------------
(***************************************************************************)
(* AcceptedIsDurable, with every fault of the model.  A message in         *)
(* message_queue that is not logged must still be one that its call has    *)
(* left "queued": this is what deletions and evictions look at.            *)
(***************************************************************************)
QueueTypes ==
  /\ queue \in Seq(Messages)
  /\ arrived \in Seq(Messages)

Durable(m) ==
  \/ logged[m] > 0
  \/ m \in Range(queue) /\ pc[m] = "queued"
  \/ pc[m] \in {"failed", "dropped"}

DurableInv ==
  /\ DOMAIN pc = Messages
  /\ logged \in [Messages -> Nat]
  /\ QueueTypes
  /\ \A m \in Range(arrived) : Durable(m)

\* Appending keeps the elements and adds one.
LEMMA RangeAppend ==
  ASSUME NEW S, NEW s \in Seq(S), NEW x \in S
  PROVE  Append(s, x) \in Seq(S) /\ Range(Append(s, x)) = Range(s) \cup {x}
<1>1. Append(s, x) \in Seq(S) /\ DOMAIN Append(s, x) = DOMAIN s \cup {Len(s) + 1}
  OBVIOUS
<1>2. \A k \in DOMAIN s : Append(s, x)[k] = s[k]
  OBVIOUS
<1>3. Append(s, x)[Len(s) + 1] = x
  OBVIOUS
<1>4. QED
  BY <1>1, <1>2, <1>3 DEF Range

\* The head and the tail of a sequence have all its elements.
LEMMA RangeHeadTail ==
  ASSUME NEW S, NEW s \in Seq(S), s # <<>>
  PROVE  /\ Head(s) \in S /\ Tail(s) \in Seq(S)
         /\ Range(s) = Range(Tail(s)) \cup {Head(s)}
<1>1. Head(s) = s[1] /\ 1 \in DOMAIN s /\ Tail(s) \in Seq(S)
  OBVIOUS
<1>2. \A k \in DOMAIN Tail(s) : k + 1 \in DOMAIN s /\ Tail(s)[k] = s[k + 1]
  OBVIOUS
<1>3. \A k \in DOMAIN s : k = 1 \/ (k - 1 \in DOMAIN Tail(s) /\ Tail(s)[k - 1] = s[k])
  OBVIOUS
<1>4. Range(Tail(s)) \subseteq Range(s)
  BY <1>2 DEF Range
<1>5. Range(s) \subseteq Range(Tail(s)) \cup {s[1]}
  BY <1>3 DEF Range
<1>6. QED
  BY <1>1, <1>4, <1>5 DEF Range

\* Removing one element keeps the others, in their order.
LEMMA RemoveAtElements ==
  ASSUME NEW S, NEW s \in Seq(S), NEW i \in DOMAIN s
  PROVE  /\ RemoveAt(s, i) \in Seq(S)
         /\ Len(RemoveAt(s, i)) = Len(s) - 1
         /\ \A k \in 1 .. Len(s) - 1 :
               RemoveAt(s, i)[k] = IF k < i THEN s[k] ELSE s[k + 1]
<1> DEFINE a == SubSeq(s, 1, i - 1)
           b == SubSeq(s, i + 1, Len(s))
<1>1. i \in 1 .. Len(s) /\ Len(s) \in Nat
  OBVIOUS
<1>2. /\ a \in Seq(S) /\ Len(a) = i - 1
      /\ \A k \in 1 .. i - 1 : a[k] = s[k]
  BY <1>1
<1>3. /\ b \in Seq(S) /\ Len(b) = Len(s) - i
      /\ \A k \in 1 .. Len(s) - i : b[k] = s[i + k]
  BY <1>1
<1>4. RemoveAt(s, i) = a \o b
  BY DEF RemoveAt
<1> HIDE DEF a, b
<1>5. /\ a \o b \in Seq(S) /\ Len(a \o b) = Len(s) - 1
      /\ \A k \in 1 .. Len(s) - 1 :
            (a \o b)[k] = IF k < i THEN a[k] ELSE b[k - (i - 1)]
  <2>1. a \o b \in Seq(S) /\ Len(a \o b) = Len(a) + Len(b)
    BY <1>2, <1>3, ConcatProperties
  <2>2. ASSUME NEW k \in 1 .. Len(a) + Len(b)
        PROVE  (a \o b)[k] = IF k <= Len(a) THEN a[k] ELSE b[k - Len(a)]
    BY <1>2, <1>3, ConcatProperties
  <2>3. Len(a) = i - 1 /\ Len(a) + Len(b) = Len(s) - 1
    BY <1>1, <1>2, <1>3
  <2>4. ASSUME NEW k \in 1 .. Len(s) - 1
        PROVE  (a \o b)[k] = IF k < i THEN a[k] ELSE b[k - (i - 1)]
    <3>1. k \in 1 .. Len(a) + Len(b) /\ (k <= Len(a) <=> k < i)
      BY <1>1, <2>3
    <3>2. QED
      BY <2>2, <2>3, <3>1
  <2>5. QED
    BY <2>1, <2>3, <2>4
<1>6. \A k \in 1 .. Len(s) - 1 : (a \o b)[k] = IF k < i THEN s[k] ELSE s[k + 1]
  BY <1>1, <1>2, <1>3, <1>5
<1>7. QED
  BY <1>4, <1>5, <1>6

\* Removing one place of a sequence removes that element only.
LEMMA RemoveAtRange ==
  ASSUME NEW S, NEW s \in Seq(S), NEW i \in DOMAIN s
  PROVE  /\ Range(RemoveAt(s, i)) \subseteq Range(s)
         /\ \A x \in Range(s) : x # s[i] => x \in Range(RemoveAt(s, i))
<1> DEFINE r == RemoveAt(s, i)
<1>1. /\ r \in Seq(S) /\ Len(r) = Len(s) - 1
      /\ \A k \in 1 .. Len(s) - 1 : r[k] = IF k < i THEN s[k] ELSE s[k + 1]
  BY RemoveAtElements
<1> HIDE DEF r
<1>2. DOMAIN r = 1 .. Len(s) - 1 /\ DOMAIN s = 1 .. Len(s) /\ Len(s) \in Nat
  BY <1>1
<1>3. ASSUME NEW k \in DOMAIN r PROVE \E l \in DOMAIN s : r[k] = s[l]
  BY <1>1, <1>2
<1>4. ASSUME NEW l \in DOMAIN s, l # i
      PROVE  \E k \in DOMAIN r : r[k] = s[l]
  <2>1. CASE l < i
    BY <1>1, <1>2, <1>4, <2>1
  <2>2. CASE l > i
    <3>1. l - 1 \in DOMAIN r /\ ~ (l - 1 < i) /\ (l - 1) + 1 = l
      BY <1>2, <2>2
    <3>2. QED
      BY <1>1, <1>2, <3>1
  <2>3. QED
    BY <1>2, <1>4, <2>1, <2>2
<1>5. QED
  BY <1>3, <1>4 DEF Range, r

\* A step keeps the invariant if it makes no durable message vanish and accepts
\* none that is not durable.
LEMMA DurableStep ==
  ASSUME DurableInv, DOMAIN pc' = Messages, logged' \in [Messages -> Nat],
         QueueTypes',
         \A m \in Range(arrived') : m \in Range(arrived) \/ Durable(m)',
         \A m \in Messages : Durable(m) => Durable(m)'
  PROVE  DurableInv'
<1>1. \A m \in Range(arrived') : m \in Messages
  BY DEF QueueTypes, Range
<1>2. QED
  BY <1>1 DEF DurableInv

\* A step that leaves log, queue and arrivals alone and touches only calls that
\* are neither queued nor given up.
LEMMA CallsOnly ==
  ASSUME DurableInv, DOMAIN pc' = Messages,
         \A m \in Messages : pc[m] \in {"queued", "failed", "dropped"} => pc'[m] = pc[m],
         UNCHANGED <<logged, queue, arrived>>
  PROVE  DurableInv'
<1>1. \A m \in Messages : Durable(m) => Durable(m)'
  BY DEF Durable, Range
<1>2. QED
  BY <1>1, DurableStep DEF DurableInv, QueueTypes, Range

\* Accepting a message adds it, and nothing else, to those that have arrived.
LEMMA AcceptTypes ==
  ASSUME arrived \in Seq(Messages), NEW m \in Messages,
         arrived' \in {arrived, Append(arrived, m)}
  PROVE  arrived' \in Seq(Messages) /\ Range(arrived') \subseteq Range(arrived) \cup {m}
<1>1. CASE arrived' = arrived
  BY <1>1 DEF Range
<1>2. CASE arrived' = Append(arrived, m)
  BY <1>2, RangeAppend
<1>3. QED
  BY <1>1, <1>2

\* The row that is appended to message_queue, of a message that is accepted
\* now or was logged before.
LEMMA Enqueued ==
  ASSUME DurableInv, NEW m \in Messages, pc[m] \notin {"queued", "failed", "dropped"},
         queue' = Append(queue, m), pc' = [pc EXCEPT ![m] = "queued"],
         logged' \in [Messages -> Nat],
         \A n \in Messages : logged'[n] >= logged[n],
         arrived' \in {arrived, Append(arrived, m)}
  PROVE  DurableInv'
<1>1. /\ queue' \in Seq(Messages) /\ Range(queue') = Range(queue) \cup {m}
      /\ arrived' \in Seq(Messages) /\ Range(arrived') \subseteq Range(arrived) \cup {m}
  BY AcceptTypes, RangeAppend DEF DurableInv, QueueTypes
<1>2. ASSUME NEW n \in Messages, Durable(n) PROVE Durable(n)'
  <2>1. logged[n] > 0 => logged'[n] > 0
    <3>1. logged[n] \in Nat /\ logged'[n] \in Nat
      BY DEF DurableInv
    <3>2. logged'[n] >= logged[n]
      OBVIOUS
    <3>3. QED
      BY <3>1, <3>2
  <2>2. n # m => pc'[n] = pc[n]
    BY DEF DurableInv
  <2>3. n \in Range(queue) => n \in Range(queue')
    BY <1>1
  <2>4. n = m => logged[n] > 0
    BY <1>2 DEF Durable
  <2>5. QED
    BY <1>2, <2>1, <2>2, <2>3, <2>4 DEF Durable
<1>3. Durable(m)'
  BY <1>1 DEF Durable, DurableInv
<1>4. QED
  BY <1>1, <1>2, <1>3, DurableStep DEF DurableInv, QueueTypes

\* The entry that handlePrompt and handleSteer append makes the message durable
\* whatever becomes of the call.
LEMMA Logged ==
  ASSUME DurableInv, NEW m \in Messages, NEW p,
         pc' = [pc EXCEPT ![m] = p],
         logged' = [logged EXCEPT ![m] = @ + 1] \/ (p = "failed" /\ logged' = logged),
         queue' \in Seq(Messages), \A n \in Range(queue) : n # m => n \in Range(queue'),
         arrived' \in {arrived, Append(arrived, m)}
  PROVE  DurableInv'
<1>1. arrived' \in Seq(Messages) /\ Range(arrived') \subseteq Range(arrived) \cup {m}
  BY AcceptTypes DEF DurableInv, QueueTypes
<1>2. logged' \in [Messages -> Nat] /\ \A n \in Messages : n # m => logged'[n] = logged[n]
  BY DEF DurableInv
<1>3. Durable(m)'
  BY DEF Durable, DurableInv
<1>4. ASSUME NEW n \in Messages, n # m, Durable(n) PROVE Durable(n)'
  BY <1>2, <1>4 DEF Durable, DurableInv
<1>5. QED
  BY <1>1, <1>2, <1>3, <1>4, DurableStep DEF DurableInv, QueueTypes

\* handlePrompt up to its first await, also when there is a bundle.
LEMMA BeginPromptDurable ==
  ASSUME DurableInv, NEW m \in Messages, NEW busy \in BOOLEAN, BeginPrompt(m, busy),
         pc[m] \notin {"queued", "failed", "dropped"},
         arrived' \in {arrived, Append(arrived, m)}
  PROVE  DurableInv'
<1>1. CASE ~live
  BY <1>1, Logged DEF BeginPrompt, DurableInv, QueueTypes
<1>2. CASE live /\ ~HasBundle /\ busy
  BY <1>2, Enqueued DEF BeginPrompt, AfterBundle, DurableInv
<1>3. CASE live /\ (HasBundle \/ ~busy)
  <2>1. PICK p : pc' = [pc EXCEPT ![m] = p] /\ queue' = queue
    BY <1>3 DEF BeginPrompt, AfterBundle
  <2>2. logged' = [logged EXCEPT ![m] = @ + 1]
    BY <1>3 DEF BeginPrompt
  <2>3. QED
    BY <2>1, <2>2, Logged DEF DurableInv, QueueTypes
<1>4. QED
  BY <1>1, <1>2, <1>3

\* Unqueueing a message keeps all the others in the queue.
LEMMA UnqueueRange ==
  ASSUME DurableInv, NEW m, Unqueue(m)
  PROVE  /\ queue' \in Seq(Messages)
         /\ \A n \in Range(queue) : n # m => n \in Range(queue')
BY RemoveAtElements, RemoveAtRange DEF Unqueue, DurableInv, QueueTypes

\* DurableInv holds of an empty queue,
LEMMA InitDurableInv == Init => DurableInv
BY DEF Init, DurableInv, QueueTypes, Range

\* and each step, eviction and failure included, preserves it.
LEMMA NextDurableInv ==
  ASSUME DurableInv, [Next]_vars
  PROVE  DurableInv'
<1>1. ASSUME NEW m \in Messages, handlePrompt(m) PROVE DurableInv'
  BY <1>1, BeginPromptDurable DEF handlePrompt, Accept, Busy
<1>2. ASSUME NEW m \in Messages, queueMessage(m) PROVE DurableInv'
  <2>1. CASE Busy
    BY <1>2, <2>1, Enqueued DEF queueMessage, Accept, DurableInv
  <2>2. CASE ~Busy
    BY <1>2, <2>2, BeginPromptDurable DEF queueMessage, Accept
  <2>3. QED
    BY <2>1, <2>2
<1>3. ASSUME NEW m \in Messages, handleAgentPrompt(m) PROVE DurableInv'
  <2>1. CASE Busy \/ ~live
    BY <1>3, <2>1, CallsOnly DEF handleAgentPrompt, DurableInv
  <2>2. CASE ~Busy /\ live
    BY <1>3, <2>2, Logged DEF handleAgentPrompt, Accept, DurableInv, QueueTypes
  <2>3. QED
    BY <2>1, <2>2
<1>4. ASSUME NEW m \in Messages, queueDelete(m) PROVE DurableInv'
  <2>1. \A n \in Messages : Durable(n) => Durable(n)'
    BY <1>4, UnqueueRange DEF queueDelete, Durable, DurableInv
  <2>2. QED
    BY <1>4, <2>1, UnqueueRange, DurableStep DEF queueDelete, DurableInv, QueueTypes, Range
<1>5. ASSUME NEW m \in Messages, handleSteer(m) PROVE DurableInv'
  <2>1. /\ queue' \in Seq(Messages)
        /\ \A n \in Range(queue) : n # m => n \in Range(queue')
    BY <1>5, UnqueueRange DEF handleSteer, DurableInv, QueueTypes
  <2>2. PICK p : pc' = [pc EXCEPT ![m] = p] /\ (p = "failed" \/ live)
    BY <1>5 DEF handleSteer, Steer
  <2>3. logged' = [logged EXCEPT ![m] = @ + 1] \/ (~live /\ logged' = logged)
    BY <1>5 DEF handleSteer, Steer
  <2>4. QED
    BY <1>5, <2>1, <2>2, <2>3, Logged DEF handleSteer
<1>6. ASSUME NEW m \in Messages, deliverSteering(m) PROVE DurableInv'
  BY <1>6, CallsOnly DEF deliverSteering, DurableInv
<1>7. ASSUME NEW m \in Messages, bundlePromptHandler(m) PROVE DurableInv'
  <2>1. CASE pc' = [pc EXCEPT ![m] = "handled"] /\ UNCHANGED queue
    BY <1>7, <2>1, CallsOnly DEF bundlePromptHandler, DurableInv
  <2>2. CASE AfterBundle(m, Busy)
    <3>1. CASE Busy
      BY <1>7, <2>2, <3>1, Enqueued DEF bundlePromptHandler, AfterBundle, DurableInv
    <3>2. CASE ~Busy
      BY <1>7, <2>2, <3>2, CallsOnly DEF bundlePromptHandler, AfterBundle, DurableInv
    <3>3. QED
      BY <3>1, <3>2
  <2>3. QED
    BY <1>7, <2>1, <2>2 DEF bundlePromptHandler
<1>8. ASSUME NEW m \in Messages, ensureAgent(m) PROVE DurableInv'
  BY <1>8, CallsOnly DEF ensureAgent, DurableInv
<1>9. ASSUME NEW m \in Messages, ensureAgentThrows(m) PROVE DurableInv'
  BY <1>9, CallsOnly DEF ensureAgentThrows, DurableInv
<1>10. ASSUME NEW m \in Messages, startPrompt(m) PROVE DurableInv'
  BY <1>10, CallsOnly DEF startPrompt, DurableInv
<1>11. ASSUME NEW a \in Messages, agentEnd(a) PROVE DurableInv'
  <2> DEFINE ended == EndedPc(a)
  <2>1. /\ DOMAIN ended = Messages
        /\ \A n \in Messages : pc[n] \in {"queued", "failed", "dropped"} => ended[n] = pc[n]
    BY DEF EndedPc, SteeringOf
  <2>2. processQueue(ended) /\ UNCHANGED arrived
    BY <1>11 DEF agentEnd
  <2> HIDE DEF ended
  <2>3. CASE queue = <<>>
    BY <2>1, <2>2, <2>3, CallsOnly DEF processQueue
  <2>4. CASE queue # <<>>
    <3>0. queue' = Tail(queue) /\ queue \in Seq(Messages)
      BY <2>2, <2>4 DEF processQueue, DurableInv, QueueTypes
    <3> PICK m \in Messages : m = Head(queue)
      BY <2>4, <3>0, RangeHeadTail
    <3>1. /\ m \in Messages /\ queue' \in Seq(Messages)
          /\ Range(queue) = Range(queue') \cup {m}
      BY <2>4, <3>0, RangeHeadTail
    <3>2. PICK p : pc' = [ended EXCEPT ![m] = p] /\ (~live => p = "failed")
      BY <2>2, <2>4 DEF processQueue
    <3>3. logged' = IF live THEN [logged EXCEPT ![m] = @ + 1] ELSE logged
      BY <2>2, <2>4 DEF processQueue, DurableInv
    <3>4. logged' \in [Messages -> Nat] /\ Durable(m)'
      <4>1. CASE live
        BY <2>1, <3>1, <3>3, <4>1 DEF DurableInv, Durable
      <4>2. CASE ~live
        BY <2>1, <3>1, <3>2, <3>3, <4>2 DEF DurableInv, Durable
      <4>3. QED
        BY <4>1, <4>2
    <3>5. ASSUME NEW n \in Messages, n # m, Durable(n) PROVE Durable(n)'
      BY <2>1, <3>1, <3>2, <3>3, <3>5 DEF DurableInv, Durable
    <3>6. QED
      BY <2>1, <2>2, <3>1, <3>2, <3>4, <3>5, DurableStep DEF DurableInv, QueueTypes
  <2>5. QED
    BY <2>3, <2>4
<1>12. CASE abort
  BY <1>12, CallsOnly DEF abort, DurableInv
<1>13. CASE deleteSession
  <2>1. \A n \in Messages : Durable(n) => Durable(n)'
    BY <1>13 DEF deleteSession, Durable
  <2>2. QED
    BY <1>13, <2>1, DurableStep DEF deleteSession, DurableInv, QueueTypes, Range
<1>14. CASE handleClearCommand
  BY <1>14, CallsOnly DEF handleClearCommand, DurableInv
<1>15. CASE restart
  BY <1>15, CallsOnly DEF restart, Awaiting, DurableInv
<1>16. CASE UNCHANGED vars
  BY <1>16, CallsOnly DEF vars, DurableInv
<1>17. QED
  BY <1>1, <1>2, <1>3, <1>4, <1>5, <1>6, <1>7, <1>8, <1>9, <1>10, <1>11,
     <1>12, <1>13, <1>14, <1>15, <1>16 DEF Next, Progress

-----------------------------------------------------------------------------
(***************************************************************************)
(* ServedInArrivalOrder, for a session that nothing disturbs.  Messages    *)
(* that the agent has taken, the one whose call is inside ensureAgent, and *)
(* those in message_queue stand in one line in the order of arrival.  A    *)
(* new message can go to the agent past the queue only if the queue is     *)
(* empty: while it is not, some agent runs or is about to, and the busy    *)
(* check or the input gate keeps the new message behind.                   *)
(***************************************************************************)
Before(s, x, y) == \E k, l \in DOMAIN s : k < l /\ s[k] = x /\ s[l] = y

InOrder(s, q) == \A i, j \in DOMAIN q : i < j => Before(s, q[i], q[j])

\* In the sequence s, everything in X comes before everything in Y.
AllBefore(s, X, Y) == \A x \in X, y \in Y : Before(s, x, y)

InLine ==
  /\ served \in Seq(Messages) /\ QueueTypes
  /\ Range(served) \cup InEnsure \cup Range(queue) \subseteq Range(arrived)
  /\ InOrder(arrived, served)
  /\ InOrder(arrived, queue)
  /\ AllBefore(arrived, Range(served), InEnsure \cup Range(queue))
  /\ AllBefore(arrived, InEnsure, Range(queue))

\* What the calls and the map look like when nothing fails.
Undamaged ==
  /\ live
  /\ \A m \in Messages : pc[m] # "bundle" /\ (pc[m] = "created" => current = m)
  /\ queue # <<>> => Busy \/ InEnsure # {}

OrderInv == RunInv /\ Undamaged /\ InLine

CalmInv == calm \in BOOLEAN /\ (calm => Gated /\ ~HasBundle /\ OrderInv)

\* Another arrival changes nothing about who came before whom, and comes after
\* all others.
LEMMA BeforeAppend ==
  ASSUME NEW S, NEW s \in Seq(S), NEW m \in S
  PROVE  /\ \A x, y : Before(s, x, y) => Before(Append(s, m), x, y)
         /\ AllBefore(Append(s, m), Range(s), {m})
<1>1. \A k \in DOMAIN s : k \in DOMAIN Append(s, m) /\ Append(s, m)[k] = s[k]
  OBVIOUS
<1>2. \A x, y : Before(s, x, y) => Before(Append(s, m), x, y)
  BY <1>1 DEF Before
<1>3. ASSUME NEW x \in Range(s) PROVE Before(Append(s, m), x, m)
  <2>1. PICK k \in DOMAIN s : s[k] = x
    BY DEF Range
  <2>2. Len(s) + 1 \in DOMAIN Append(s, m) /\ Append(s, m)[Len(s) + 1] = m /\ k < Len(s) + 1
    OBVIOUS
  <2>3. QED
    BY <1>1, <2>1, <2>2 DEF Before
<1>4. QED
  BY <1>2, <1>3 DEF AllBefore

\* Order relative to a record survives as the record grows.
LEMMA OrderMono ==
  ASSUME NEW s, NEW t, \A x, y : Before(s, x, y) => Before(t, x, y)
  PROVE  /\ \A q : InOrder(s, q) => InOrder(t, q)
         /\ \A X, Y : AllBefore(s, X, Y) => AllBefore(t, X, Y)
BY DEF InOrder, AllBefore

\* A sequence in order stays so when it gets a new last element that comes
\* after its others.
LEMMA OrderAppend ==
  ASSUME NEW S, NEW s, NEW q \in Seq(S), NEW m \in S,
         InOrder(s, q), AllBefore(s, Range(q), {m})
  PROVE  InOrder(s, Append(q, m))
<1>1. SUFFICES ASSUME NEW i \in DOMAIN Append(q, m), NEW j \in DOMAIN Append(q, m), i < j
               PROVE  Before(s, Append(q, m)[i], Append(q, m)[j])
  BY DEF InOrder
<1>2. i \in DOMAIN q /\ Append(q, m)[i] = q[i]
  BY <1>1
<1>3. CASE j \in DOMAIN q
  <2>1. Append(q, m)[j] = q[j]
    BY <1>3
  <2>2. QED
    BY <1>1, <1>2, <1>3, <2>1 DEF InOrder
<1>4. CASE j \notin DOMAIN q
  <2>1. Append(q, m)[j] = m
    BY <1>4
  <2>2. q[i] \in Range(q)
    BY <1>2 DEF Range
  <2>3. QED
    BY <1>2, <2>1, <2>2 DEF AllBefore
<1>5. QED
  BY <1>3, <1>4

\* Head and tail of a sequence in order.
LEMMA OrderTail ==
  ASSUME NEW S, NEW s, NEW q \in Seq(S), q # <<>>, InOrder(s, q)
  PROVE  InOrder(s, Tail(q)) /\ AllBefore(s, {Head(q)}, Range(Tail(q)))
<1>1. /\ \A k \in DOMAIN Tail(q) : k \in Nat /\ 1 < k + 1 /\ k + 1 \in DOMAIN q
                                   /\ Tail(q)[k] = q[k + 1]
      /\ 1 \in DOMAIN q /\ Head(q) = q[1]
  OBVIOUS
<1>2. ASSUME NEW i \in DOMAIN Tail(q), NEW j \in DOMAIN Tail(q), i < j
      PROVE  Before(s, Tail(q)[i], Tail(q)[j])
  <2>1. i + 1 < j + 1 /\ i + 1 \in DOMAIN q /\ j + 1 \in DOMAIN q
    BY <1>1, <1>2
  <2>2. Before(s, q[i + 1], q[j + 1])
    BY <2>1 DEF InOrder
  <2>3. QED
    BY <1>1, <2>2
<1>3. ASSUME NEW y \in Range(Tail(q)) PROVE Before(s, Head(q), y)
  <2>1. PICK k \in DOMAIN Tail(q) : y = q[k + 1]
    BY <1>1 DEF Range
  <2>2. QED
    BY <1>1, <2>1 DEF InOrder
<1>4. QED
  BY <1>2, <1>3 DEF InOrder, AllBefore

\* A sequence in order stays so when it loses an element.
LEMMA OrderRemove ==
  ASSUME NEW S, NEW s, NEW q \in Seq(S), NEW i \in DOMAIN q, InOrder(s, q)
  PROVE  InOrder(s, RemoveAt(q, i))
<1> DEFINE r == RemoveAt(q, i)
           up(p) == IF p < i THEN p ELSE p + 1
<1>1. /\ r \in Seq(S) /\ Len(r) = Len(q) - 1
      /\ \A k \in 1 .. Len(q) - 1 : r[k] = IF k < i THEN q[k] ELSE q[k + 1]
  BY RemoveAtElements
<1> HIDE DEF r
<1>2. DOMAIN r = 1 .. Len(q) - 1 /\ DOMAIN q = 1 .. Len(q) /\ Len(q) \in Nat
  BY <1>1
<1>3. \A p \in DOMAIN r : up(p) \in DOMAIN q /\ r[p] = q[up(p)]
  BY <1>1, <1>2
<1>4. ASSUME NEW k \in DOMAIN r, NEW l \in DOMAIN r, k < l
      PROVE  Before(s, r[k], r[l])
  <2>1. up(k) < up(l)
    BY <1>2, <1>4
  <2>2. Before(s, q[up(k)], q[up(l)])
    BY <1>3, <2>1 DEF InOrder
  <2>3. QED
    BY <1>3, <2>2
<1>5. QED
  BY <1>4 DEF InOrder, r

\* Steps that let no message into ensureAgent and leave the queue alone.
LEMMA LineKept ==
  ASSUME InLine, NEW m \in Messages, arrived' \in {arrived, Append(arrived, m)},
         InEnsure' \subseteq InEnsure, UNCHANGED <<queue, served>>
  PROVE  InLine'
<1>1. QueueTypes' /\ Range(arrived) \subseteq Range(arrived')
      /\ Range(queue') = Range(queue) /\ Range(served') = Range(served)
  <2>1. CASE arrived' = arrived
    BY <2>1 DEF InLine, QueueTypes
  <2>2. CASE arrived' = Append(arrived, m)
    BY <2>2, RangeAppend DEF InLine, QueueTypes
  <2>3. QED
    BY <2>1, <2>2
<1>2. \A x, y : Before(arrived, x, y) => Before(arrived', x, y)
  BY BeforeAppend DEF InLine, QueueTypes
<1>3. /\ InOrder(arrived', served') /\ InOrder(arrived', queue')
      /\ AllBefore(arrived', Range(served), InEnsure \cup Range(queue))
      /\ AllBefore(arrived', InEnsure, Range(queue))
  BY <1>2, OrderMono DEF InLine
<1>4. QED
  BY <1>1, <1>3 DEF InLine, AllBefore

\* handlePrompt with an idle agent: the message is next.
LEMMA LineEnter ==
  ASSUME InLine, NEW m \in Messages, arrived' = Append(arrived, m),
         queue = <<>>, InEnsure' = {m}, UNCHANGED <<queue, served>>
  PROVE  InLine'
<1>1. /\ QueueTypes' /\ Range(arrived') = Range(arrived) \cup {m}
      /\ Range(queue') = {} /\ Range(served') = Range(served)
  BY RangeAppend DEF InLine, QueueTypes, Range
<1>2. /\ \A x, y : Before(arrived, x, y) => Before(arrived', x, y)
      /\ AllBefore(arrived', Range(arrived), {m})
  BY BeforeAppend DEF InLine, QueueTypes
<1>3. InOrder(arrived', served') /\ InOrder(arrived', queue')
  BY <1>2, OrderMono DEF InLine
<1>4. QED
  BY <1>1, <1>2, <1>3 DEF InLine, AllBefore

\* handlePrompt with a busy agent: the message goes to the end of the queue.
LEMMA LineEnqueue ==
  ASSUME InLine, NEW m \in Messages, arrived' = Append(arrived, m),
         queue' = Append(queue, m), InEnsure' = InEnsure, UNCHANGED served
  PROVE  InLine'
<1>1. /\ QueueTypes' /\ Range(arrived') = Range(arrived) \cup {m}
      /\ Range(queue') = Range(queue) \cup {m} /\ Range(served') = Range(served)
  BY RangeAppend DEF InLine, QueueTypes
<1>2. /\ \A x, y : Before(arrived, x, y) => Before(arrived', x, y)
      /\ AllBefore(arrived', Range(arrived), {m})
  BY BeforeAppend DEF InLine, QueueTypes
<1>3. /\ InOrder(arrived', served') /\ InOrder(arrived', queue)
      /\ AllBefore(arrived', Range(served), InEnsure \cup Range(queue))
      /\ AllBefore(arrived', InEnsure, Range(queue))
  BY <1>2, OrderMono DEF InLine
<1>4. AllBefore(arrived', Range(queue), {m})
  BY <1>2 DEF InLine, AllBefore
<1>5. InOrder(arrived', queue')
  BY <1>3, <1>4, OrderAppend DEF InLine, QueueTypes
<1>6. QED
  BY <1>1, <1>2, <1>3, <1>5 DEF InLine, AllBefore

\* agent_end: the head of the queue is next.
LEMMA LineDequeue ==
  ASSUME InLine, queue # <<>>, InEnsure' = {Head(queue)},
         queue' = Tail(queue), UNCHANGED <<arrived, served>>
  PROVE  InLine'
<1>1. /\ QueueTypes' /\ Range(queue) = Range(queue') \cup {Head(queue)}
      /\ Range(served') = Range(served) /\ Range(arrived') = Range(arrived)
  BY RangeHeadTail DEF InLine, QueueTypes
<1>2. InOrder(arrived, queue') /\ AllBefore(arrived, {Head(queue)}, Range(queue'))
  BY OrderTail DEF InLine, QueueTypes
<1>3. QED
  BY <1>1, <1>2 DEF InLine, AllBefore

\* The client takes a message out of the queue.
LEMMA LineUnqueue ==
  ASSUME InLine, NEW m, Unqueue(m), InEnsure' \subseteq InEnsure,
         UNCHANGED <<arrived, served>>
  PROVE  InLine'
<1>1. /\ QueueTypes' /\ Range(queue') \subseteq Range(queue)
      /\ Range(served') = Range(served) /\ Range(arrived') = Range(arrived)
  BY RemoveAtElements, RemoveAtRange DEF InLine, QueueTypes, Unqueue
<1>2. InOrder(arrived, queue')
  BY OrderRemove DEF InLine, QueueTypes, Unqueue
<1>3. QED
  BY <1>1, <1>2 DEF InLine, AllBefore

\* The agent takes the message whose call has built it.
LEMMA LineServe ==
  ASSUME InLine, NEW m \in InEnsure, InEnsure' = {},
         served' = Append(served, m), UNCHANGED <<arrived, queue>>
  PROVE  InLine'
<1>1. m \in Messages
  BY DEF InEnsure
<1>2. /\ served' \in Seq(Messages) /\ Range(served') = Range(served) \cup {m}
      /\ Range(queue') = Range(queue) /\ Range(arrived') = Range(arrived)
  BY <1>1, RangeAppend DEF InLine
<1>3. InOrder(arrived, served')
  BY <1>1, OrderAppend DEF InLine, AllBefore
<1>4. QED
  BY <1>2, <1>3 DEF InLine, AllBefore, QueueTypes

\* A new message, given to handlePrompt directly, by the queue action or by a
\* peer: it waits behind a busy agent and is next with an idle one.
LEMMA AcceptInOrder ==
  ASSUME OrderInv, NEW m \in Messages, pc[m] = "idle", InEnsure = {},
         arrived' = Append(arrived, m),
         IF Busy THEN queue' = Append(queue, m) /\ pc' = [pc EXCEPT ![m] = "queued"]
                 ELSE queue' = queue /\ pc' = [pc EXCEPT ![m] = "ensuring"],
         UNCHANGED <<live, current, streaming, served>>
  PROVE  Undamaged' /\ InLine'
<1>1. DOMAIN pc = Messages
  BY DEF OrderInv, RunInv, MapTypes
<1>2. CASE Busy
  <2>1. InEnsure' = InEnsure /\ Busy'
    BY <1>1, <1>2 DEF InEnsure, Busy
  <2>2. InLine'
    BY <1>2, <2>1, LineEnqueue DEF OrderInv
  <2>3. Undamaged'
    BY <1>1, <1>2, <2>1 DEF OrderInv, Undamaged
  <2>4. QED
    BY <2>2, <2>3
<1>3. CASE ~Busy
  <2>1. InEnsure' = {m} /\ queue = <<>>
    BY <1>1, <1>3 DEF InEnsure, OrderInv, Undamaged
  <2>2. InLine'
    BY <1>3, <2>1, LineEnter DEF OrderInv
  <2>3. Undamaged'
    BY <1>1, <1>3, <2>1 DEF OrderInv, Undamaged
  <2>4. QED
    BY <2>2, <2>3
<1>4. QED
  BY <1>2, <1>3

\* A step that changes neither who is in the line nor the map.
LEMMA LineUntouched ==
  ASSUME OrderInv, InEnsure' = InEnsure, Busy' = Busy,
         \A m \in Messages :
           pc'[m] # "bundle" /\ (pc'[m] = "created" => pc[m] = "created"),
         UNCHANGED <<live, current, arrived, queue, served>>
  PROVE  Undamaged' /\ InLine'
<1>1. Undamaged'
  BY DEF OrderInv, Undamaged
<1>2. InLine'
  <2>1. Range(queue') = Range(queue) /\ Range(served') = Range(served)
        /\ Range(arrived') = Range(arrived)
    BY DEF Range
  <2>2. QED
    BY <2>1 DEF OrderInv, InLine, QueueTypes
<1>3. QED
  BY <1>1, <1>2

\* OrderInv holds at the start,
LEMMA InitOrderInv == Init => OrderInv
<1> SUFFICES ASSUME Init PROVE OrderInv
  OBVIOUS
<1>1. RunInv
  BY InitRunInv
<1>2. InEnsure = {} /\ Range(queue) = {} /\ Range(served) = {}
  BY DEF Init, InEnsure, Range
<1>3. InLine
  BY <1>2 DEF Init, InLine, QueueTypes, InOrder, AllBefore
<1>4. Undamaged
  BY DEF Init, Undamaged
<1>5. QED
  BY <1>1, <1>3, <1>4 DEF OrderInv

\* and while all is calm each step preserves it.
LEMMA NextOrderInv ==
  ASSUME Gated, ~HasBundle, OrderInv, [Next]_vars, calm'
  PROVE  OrderInv'
<1>0. DOMAIN pc = Messages
  BY DEF OrderInv, RunInv, MapTypes
<1>1. RunInv'
  BY NextRunInv DEF OrderInv
<1> SUFFICES Undamaged' /\ InLine'
  BY <1>1 DEF OrderInv
<1>2. ASSUME NEW m \in Messages, handlePrompt(m) PROVE Undamaged' /\ InLine'
  <2>1. live /\ InEnsure = {}
    BY <1>2 DEF OrderInv, Undamaged, handlePrompt, Deliverable
  <2>2. QED
    BY <1>2, <2>1, AcceptInOrder DEF handlePrompt, BeginPrompt, AfterBundle, Accept
<1>3. ASSUME NEW m \in Messages, queueMessage(m) PROVE Undamaged' /\ InLine'
  <2>1. live /\ InEnsure = {}
    BY <1>3 DEF OrderInv, Undamaged, queueMessage, Deliverable
  <2>2. QED
    BY <1>3, <2>1, AcceptInOrder DEF queueMessage, BeginPrompt, AfterBundle, Accept
<1>4. ASSUME NEW m \in Messages, handleAgentPrompt(m) PROVE Undamaged' /\ InLine'
  <2>1. live /\ InEnsure = {}
    BY <1>4 DEF OrderInv, Undamaged, handleAgentPrompt, Deliverable
  <2>2. CASE Busy
    <3>1. InEnsure' = InEnsure /\ Busy' = Busy
      BY <1>0, <1>4, <2>2 DEF handleAgentPrompt, InEnsure, Busy
    <3>2. QED
      BY <1>0, <1>4, <2>2, <3>1, LineUntouched DEF handleAgentPrompt, OrderInv, Undamaged
  <2>3. CASE ~Busy
    BY <1>4, <2>1, <2>3, AcceptInOrder DEF handleAgentPrompt, Accept
  <2>4. QED
    BY <2>2, <2>3
<1>5. ASSUME NEW m \in Messages, queueDelete(m) PROVE Undamaged' /\ InLine'
  <2>1. InEnsure' = InEnsure /\ InEnsure = {} /\ Busy' = Busy
    BY <1>0, <1>5 DEF queueDelete, Deliverable, InEnsure, Busy
  <2>2. InLine'
    BY <1>5, <2>1, LineUnqueue DEF queueDelete, OrderInv
  <2>3. queue # <<>>
    BY <1>5 DEF queueDelete, Unqueue
  <2>4. QED
    BY <1>0, <1>5, <2>1, <2>2, <2>3 DEF queueDelete, OrderInv, Undamaged
<1>6. ASSUME NEW m \in Messages, handleSteer(m) PROVE Undamaged' /\ InLine'
  <2>1. live /\ InEnsure = {}
    BY <1>6 DEF OrderInv, Undamaged, handleSteer, Deliverable
  <2>2. PICK p \in {"steering", "noted"} : pc' = [pc EXCEPT ![m] = p]
    BY <1>6, <2>1 DEF handleSteer, Steer
  <2>3. InEnsure' = InEnsure /\ Busy' = Busy
    BY <1>0, <1>6, <2>2 DEF handleSteer, InEnsure, Busy
  <2>4. CASE pc[m] = "queued"
    <3>1. Unqueue(m)
      BY <1>6, <2>4 DEF handleSteer
    <3>2. InLine'
      BY <1>6, <2>3, <3>1, LineUnqueue DEF handleSteer, OrderInv
    <3>3. queue # <<>>
      BY <3>1 DEF Unqueue
    <3>4. QED
      BY <1>0, <1>6, <2>2, <2>3, <3>2, <3>3 DEF handleSteer, OrderInv, Undamaged
  <2>5. CASE pc[m] # "queued"
    BY <1>0, <1>6, <2>2, <2>3, <2>5, LineUntouched DEF handleSteer, OrderInv, Undamaged
  <2>6. QED
    BY <2>4, <2>5
<1>7. ASSUME NEW m \in Messages, deliverSteering(m) PROVE Undamaged' /\ InLine'
  <2>1. InEnsure' = InEnsure /\ Busy' = Busy
    BY <1>0, <1>7 DEF deliverSteering, InEnsure, Busy
  <2>2. QED
    BY <1>0, <1>7, <2>1, LineUntouched DEF deliverSteering, OrderInv, Undamaged
<1>8. ASSUME NEW m \in Messages, ensureAgent(m) PROVE Undamaged' /\ InLine'
  <2>1. InEnsure' = InEnsure /\ InEnsure # {} /\ \A n \in InEnsure : n = m
    BY <1>0, <1>8 DEF ensureAgent, InEnsure, OrderInv, RunInv, EnsureAlone
  <2>2. InLine'
    BY <1>8, <2>1, LineKept DEF ensureAgent, OrderInv
  <2>3. \A n \in Messages : pc'[n] = "created" => n = m
    BY <2>1 DEF InEnsure
  <2>4. QED
    BY <1>0, <1>8, <2>1, <2>2, <2>3 DEF ensureAgent, OrderInv, Undamaged
<1>9. ASSUME NEW m \in Messages, startPrompt(m) PROVE Undamaged' /\ InLine'
  <2>1. m \in InEnsure /\ (\A n \in InEnsure : n = m) /\ current = m /\ streaming = {}
    BY <1>9 DEF startPrompt, InEnsure, OrderInv, RunInv, EnsureAlone, Undamaged
  <2>2. current # None /\ current \notin streaming
    BY <2>1, NoneAssumption DEF InEnsure
  <2>3. InEnsure' = {} /\ Busy'
    BY <1>0, <1>9, <2>1, <2>2 DEF startPrompt, InEnsure, Busy
  <2>4. InLine'
    BY <1>9, <2>1, <2>2, <2>3, LineServe DEF startPrompt, OrderInv
  <2>5. Undamaged'
    BY <1>0, <1>9, <2>2, <2>3 DEF startPrompt, OrderInv, Undamaged
  <2>6. QED
    BY <2>4, <2>5
<1>10. ASSUME NEW a \in Messages, agentEnd(a) PROVE Undamaged' /\ InLine'
  <2> DEFINE ended == EndedPc(a)
  <2>1. /\ InEnsure = {} /\ live /\ processQueue(ended)
        /\ UNCHANGED <<live, arrived, served>>
    BY <1>10 DEF agentEnd, Deliverable, OrderInv, Undamaged
  <2>2. /\ DOMAIN ended = Messages
        /\ \A m \in Messages : ended[m] \notin {"ensuring", "created", "bundle"}
    BY <2>1 DEF EndedPc, InEnsure, OrderInv, Undamaged
  <2> HIDE DEF ended
  <2>3. CASE queue = <<>>
    <3>1. UNCHANGED queue /\ InEnsure' = {}
      BY <2>1, <2>2, <2>3 DEF processQueue, InEnsure
    <3>2. InLine'
      BY <1>10, <2>1, <3>1, LineKept DEF OrderInv
    <3>3. Undamaged'
      BY <2>1, <2>2, <2>3, <3>1 DEF processQueue, OrderInv, Undamaged
    <3>4. QED
      BY <3>2, <3>3
  <2>4. CASE queue # <<>>
    <3>0. PICK m \in Messages : m = Head(queue)
      BY <2>4, RangeHeadTail DEF OrderInv, InLine, QueueTypes
    <3>1. queue' = Tail(queue) /\ pc' = [ended EXCEPT ![m] = "ensuring"]
      BY <2>1, <2>4, <3>0 DEF processQueue
    <3>2. InEnsure' = {m}
      BY <2>2, <3>1 DEF InEnsure
    <3>3. InLine'
      BY <2>1, <2>4, <3>0, <3>1, <3>2, LineDequeue DEF OrderInv
    <3>4. Undamaged'
      BY <2>1, <2>2, <3>1, <3>2 DEF OrderInv, Undamaged
    <3>5. QED
      BY <3>3, <3>4
  <2>5. QED
    BY <2>3, <2>4
<1>11. CASE abort
  <2>1. InEnsure' = InEnsure /\ Busy' = Busy
    BY <1>11 DEF abort, InEnsure, Busy
  <2>2. QED
    BY <1>11, <2>1, LineUntouched DEF abort, OrderInv, Undamaged
<1>12. CASE UNCHANGED vars
  <2>1. InEnsure' = InEnsure /\ Busy' = Busy
    BY <1>12 DEF vars, InEnsure, Busy
  <2>2. QED
    BY <1>12, <2>1, LineUntouched DEF vars, OrderInv, Undamaged
<1>13. ASSUME NEW m \in Messages PROVE ~bundlePromptHandler(m) /\ ~ensureAgentThrows(m)
  BY DEF bundlePromptHandler, ensureAgentThrows, OrderInv, Undamaged
<1>14. ~deleteSession /\ ~handleClearCommand /\ ~restart
  BY DEF deleteSession, handleClearCommand, restart, OrderInv, Undamaged
<1>15. QED
  BY <1>2, <1>3, <1>4, <1>5, <1>6, <1>7, <1>8, <1>9, <1>10, <1>11, <1>12,
     <1>13, <1>14 DEF Next, Progress

\* The order holds at the start, and a step keeps it or ends the calm.
LEMMA CalmIsInductive ==
  /\ Init => CalmInv
  /\ CalmInv /\ [Next]_vars => CalmInv'
<1>1. Init => CalmInv
  BY InitOrderInv, FlagAssumption DEF Init, CalmInv
<1>2. ASSUME CalmInv, [Next]_vars PROVE calm' = calm \/ calm' = FALSE
  <2>1. ASSUME NEW m \in Messages, handlePrompt(m) \/ queueMessage(m) \/ handleAgentPrompt(m)
        PROVE  calm' = calm
    BY <2>1 DEF handlePrompt, queueMessage, handleAgentPrompt
  <2>2. ASSUME NEW m \in Messages, queueDelete(m) \/ handleSteer(m) \/ deliverSteering(m)
        PROVE  calm' = calm
    BY <2>2 DEF queueDelete, handleSteer, deliverSteering
  <2>3. ASSUME NEW m \in Messages, Progress(m) PROVE calm' = calm \/ calm' = FALSE
    <3>1. ASSUME bundlePromptHandler(m) \/ ensureAgent(m) \/ startPrompt(m) PROVE calm' = calm
      BY <3>1 DEF bundlePromptHandler, ensureAgent, startPrompt
    <3>2. ASSUME ensureAgentThrows(m) PROVE calm' = FALSE
      BY <3>2 DEF ensureAgentThrows
    <3>3. ASSUME agentEnd(m) PROVE calm' = calm
      BY <3>3 DEF agentEnd
    <3>4. QED
      BY <2>3, <3>1, <3>2, <3>3 DEF Progress
  <2>4. ASSUME abort \/ UNCHANGED vars PROVE calm' = calm
    BY <2>4 DEF abort, vars
  <2>5. ASSUME deleteSession \/ handleClearCommand \/ restart PROVE calm' = FALSE
    BY <2>5 DEF deleteSession, handleClearCommand, restart
  <2>6. QED
    BY <1>2, <2>1, <2>2, <2>3, <2>4, <2>5 DEF Next
<1>3. CalmInv /\ [Next]_vars => CalmInv'
  BY <1>2, NextOrderInv DEF CalmInv
<1>4. QED
  BY <1>1, <1>3

-----------------------------------------------------------------------------
\* A message is in the log or in message_queue from the moment it is accepted,
\* whatever is deleted, thrown or evicted, with or without the input gate and
\* for any number of messages; and with the gate and no bundle, until the first
\* exception, deletion or eviction, the agent takes the messages in the order in
\* which they arrived.
THEOREM AcceptedIsKept == Spec => []MessagesKept
<1>1. Spec => []AcceptedIsDurable
  <2>1. DurableInv => AcceptedIsDurable
    BY DEF DurableInv, AcceptedIsDurable, Durable
  <2>2. Init => DurableInv
    BY InitDurableInv
  <2>3. DurableInv /\ [Next]_vars => DurableInv'
    BY NextDurableInv
  <2>4. QED
    BY <2>1, <2>2, <2>3, PTL DEF Spec
<1>2. Spec => []CalmInv
  BY CalmIsInductive, PTL DEF Spec
<1>3. AcceptedIsDurable /\ CalmInv => MessagesKept
  BY DEF MessagesKept, CalmInv, OrderInv, InLine, InOrder, Before, ServedInArrivalOrder
<1>4. QED
  BY <1>1, <1>2, <1>3, PTL
=============================================================================
